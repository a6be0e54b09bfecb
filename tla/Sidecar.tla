------------------------------- MODULE Sidecar -------------------------------
(***************************************************************************)
(* cpa/manager.go: Manager starts the sidecar, watches it, restarts it     *)
(* after a crash and stops it, while HTTP handlers, InstallBinary of       *)
(* cpa/binary.go and the shutdown of main.go call it concurrently.         *)
(*                                                                         *)
(* A successful Start begins a generation g: the process g, the channels   *)
(* stopCh and doneCh made for it and the goroutine watch(g).  A section    *)
(* between m.mu.Lock and m.mu.Unlock is one step.                          *)
(*                                                                         *)
(* Bounds: each member of Callers makes one call; at most MaxStarts        *)
(* generations are begun.                                                  *)
(***************************************************************************)
EXTENDS Naturals

CONSTANTS Callers, MaxStarts

ASSUME StartsAssumption == MaxStarts \in Nat \ {0}

Gens == 1 .. MaxStarts

VARIABLES running,    \* m.running; m.cmd is process gen while it holds
          closing,    \* m.closing
          gen,        \* whose channels m.stopCh and m.doneCh are; 0 at first
          alive,      \* the processes that have not exited
          stopClosed, \* generations whose stopCh is closed
          doneClosed, \* generations whose doneCh is closed
          watch,      \* where watch(g) is, and m.closing as it read it
          call,       \* where each caller is
          panic       \* "locked": a handler panicked holding m.mu,
                      \* "exit": a goroutine without recover panicked

manager == <<running, closing, gen, stopClosed, doneClosed>>
vars == <<manager, alive, watch, call, panic>>

Watcher == [pc : {"none", "waiting", "exited", "unlocked", "deciding", "sleeping", "over"},
            closing : BOOLEAN]

Ops == {"start", "stop", "restart", "install", "shutdown"}

Places == {"idle", "checking", "stopping", "signalled", "awaiting", "killed",
           "insisting", "renaming", "starting", "returned", "failed", "panicked"}

Call == [pc : Places,
         op : Ops \cup {"none"},
         gen : 0 .. MaxStarts,   \* the process Stop took from m.cmd
         done : 0 .. MaxStarts,  \* whose doneCh it waits for
         was : BOOLEAN]          \* wasRunning of InstallBinary

TypeOK ==
  /\ running \in BOOLEAN /\ closing \in BOOLEAN
  /\ gen \in 0 .. MaxStarts
  /\ alive \subseteq Gens
  /\ stopClosed \subseteq Gens /\ doneClosed \subseteq Gens
  /\ watch \in [Gens -> Watcher]
  /\ call \in [Callers -> Call]
  /\ panic \in {"none", "locked", "exit"}

Waiting == [pc |-> "waiting", closing |-> FALSE]

(* When the handlers are reachable, main.go has started the sidecar or not. *)
Init ==
  /\ running \in BOOLEAN /\ closing = FALSE
  /\ gen = IF running THEN 1 ELSE 0
  /\ alive = IF running THEN {1} ELSE {}
  /\ stopClosed = {} /\ doneClosed = {}
  /\ watch = [g \in Gens |-> [pc |-> IF g = gen THEN "waiting" ELSE "none", closing |-> FALSE]]
  /\ call = [k \in Callers |->
               [pc |-> "idle", op |-> "none", gen |-> 0, done |-> 0, was |-> FALSE]]
  /\ panic = "none"

Alive == panic # "exit"

(* m.mu can be taken.                                                      *)
Lockable == panic = "none"

To(k, pc) == call' = [call EXCEPT ![k].pc = pc]

-----------------------------------------------------------------------------
(* The body of Start, in a handler or in watch.  It clears closing even    *)
(* when it fails.                                                          *)

(* Mutant: Start does not look whether the sidecar runs.                   *)
Launches_Twice ==
  /\ gen < MaxStarts
  /\ running' = TRUE
  /\ gen' = gen + 1
  /\ alive' = alive \cup {gen + 1}

Launches ==
  /\ ~running /\ gen < MaxStarts
  /\ running' = TRUE
  /\ gen' = gen + 1
  /\ alive' = alive \cup {gen + 1}

(* Already running, no valid binary, or it does not start.                 *)
LaunchFails == UNCHANGED <<running, gen, alive>>

(* watch, with the goroutine that a successful Start begins.               *)
Watched(w) == IF gen' = gen THEN w ELSE [w EXCEPT ![gen'] = Waiting]

Starts(k) ==
  /\ Lockable /\ call[k].pc = "starting"
  /\ closing' = FALSE
  /\ \/ Launches /\ To(k, "returned")
     \/ LaunchFails /\ To(k, "failed")
  /\ watch' = Watched(watch)
  /\ UNCHANGED <<stopClosed, doneClosed, panic>>

-----------------------------------------------------------------------------
(* watch *)

ProcessExits(g) ==
  /\ Alive /\ g \in alive
  /\ alive' = alive \ {g}
  /\ UNCHANGED <<manager, watch, call, panic>>

WaitReturns(g) ==
  /\ Alive /\ watch[g].pc = "waiting" /\ g \notin alive
  /\ watch' = [watch EXCEPT ![g].pc = "exited"]
  /\ UNCHANGED <<manager, alive, call, panic>>

(* Mutant: the flag is left to Stop.                                       *)
WatchLocks_KeepsRunning(g) ==
  /\ Lockable /\ watch[g].pc = "exited"
  /\ running' = (running /\ ~closing)
  /\ watch' = [watch EXCEPT ![g] = [pc |-> "unlocked", closing |-> closing]]
  /\ UNCHANGED <<closing, gen, stopClosed, doneClosed, alive, call, panic>>

(* m.running was true and m.stopCh this generation's: only this goroutine  *)
(* clears the flag, and no Start gets past it before.                      *)
WatchLocks(g) ==
  /\ Lockable /\ watch[g].pc = "exited"
  /\ running' = FALSE
  /\ watch' = [watch EXCEPT ![g] = [pc |-> "unlocked", closing |-> closing]]
  /\ UNCHANGED <<closing, gen, stopClosed, doneClosed, alive, call, panic>>

(* close(m.doneCh) reads the field without the lock: it finds the channel  *)
(* of its own time, or that of a Start since.                              *)
WatchCloses(g) ==
  /\ Alive /\ watch[g].pc = "unlocked"
  /\ \/ /\ gen \in doneClosed
        /\ panic' = "exit"
        /\ UNCHANGED <<doneClosed, watch>>
     \/ /\ gen \notin doneClosed
        /\ doneClosed' = doneClosed \cup {gen}
        /\ watch' = [watch EXCEPT ![g].pc = "deciding"]
        /\ UNCHANGED panic
  /\ UNCHANGED <<running, closing, gen, stopClosed, alive, call>>

(* Mutant: the process counts as crashed unless closing says otherwise.    *)
WatchDecides_ByFlag(g) ==
  /\ Alive /\ watch[g].pc = "deciding"
  /\ watch' = [watch EXCEPT ![g].pc = IF watch[g].closing THEN "over" ELSE "sleeping"]
  /\ UNCHANGED <<manager, alive, call, panic>>

WatchDecides(g) ==
  /\ Alive /\ watch[g].pc = "deciding"
  /\ watch' = [watch EXCEPT ![g].pc =
                 IF watch[g].closing \/ g \in stopClosed THEN "over" ELSE "sleeping"]
  /\ UNCHANGED <<manager, alive, call, panic>>

(* Five seconds after a crash.                                             *)
WatchRestarts(g) ==
  /\ Lockable /\ watch[g].pc = "sleeping"
  /\ closing' = FALSE
  /\ Launches \/ LaunchFails
  /\ watch' = [Watched(watch) EXCEPT ![g].pc = "over"]
  /\ UNCHANGED <<stopClosed, doneClosed, call, panic>>

-----------------------------------------------------------------------------
(* The calls.  An InstallBinary begins here when its download is complete. *)

Begins(k) ==
  /\ Alive /\ call[k].pc = "idle"
  /\ \E op \in Ops :
       call' = [call EXCEPT ![k].op = op,
                            ![k].pc = CASE op = "start"   -> "starting"
                                        [] op = "install" -> "checking"
                                        [] OTHER          -> "stopping"]
  /\ UNCHANGED <<manager, alive, watch, panic>>

(* wasRunning := m.IsRunning()                                             *)
InstallChecks(k) ==
  /\ Lockable /\ call[k].pc = "checking"
  /\ call' = [call EXCEPT ![k].was = running,
                          ![k].pc = IF running THEN "stopping" ELSE "renaming"]
  /\ UNCHANGED <<manager, alive, watch, panic>>

(* os.Rename; if it fails the sidecar is started again all the same.       *)
InstallRenames(k) ==
  /\ Alive /\ call[k].pc = "renaming"
  /\ \E pc \in {"returned", "failed"} : To(k, IF call[k].was THEN "starting" ELSE pc)
  /\ UNCHANGED <<manager, alive, watch, panic>>

AfterStop(op) ==
  CASE op = "restart" -> "starting"
    [] op = "install" -> "renaming"
    [] OTHER          -> "returned"

(* Mutant: Stop does not look whether the sidecar runs.                     *)
StopBegins_Unchecked(k) ==
  /\ Lockable /\ call[k].pc = "stopping"
  /\ closing' = TRUE
  /\ stopClosed' = stopClosed \cup {gen}
  /\ call' = [call EXCEPT ![k].pc = "signalled", ![k].gen = gen]
  /\ UNCHANGED <<running, gen, doneClosed, alive, watch, panic>>

(* The first section of Stop.  Closing a closed channel panics: gin's      *)
(* Recovery ends the handler with m.mu still locked, main does not recover. *)
StopBegins(k) ==
  /\ Lockable /\ call[k].pc = "stopping"
  /\ \/ /\ ~running
        /\ To(k, AfterStop(call[k].op))
        /\ UNCHANGED <<closing, stopClosed, panic>>
     \/ /\ running /\ gen \notin stopClosed
        /\ closing' = TRUE
        /\ stopClosed' = stopClosed \cup {gen}
        /\ call' = [call EXCEPT ![k].pc = "signalled", ![k].gen = gen]
        /\ UNCHANGED panic
     \/ /\ running /\ gen \in stopClosed
        /\ closing' = TRUE
        /\ panic' = IF call[k].op = "shutdown" THEN "exit" ELSE "locked"
        /\ To(k, "panicked")
        /\ UNCHANGED stopClosed
  /\ UNCHANGED <<running, gen, doneClosed, alive, watch>>

(* <-m.doneCh evaluates the field, without the lock, and then waits.       *)
StopLooks(k) ==
  /\ Alive /\ call[k].pc \in {"signalled", "killed"}
  /\ call' = [call EXCEPT ![k].done = gen,
                          ![k].pc = IF @ = "signalled" THEN "awaiting" ELSE "insisting"]
  /\ UNCHANGED <<manager, alive, watch, panic>>

StopEnds(k) ==
  /\ Alive /\ call[k].pc \in {"awaiting", "insisting"}
  /\ call[k].done \in doneClosed
  /\ To(k, AfterStop(call[k].op))
  /\ UNCHANGED <<manager, alive, watch, panic>>

(* Ten seconds are over.                                                   *)
StopKills(k) ==
  /\ Alive /\ call[k].pc = "awaiting"
  /\ alive' = alive \ {call[k].gen}
  /\ To(k, "killed")
  /\ UNCHANGED <<manager, watch, panic>>

WatchStep(g) == WaitReturns(g) \/ WatchLocks(g) \/ WatchCloses(g) \/ WatchDecides(g) \/ WatchRestarts(g)

CallStep(k) ==
  \/ InstallChecks(k) \/ InstallRenames(k) \/ Starts(k)
  \/ StopBegins(k) \/ StopLooks(k) \/ StopEnds(k) \/ StopKills(k)

Next ==
  \/ \E g \in Gens : ProcessExits(g) \/ WatchStep(g)
  \/ \E k \in Callers : Begins(k) \/ CallStep(k)

Spec == Init /\ [][Next]_vars

(* Goroutines run and timers fire.  Nothing is assumed of the process: it  *)
(* need not exit, not even when it is interrupted.                         *)
Fairness ==
  (\A g \in Gens : WF_vars(WatchStep(g))) /\ (\A k \in Callers : WF_vars(CallStep(k)))

FairSpec == Spec /\ Fairness

-----------------------------------------------------------------------------
(* There is at most one sidecar process, and while there is one the        *)
(* manager says so, knows it and waits for its end: however Start, Stop    *)
(* and the restart after a crash overlap (Start's test of m.running).      *)
ProcessIsOwned ==
  \A g \in alive : running /\ gen = g /\ watch[g].pc = "waiting"

(* A process that somebody stopped is not taken for a crashed one, even if *)
(* a failing Start clears closing meanwhile (watch's look at stopCh).      *)
StoppedIsNoCrash == \A g \in stopClosed : watch[g].pc # "sleeping"

(* The manager does not go on claiming that a dead process runs, unless a  *)
(* panic left m.mu locked or ended the program.                            *)
DeathNoticed == []<>(running => gen \in alive \/ panic # "none")

(* Stop returns: it gives the process ten seconds and kills it             *)
(* (manager.go:225).                                                       *)
StopReturns ==
  \A k \in Callers :
    call[k].pc = "signalled" ~> call[k].pc \notin {"signalled", "awaiting", "killed", "insisting"}
=============================================================================
