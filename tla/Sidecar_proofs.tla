---------------------------- MODULE Sidecar_proofs ----------------------------
(***************************************************************************)
(* Proofs about Sidecar, for any number of callers and of starts: there is *)
(* one sidecar process at most and its watcher knows it, and a process     *)
(* that was stopped is never taken for a crashed one.                      *)
(***************************************************************************)
EXTENDS Sidecar, TLAPS

(* m.running is TRUE exactly while the watcher of the newest generation    *)
(* has not taken the lock after the exit of its process.                   *)
Watching(g) == watch[g].pc \in {"waiting", "exited"}

WatcherInv ==
  /\ running => gen \in Gens /\ Watching(gen)
  /\ \A g \in Gens : Watching(g) => running /\ gen = g
  /\ \A g \in alive : watch[g].pc = "waiting"
  /\ \A g \in Gens : watch[g].pc # "none" => g <= gen

IInv == TypeOK /\ WatcherInv /\ StoppedIsNoCrash

(* ProcessIsOwned alone is not inductive: it says nothing of a watcher     *)
(* whose process has exited and that still keeps Start from launching.     *)
LEMMA Owned == ASSUME IInv PROVE ProcessIsOwned
BY DEF IInv, TypeOK, WatcherInv, Watching, ProcessIsOwned

-----------------------------------------------------------------------------
(* What Start does under the lock, whoever calls it.                       *)
LEMMA Launching ==
  ASSUME IInv, Launches \/ LaunchFails
  PROVE  /\ running' \in BOOLEAN /\ gen' \in 0 .. MaxStarts /\ alive' \subseteq Gens
         /\ gen' # gen => gen' \in Gens /\ gen' = gen + 1 /\ ~running /\ running'
                          /\ alive = {} /\ alive' = {gen'}
                          /\ \A g \in Gens : ~Watching(g)
         /\ gen' = gen => running' = running /\ alive' = alive
<1> USE StartsAssumption DEF Gens
<1>1. CASE LaunchFails
  BY <1>1 DEF LaunchFails, IInv, TypeOK
<1>2. CASE Launches
  <2>1. /\ ~running /\ gen < MaxStarts /\ gen \in 0 .. MaxStarts
        /\ running' = TRUE /\ gen' = gen + 1 /\ alive' = alive \cup {gen + 1}
    BY <1>2 DEF Launches, IInv, TypeOK
  <2>2. gen' \in Gens /\ gen' # gen
    BY <2>1
  <2>3. \A g \in Gens : ~Watching(g)
    BY <2>1 DEF IInv, WatcherInv
  <2>4. alive = {}
    BY <2>3 DEF IInv, TypeOK, WatcherInv, Watching
  <2>5. running' \in BOOLEAN /\ ~running /\ running'
    BY <2>1
  <2>6. alive' = {gen'} /\ alive' \subseteq Gens /\ gen' \in 0 .. MaxStarts
    BY <2>1, <2>2, <2>4
  <2> QED BY <2>1, <2>2, <2>3, <2>4, <2>5, <2>6
<1> QED BY <1>1, <1>2

(* A caller that moves on, taking something with it, stays well typed.     *)
LEMMA Moving ==
  ASSUME TypeOK, NEW k \in Callers, NEW pc \in Places
  PROVE  /\ [call EXCEPT ![k].pc = pc] \in [Callers -> Call]
         /\ \A g \in 0 .. MaxStarts :
              /\ [call EXCEPT ![k].pc = pc, ![k].gen = g] \in [Callers -> Call]
              /\ [call EXCEPT ![k].done = g, ![k].pc = pc] \in [Callers -> Call]
         /\ \A b \in BOOLEAN : [call EXCEPT ![k].was = b, ![k].pc = pc] \in [Callers -> Call]
         /\ \A op \in Ops : [call EXCEPT ![k].op = op, ![k].pc = pc] \in [Callers -> Call]
<1>1. call \in [Callers -> Call] /\ call[k] \in Call
  BY DEF TypeOK
<1>2. [call EXCEPT ![k].pc = pc] \in [Callers -> Call]
  BY <1>1 DEF Call
<1>3. ASSUME NEW g \in 0 .. MaxStarts
      PROVE  /\ [call EXCEPT ![k].pc = pc, ![k].gen = g] \in [Callers -> Call]
             /\ [call EXCEPT ![k].done = g, ![k].pc = pc] \in [Callers -> Call]
  BY <1>1 DEF Call
<1>4. ASSUME NEW b \in BOOLEAN
      PROVE  [call EXCEPT ![k].was = b, ![k].pc = pc] \in [Callers -> Call]
  BY <1>1 DEF Call
<1>5. ASSUME NEW op \in Ops
      PROVE  [call EXCEPT ![k].op = op, ![k].pc = pc] \in [Callers -> Call]
  BY <1>1 DEF Call
<1> QED BY <1>2, <1>3, <1>4, <1>5

LEMMA AfterStopPlace == \A op : AfterStop(op) \in Places
BY DEF AfterStop, Places

LEMMA InitInv == ASSUME Init PROVE IInv
<1> USE StartsAssumption DEF Gens
<1>1. TypeOK
  <2>1. gen \in 0 .. MaxStarts /\ alive \subseteq Gens /\ running \in BOOLEAN
    BY DEF Init
  <2>2. watch \in [Gens -> Watcher]
    BY DEF Init, Watcher
  <2>3. call \in [Callers -> Call]
    BY DEF Init, Call, Places
  <2>4. /\ closing \in BOOLEAN /\ stopClosed \subseteq Gens /\ doneClosed \subseteq Gens
        /\ panic \in {"none", "locked", "exit"}
    BY DEF Init
  <2> QED BY <2>1, <2>2, <2>3, <2>4 DEF TypeOK
<1>2. WatcherInv
  <2>1. \A g \in Gens : watch[g].pc = IF g = gen THEN "waiting" ELSE "none"
    BY DEF Init, Waiting
  <2>2. running \in BOOLEAN /\ gen = IF running THEN 1 ELSE 0
    BY DEF Init
  <2>3. alive = IF running THEN {1} ELSE {}
    BY DEF Init
  <2> QED BY <2>1, <2>2, <2>3 DEF WatcherInv, Watching
<1>3. StoppedIsNoCrash
  BY DEF Init, StoppedIsNoCrash
<1> QED BY <1>1, <1>2, <1>3 DEF IInv

(* Steps of callers that leave the process, the flag, the generation, the  *)
(* watchers and the stop channels alone.                                   *)
LEMMA OtherSteps ==
  ASSUME IInv, TypeOK', UNCHANGED <<running, gen, alive, watch, stopClosed>>
  PROVE  IInv'
BY DEF IInv, WatcherInv, Watching, StoppedIsNoCrash

LEMMA StepInv == ASSUME IInv, [Next]_vars PROVE IInv'
<1> USE StartsAssumption DEF Gens
<1>0. TypeOK
  BY DEF IInv
<1>1. CASE UNCHANGED vars
  BY <1>1 DEF vars, manager, IInv, TypeOK, WatcherInv, Watching, StoppedIsNoCrash
<1>2. ASSUME NEW g \in Gens, ProcessExits(g) PROVE IInv'
  <2>1. TypeOK'
    BY <1>0, <1>2 DEF TypeOK, ProcessExits, manager
  <2>2. WatcherInv'
    BY <1>0, <1>2 DEF IInv, TypeOK, WatcherInv, Watching, ProcessExits, manager
  <2>3. StoppedIsNoCrash'
    BY <1>2 DEF IInv, StoppedIsNoCrash, ProcessExits, manager
  <2> QED BY <2>1, <2>2, <2>3 DEF IInv
<1>3. ASSUME NEW g \in Gens, WaitReturns(g) PROVE IInv'
  <2>1. watch' = [watch EXCEPT ![g].pc = "exited"] /\ watch[g].pc = "waiting" /\ g \notin alive
    BY <1>3 DEF WaitReturns
  <2>2. UNCHANGED <<running, closing, gen, stopClosed, doneClosed, alive, call, panic>>
    BY <1>3 DEF WaitReturns, manager
  <2>3. \A h \in Gens : watch'[h].pc = IF h = g THEN "exited" ELSE watch[h].pc
    BY <2>1, <1>0 DEF TypeOK, Watcher
  <2>4. TypeOK'
    BY <2>1, <2>2, <1>0 DEF TypeOK, Watcher
  <2>5. WatcherInv'
    BY <2>1, <2>2, <2>3, <1>0 DEF IInv, TypeOK, WatcherInv, Watching
  <2>6. StoppedIsNoCrash'
    BY <2>2, <2>3, <1>0 DEF IInv, TypeOK, StoppedIsNoCrash
  <2> QED BY <2>4, <2>5, <2>6 DEF IInv
<1>4. ASSUME NEW g \in Gens, WatchLocks(g) PROVE IInv'
  <2>1. /\ watch[g].pc = "exited" /\ running' = FALSE
        /\ watch' = [watch EXCEPT ![g] = [pc |-> "unlocked", closing |-> closing]]
    BY <1>4 DEF WatchLocks
  <2>2. UNCHANGED <<closing, gen, stopClosed, doneClosed, alive, call, panic>>
    BY <1>4 DEF WatchLocks
  <2>3. \A h \in Gens : watch'[h].pc = IF h = g THEN "unlocked" ELSE watch[h].pc
    BY <2>1, <1>0 DEF TypeOK, Watcher
  <2>4. TypeOK'
    BY <2>1, <2>2, <1>0 DEF TypeOK, Watcher
  <2>5. WatcherInv'
    BY <2>1, <2>2, <2>3, <1>0 DEF IInv, TypeOK, WatcherInv, Watching
  <2>6. StoppedIsNoCrash'
    BY <2>2, <2>3, <1>0 DEF IInv, TypeOK, StoppedIsNoCrash
  <2> QED BY <2>4, <2>5, <2>6 DEF IInv
<1>5. ASSUME NEW g \in Gens, WatchCloses(g) PROVE IInv'
  <2>1. watch[g].pc = "unlocked" /\ gen \in Gens
    BY <1>5, <1>0 DEF WatchCloses, IInv, WatcherInv, TypeOK
  <2>2. UNCHANGED <<running, closing, gen, stopClosed, alive, call>>
    BY <1>5 DEF WatchCloses
  <2>3. \/ panic' = "exit" /\ UNCHANGED <<doneClosed, watch>>
        \/ /\ doneClosed' = doneClosed \cup {gen} /\ UNCHANGED panic
           /\ watch' = [watch EXCEPT ![g].pc = "deciding"]
    BY <1>5 DEF WatchCloses
  <2>4. \A h \in Gens : \/ watch'[h].pc = watch[h].pc
                        \/ h = g /\ watch'[h].pc = "deciding"
    BY <2>3, <1>0 DEF TypeOK, Watcher
  <2>5. TypeOK'
    <3>1. watch' \in [Gens -> Watcher]
      BY <2>3, <1>0 DEF TypeOK, Watcher
    <3>2. doneClosed' \subseteq Gens /\ panic' \in {"none", "locked", "exit"}
      BY <2>1, <2>3, <1>0 DEF TypeOK
    <3> QED BY <3>1, <3>2, <2>2, <1>0 DEF TypeOK
  <2>6. WatcherInv'
    BY <2>1, <2>2, <2>4, <1>0 DEF IInv, TypeOK, WatcherInv, Watching
  <2>7. StoppedIsNoCrash'
    BY <2>2, <2>4, <1>0 DEF IInv, TypeOK, StoppedIsNoCrash
  <2> QED BY <2>5, <2>6, <2>7 DEF IInv
<1>6. ASSUME NEW g \in Gens, WatchDecides(g) PROVE IInv'
  <2>1. /\ watch[g].pc = "deciding"
        /\ watch' = [watch EXCEPT ![g].pc =
             IF watch[g].closing \/ g \in stopClosed THEN "over" ELSE "sleeping"]
    BY <1>6 DEF WatchDecides
  <2>2. UNCHANGED <<running, closing, gen, stopClosed, doneClosed, alive, call, panic>>
    BY <1>6 DEF WatchDecides, manager
  <2>3. \A h \in Gens : \/ watch'[h].pc = watch[h].pc
                        \/ h = g /\ watch'[h].pc = "over"
                        \/ h = g /\ watch'[h].pc = "sleeping" /\ g \notin stopClosed
    BY <2>1, <1>0 DEF TypeOK, Watcher
  <2>4. TypeOK'
    BY <2>1, <2>2, <1>0 DEF TypeOK, Watcher
  <2>5. WatcherInv'
    BY <2>1, <2>2, <2>3, <1>0 DEF IInv, TypeOK, WatcherInv, Watching
  <2>6. StoppedIsNoCrash'
    BY <2>2, <2>3, <1>0 DEF IInv, TypeOK, StoppedIsNoCrash
  <2> QED BY <2>4, <2>5, <2>6 DEF IInv
<1>7. ASSUME NEW g \in Gens, WatchRestarts(g) PROVE IInv'
  <2>1. /\ watch[g].pc = "sleeping" /\ closing' = FALSE /\ (Launches \/ LaunchFails)
        /\ watch' = [Watched(watch) EXCEPT ![g].pc = "over"]
        /\ UNCHANGED <<stopClosed, doneClosed, call, panic>>
    BY <1>7 DEF WatchRestarts
  <2>2. /\ running' \in BOOLEAN /\ gen' \in 0 .. MaxStarts /\ alive' \subseteq Gens
        /\ gen' # gen => gen' \in Gens /\ gen' = gen + 1 /\ ~running /\ running'
                         /\ alive = {} /\ alive' = {gen'}
                         /\ \A h \in Gens : ~Watching(h)
        /\ gen' = gen => running' = running /\ alive' = alive
    BY <2>1, Launching
  <2>3. Watched(watch) \in [Gens -> Watcher]
    BY <2>2, <1>0 DEF Watched, Waiting, TypeOK, Watcher
  <2>4. TypeOK'
    BY <2>1, <2>2, <2>3, <1>0 DEF TypeOK, Watcher
  <2>5. CASE gen' = gen
    <3>1. watch' = [watch EXCEPT ![g].pc = "over"]
      BY <2>1, <2>5 DEF Watched
    <3>2. \A h \in Gens : watch'[h].pc = IF h = g THEN "over" ELSE watch[h].pc
      BY <3>1, <1>0 DEF TypeOK, Watcher
    <3>3. WatcherInv'
      BY <3>2, <2>1, <2>2, <2>5, <1>0 DEF IInv, TypeOK, WatcherInv, Watching
    <3>4. StoppedIsNoCrash'
      BY <3>2, <2>1, <1>0 DEF IInv, TypeOK, StoppedIsNoCrash
    <3> QED BY <2>4, <3>3, <3>4 DEF IInv
  <2>6. CASE gen' # gen
    <3>1. g # gen' /\ gen' = gen + 1 /\ gen' \in Gens
      BY <2>1, <2>2, <2>6, <1>0 DEF IInv, WatcherInv, TypeOK
    <3>2. watch' = [[watch EXCEPT ![gen'] = Waiting] EXCEPT ![g].pc = "over"]
      BY <2>1, <2>6 DEF Watched
    <3>3. \A h \in Gens : watch'[h].pc = CASE h = g    -> "over"
                                             [] h = gen' -> "waiting"
                                             [] OTHER    -> watch[h].pc
      BY <3>1, <3>2, <1>0 DEF TypeOK, Watcher, Waiting
    <3>4. WatcherInv'
      BY <3>1, <3>3, <2>1, <2>2, <2>6, <1>0 DEF IInv, TypeOK, WatcherInv, Watching
    <3>5. StoppedIsNoCrash'
      BY <3>1, <3>3, <2>1, <1>0 DEF IInv, TypeOK, StoppedIsNoCrash
    <3> QED BY <2>4, <3>4, <3>5 DEF IInv
  <2> QED BY <2>5, <2>6
<1>8. ASSUME NEW k \in Callers, Starts(k) PROVE IInv'
  <2>1. /\ closing' = FALSE /\ (Launches \/ LaunchFails)
        /\ \E pc \in {"returned", "failed"} : call' = [call EXCEPT ![k].pc = pc]
        /\ watch' = Watched(watch)
        /\ UNCHANGED <<stopClosed, doneClosed, panic>>
    BY <1>8 DEF Starts, To
  <2>2. /\ running' \in BOOLEAN /\ gen' \in 0 .. MaxStarts /\ alive' \subseteq Gens
        /\ gen' # gen => gen' \in Gens /\ gen' = gen + 1 /\ ~running /\ running'
                         /\ alive = {} /\ alive' = {gen'}
                         /\ \A h \in Gens : ~Watching(h)
        /\ gen' = gen => running' = running /\ alive' = alive
    BY <2>1, Launching
  <2>3. watch' \in [Gens -> Watcher]
    BY <2>1, <2>2, <1>0 DEF Watched, Waiting, TypeOK, Watcher
  <2>4. call' \in [Callers -> Call]
    <3>1. PICK pc \in Places : call' = [call EXCEPT ![k].pc = pc]
      BY <2>1 DEF Places
    <3> QED BY <3>1, <1>0, Moving
  <2>5. TypeOK'
    BY <2>1, <2>2, <2>3, <2>4, <1>0 DEF TypeOK
  <2>6. CASE gen' = gen
    BY <2>1, <2>2, <2>5, <2>6 DEF Watched, IInv, WatcherInv, Watching, StoppedIsNoCrash
  <2>7. CASE gen' # gen
    <3>1. gen' = gen + 1 /\ gen' \in Gens
      BY <2>2, <2>7
    <3>2. \A h \in Gens : watch'[h].pc = IF h = gen' THEN "waiting" ELSE watch[h].pc
      BY <3>1, <2>1, <2>7, <1>0 DEF Watched, TypeOK, Watcher, Waiting
    <3>3. WatcherInv'
      BY <3>1, <3>2, <2>1, <2>2, <2>7, <1>0 DEF IInv, TypeOK, WatcherInv, Watching
    <3>4. StoppedIsNoCrash'
      BY <3>2, <2>1, <1>0 DEF IInv, TypeOK, StoppedIsNoCrash
    <3> QED BY <2>5, <3>3, <3>4 DEF IInv
  <2> QED BY <2>6, <2>7
<1>9. ASSUME NEW k \in Callers, StopBegins(k) PROVE IInv'
  <2>1. UNCHANGED <<running, gen, doneClosed, alive, watch>>
    BY <1>9 DEF StopBegins
  <2>2. AfterStop(call[k].op) \in Places
    BY <1>0, <1>9, AfterStopPlace DEF StopBegins
  <2>3. CASE /\ UNCHANGED stopClosed /\ closing' \in BOOLEAN
             /\ panic' \in {"none", "locked", "exit"}
             /\ \E pc \in Places : call' = [call EXCEPT ![k].pc = pc]
    <3>1. call' \in [Callers -> Call]
      <4>1. PICK pc \in Places : call' = [call EXCEPT ![k].pc = pc]
        BY <2>3
      <4> QED BY <4>1, <1>0, Moving
    <3>2. TypeOK'
      BY <1>0, <2>1, <2>3, <3>1 DEF TypeOK
    <3> QED BY <3>2, <2>1, <2>3, OtherSteps
  <2>4. CASE /\ running /\ gen \notin stopClosed
             /\ closing' = TRUE
             /\ stopClosed' = stopClosed \cup {gen}
             /\ call' = [call EXCEPT ![k].pc = "signalled", ![k].gen = gen]
             /\ UNCHANGED panic
    <3>1. gen \in Gens /\ Watching(gen)
      BY <2>4 DEF IInv, WatcherInv
    <3>2. call' \in [Callers -> Call]
      BY <2>4, <1>0, Moving DEF TypeOK, Places
    <3>3. TypeOK'
      BY <2>1, <2>4, <3>1, <3>2, <1>0 DEF TypeOK
    <3>4. WatcherInv'
      BY <2>1 DEF IInv, WatcherInv, Watching
    <3>5. StoppedIsNoCrash'
      BY <2>1, <2>4, <3>1 DEF IInv, StoppedIsNoCrash, Watching
    <3> QED BY <3>3, <3>4, <3>5 DEF IInv
  <2>5. closing \in BOOLEAN /\ panic \in {"none", "locked", "exit"} /\ "panicked" \in Places
    BY <1>0 DEF TypeOK, Places
  <2> QED BY <1>9, <2>2, <2>3, <2>4, <2>5 DEF StopBegins, To
<1>10. ASSUME NEW k \in Callers, StopKills(k) PROVE IInv'
  <2>1. call' \in [Callers -> Call]
    BY <1>10, <1>0, Moving DEF StopKills, Places, To
  <2>2. TypeOK'
    BY <1>10, <1>0, <2>1 DEF StopKills, TypeOK, manager
  <2>3. WatcherInv' /\ StoppedIsNoCrash'
    BY <1>0, <1>10 DEF IInv, TypeOK, WatcherInv, Watching, StoppedIsNoCrash, StopKills, manager
  <2> QED BY <2>2, <2>3 DEF IInv
<1>11. ASSUME NEW k \in Callers, Begins(k) PROVE IInv'
  <2>1. call' \in [Callers -> Call]
    <3>1. PICK op \in Ops :
            call' = [call EXCEPT ![k].op = op,
                                 ![k].pc = CASE op = "start"   -> "starting"
                                             [] op = "install" -> "checking"
                                             [] OTHER          -> "stopping"]
      BY <1>11 DEF Begins
    <3>2. (CASE op = "start" -> "starting" [] op = "install" -> "checking"
             [] OTHER -> "stopping") \in Places
      BY DEF Places
    <3> QED BY <3>1, <3>2, <1>0, Moving
  <2>2. TypeOK'
    BY <1>11, <1>0, <2>1 DEF Begins, TypeOK, manager
  <2> QED BY <2>2, <1>11, OtherSteps DEF Begins, manager
<1>12. ASSUME NEW k \in Callers, InstallChecks(k) PROVE IInv'
  <2>1. call' \in [Callers -> Call]
    BY <1>12, <1>0, Moving DEF InstallChecks, Places, TypeOK
  <2>2. TypeOK'
    BY <1>12, <1>0, <2>1 DEF InstallChecks, TypeOK, manager
  <2> QED BY <2>2, <1>12, OtherSteps DEF InstallChecks, manager
<1>13. ASSUME NEW k \in Callers, InstallRenames(k) PROVE IInv'
  <2>1. call' \in [Callers -> Call]
    <3>1. PICK pc \in Places : call' = [call EXCEPT ![k].pc = pc]
      BY <1>13 DEF InstallRenames, Places, To
    <3> QED BY <3>1, <1>0, Moving
  <2>2. TypeOK'
    BY <1>13, <1>0, <2>1 DEF InstallRenames, TypeOK, manager
  <2> QED BY <2>2, <1>13, OtherSteps DEF InstallRenames, manager
<1>14. ASSUME NEW k \in Callers, StopLooks(k) PROVE IInv'
  <2>1. call' \in [Callers -> Call]
    BY <1>14, <1>0, Moving DEF StopLooks, Places, TypeOK
  <2>2. TypeOK'
    BY <1>14, <1>0, <2>1 DEF StopLooks, TypeOK, manager
  <2> QED BY <2>2, <1>14, OtherSteps DEF StopLooks, manager
<1>15. ASSUME NEW k \in Callers, StopEnds(k) PROVE IInv'
  <2>1. call' \in [Callers -> Call]
    BY <1>15, <1>0, Moving, AfterStopPlace DEF StopEnds, Places, To
  <2>2. TypeOK'
    BY <1>15, <1>0, <2>1 DEF StopEnds, TypeOK, manager
  <2> QED BY <2>2, <1>15, OtherSteps DEF StopEnds, manager
<1> QED
  BY <1>1, <1>2, <1>3, <1>4, <1>5, <1>6, <1>7, <1>8, <1>9, <1>10, <1>11, <1>12, <1>13, <1>14, <1>15
  DEF Next, WatchStep, CallStep

-----------------------------------------------------------------------------
(* Every reachable state satisfies the inductive invariant.                *)
THEOREM SidecarInvariant == Spec => []IInv
<1>1. Init => IInv
  BY InitInv
<1>2. IInv /\ [Next]_vars => IInv'
  BY StepInv
<1> QED BY <1>1, <1>2, PTL DEF Spec

(* The state of the manager, its watchers and its callers is well typed.   *)
THEOREM SidecarTypes == Spec => []TypeOK
<1>1. IInv => TypeOK
  BY DEF IInv
<1> QED BY <1>1, SidecarInvariant, PTL

(* One sidecar process at most, and the manager knows it.                  *)
THEOREM OneSidecar == Spec => []ProcessIsOwned
<1>1. IInv => ProcessIsOwned
  BY Owned
<1> QED BY <1>1, SidecarInvariant, PTL

(* A stopped process is not restarted by its watcher as if it had crashed. *)
THEOREM NoRestartOfStopped == Spec => []StoppedIsNoCrash
<1>1. IInv => StoppedIsNoCrash
  BY DEF IInv
<1> QED BY <1>1, SidecarInvariant, PTL
=============================================================================
