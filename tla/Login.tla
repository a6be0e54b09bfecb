-------------------------------- MODULE Login --------------------------------
(***************************************************************************)
(* The OAuth login of the sidecar (internal/cpa/manager.go): StartLogin    *)
(* starts a process whose output a goroutine collects in one buffer, and   *)
(* forgets the process when it has ended; StopLogin kills the process that *)
(* it found under the mutex, after it has released it; AuthStatus shows    *)
(* the buffer as the output of the current provider.                       *)
(***************************************************************************)
EXTENDS Naturals, FiniteSets

CONSTANTS Stoppers,    \* calls of StopLogin that may run at a time
          MaxLogins    \* bound: logins started

Logins == 1 .. MaxLogins
None   == 0

VARIABLES authCmd,   \* the login that is running for the manager, or None
          shown,     \* the login whose provider AuthStatus names
          output,    \* logins whose output is in the buffer
          process,   \* login -> "unborn", "alive", "dead", "waited"
          reading,   \* logins whose goroutine still reads the pipe
          target     \* what a StopLogin has found and not yet killed

vars == <<authCmd, shown, output, process, reading, target>>

-----------------------------------------------------------------------------
\* Under the mutex: refused while a login is running, or when the process
\* cannot be started.
StartLogin == \E l \in Logins :
    /\ authCmd = None /\ process[l] = "unborn" /\ \A m \in Logins : m < l => process[m] # "unborn"
    /\ authCmd' = l /\ shown' = l /\ output' = {}
    /\ process' = [process EXCEPT ![l] = "alive"] /\ reading' = reading \cup {l}
    /\ UNCHANGED target

\* The goroutine appends what it has read.  A helper that the process has
\* started may still write when the process itself is dead.
Collect == \E l \in reading :
    /\ output' = output \cup {l}
    /\ UNCHANGED <<authCmd, shown, process, reading, target>>

ProcessEnds == \E l \in Logins :
    /\ process[l] = "alive" /\ process' = [process EXCEPT ![l] = "dead"]
    /\ UNCHANGED <<authCmd, shown, output, reading, target>>

\* End of the pipe, and Wait.
PipeEnds == \E l \in reading :
    /\ process[l] = "dead"
    /\ reading' = reading \ {l} /\ process' = [process EXCEPT ![l] = "waited"]
    /\ UNCHANGED <<authCmd, shown, output, target>>

\* The goroutine forgets its process under the mutex.
Forget == \E l \in Logins :
    /\ process[l] = "waited" /\ authCmd = l /\ authCmd' = None
    /\ UNCHANGED <<shown, output, process, reading, target>>

\* Mutant: a login that is being stopped no longer counts.
BeginStop_Forgets(s) ==
    /\ target[s] = None /\ authCmd # None
    /\ target' = [target EXCEPT ![s] = authCmd] /\ authCmd' = None
    /\ UNCHANGED <<shown, output, process, reading>>

\* StopLogin finds the process, and kills it without the mutex; a process that
\* has been waited for is not killed again.
BeginStop(s) ==
    /\ target[s] = None /\ authCmd # None
    /\ target' = [target EXCEPT ![s] = authCmd]
    /\ UNCHANGED <<authCmd, shown, output, process, reading>>

Kill(s) ==
    /\ target[s] # None
    /\ process' = IF process[target[s]] = "alive"
                  THEN [process EXCEPT ![target[s]] = "dead"] ELSE process
    /\ target' = [target EXCEPT ![s] = None]
    /\ UNCHANGED <<authCmd, shown, output, reading>>

Init ==
    /\ authCmd = None /\ shown = None /\ output = {} /\ reading = {}
    /\ process = [l \in Logins |-> "unborn"] /\ target = [s \in Stoppers |-> None]
Next == \/ StartLogin \/ Collect \/ ProcessEnds \/ PipeEnds \/ Forget
        \/ \E s \in Stoppers : BeginStop(s) \/ Kill(s)
Spec == Init /\ [][Next]_vars

-----------------------------------------------------------------------------
TypeOK ==
    /\ authCmd \in Logins \cup {None} /\ shown \in Logins \cup {None}
    /\ output \subseteq Logins /\ reading \subseteq Logins
    /\ process \in [Logins -> {"unborn", "alive", "dead", "waited"}]
    /\ target \in [Stoppers -> Logins \cup {None}]

\* However a login ends while it is stopped and the next one begins, there is
\* one login process at most, and what AuthStatus shows as the output of a
\* provider was written by its login.
OutputIsOwn ==
    /\ output \subseteq {shown}
    /\ Cardinality({l \in Logins : process[l] = "alive"}) <= 1
=============================================================================
