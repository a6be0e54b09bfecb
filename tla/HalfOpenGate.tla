----------------------------- MODULE HalfOpenGate -----------------------------
(***************************************************************************)
(* What the half-open state of a circuit breaker promises, with no mention *)
(* of clocks, expiries or retries: for each channel a probe is a token     *)
(* that at most one call holds, that is granted only while nobody holds    *)
(* it, and that its holder gives back.  The comment at                     *)
(* handler/circuit_breaker.go:36 states this promise.                      *)
(***************************************************************************)
CONSTANTS Channels, Calls

VARIABLE holders   \* channel |-> the calls that are probing it

Init == holders = [c \in Channels |-> {}]

Grant(c, k) == /\ holders[c] = {}
               /\ holders' = [holders EXCEPT ![c] = {k}]

Return(c, k) == /\ k \in holders[c]
                /\ holders' = [holders EXCEPT ![c] = @ \ {k}]

Next == \E c \in Channels, k \in Calls : Grant(c, k) \/ Return(c, k)

Spec == Init /\ [][Next]_holders
=============================================================================
