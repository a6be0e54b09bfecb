--------------------------- MODULE MCCircuitBreaker ---------------------------
(* Instances of CircuitBreaker for TLC; the .cfg files give the constants. *)
EXTENDS CircuitBreaker, TLC

CallSymmetry == Permutations(Calls)
=============================================================================
