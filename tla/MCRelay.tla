------------------------------- MODULE MCRelay -------------------------------
(* Instances of Relay for TLC. *)
EXTENDS Relay, TLC

CONSTANTS c1, c2

RequestSymmetry == Permutations(Requests)

(* Candidate lists: c1 comes before c2 by priority, or there is c1 alone.  *)
ByPriority == {<<c1, c2>>}
Single == {<<c1>>}
=============================================================================
