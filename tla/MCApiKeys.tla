------------------------------ MODULE MCApiKeys ------------------------------
(* Instances of ApiKeys for TLC. *)
EXTENDS ApiKeys, TLC

Interchangeable == Permutations(Requests) \cup Permutations(Admins)
=============================================================================
