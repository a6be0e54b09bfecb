---------------------------- MODULE MCUsageBuffer ----------------------------
(* An instance of UsageBuffer for TLC: one record without an API key. *)
EXTENDS UsageBuffer, TLC

CONSTANTS r1, r2, r3, k1

MCKeyOf == (r1 :> k1) @@ (r2 :> NoKey) @@ (r3 :> k1)
=============================================================================
