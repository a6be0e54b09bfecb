----------------------------- MODULE MCIntercept -----------------------------
(* An instance of Intercept for TLC; the .cfg file gives the constants. *)
EXTENDS Intercept
=============================================================================
