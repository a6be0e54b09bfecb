------------------------------ MODULE MCSidecar ------------------------------
(* Instances of Sidecar for TLC; the .cfg files give the constants. *)
EXTENDS Sidecar
=============================================================================
