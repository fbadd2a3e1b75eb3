----------------------------- MODULE MCUpwaker -----------------------------
(* Instances of Upwaker with a few wakes. *)
EXTENDS Upwaker
=============================================================================
