----------------------------- MODULE MCRecorder -----------------------------
(* An instance of Recorder with time for two recordings. *)
EXTENDS Recorder
=============================================================================
