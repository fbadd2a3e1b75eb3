------------------------------- MODULE MCRack -------------------------------
(* Small instances of Rack. *)
EXTENDS Rack
=============================================================================
