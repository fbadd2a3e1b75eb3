------------------------------- MODULE MCSync -------------------------------
(* Instances of Sync with a few clients and names. *)
EXTENDS Sync, TLC

Symmetry == Permutations(Clients) \cup Permutations(Names)
=============================================================================
