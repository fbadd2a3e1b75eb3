--------------------------- MODULE MCPluginChain ---------------------------
(* An instance of PluginChain; plugins are interchangeable. *)
EXTENDS PluginChain, TLC

Symmetry == Permutations(Plugins)
=============================================================================
