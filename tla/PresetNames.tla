----------------------------- MODULE PresetNames -----------------------------
(***************************************************************************)
(* The names presets are known by: a preset is stored in a file of its     *)
(* name (src/presets.cc), shown by it and exchanged under it.              *)
(***************************************************************************)
CONSTANTS Names  \* names of presets
=============================================================================
