---------------------------- MODULE MCPresetLists ----------------------------
(* PresetLists with two names, a factory preset and pages of one and none. *)
EXTENDS PresetLists

CONSTANTS a, b
TwoNames == {a, b}
OneFactory == <<a>>
SomePages == {<<>>, <<b>>}
\* Most for the user's own presets, which alone are deleted.
Listed == [t \in Tabs |-> CASE t = "quick" -> 1 [] t = "user" -> 3 [] OTHER -> 2]
===============================================================================
