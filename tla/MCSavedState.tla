----------------------------- MODULE MCSavedState -----------------------------
(* SavedState with presets that are alike. *)
EXTENDS SavedState, TLC

CONSTANTS p, q
TwoNames == {p, q}
Alike == Permutations(TwoNames)

\* What a state may still depend on: the file a thread had open and what it still had
\* to read count only while it has it open and reads.
Matters ==
  <<disk, kept, gtk, server, session, history,
    IF gtk \in {"write", "readback"} THEN <<gtkFile>> ELSE <<>>,
    IF gtk = "write" THEN <<after>> ELSE <<>>,
    IF gtk = "read" THEN gtkReads ELSE {},
    IF server = "write" THEN <<srvFile, orphan>> ELSE <<>>,
    IF server = "read" THEN srvReads ELSE {}>>
===============================================================================
