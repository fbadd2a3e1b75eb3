------------------------------ MODULE Selection ------------------------------
(***************************************************************************)
(* What a loop over a vector leaves that takes only the elements with some *)
(* property.  It is SelectSeq written as a recursive function, one step of *)
(* the loop after the other, so that facts about it can be proved.         *)
(***************************************************************************)
EXTENDS Integers, Sequences

\* The elements of s that are in S, in the order of s.
Kept(s, S) ==
  LET kept[n \in 0..Len(s)] ==
        IF n = 0 THEN <<>>
        ELSE IF s[n] \in S THEN Append(kept[n - 1], s[n]) ELSE kept[n - 1]
  IN kept[Len(s)]
=============================================================================
