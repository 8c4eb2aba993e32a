------------------------------- MODULE Sublist ------------------------------
(***************************************************************************)
(* The items of a sequence at chosen places, in their order: SelectSeq with*)
(* the test given as the set of places that pass it.                       *)
(***************************************************************************)
EXTENDS Integers, Sequences

Keep(s, places) ==
  LET kept[n \in 0..Len(s)] ==
        IF n = 0 THEN <<>>
        ELSE IF n \in places THEN Append(kept[n - 1], s[n])
        ELSE kept[n - 1]
  IN  kept[Len(s)]
=============================================================================
