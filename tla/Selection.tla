------------------------------ MODULE Selection ------------------------------
(***************************************************************************)
(* The elements of a sequence at chosen places, in their order.  As the    *)
(* places are a set and not a test, there are lemmas about them.           *)
(***************************************************************************)
EXTENDS Integers, Sequences

Selected(s, places) ==
  LET chosen[k \in 0..Len(s)] ==
        IF k = 0 THEN <<>>
        ELSE IF k \in places THEN Append(chosen[k - 1], s[k]) ELSE chosen[k - 1]
  IN  chosen[Len(s)]
=============================================================================
