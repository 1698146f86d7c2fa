------------------------------- MODULE Selection -------------------------------
(***************************************************************************)
(* The elements of a sequence that are in a set, in their order: SelectSeq *)
(* with a set in place of the test, which the theorems can reason about.   *)
(***************************************************************************)
EXTENDS Naturals, Sequences

(* selected[i]: those among the first i elements.                           *)
Selected(s, T) ==
  LET selected[i \in 0..Len(s)] ==
        IF i = 0 THEN <<>>
        ELSE IF s[i] \in T THEN Append(selected[i - 1], s[i]) ELSE selected[i - 1]
  IN selected[Len(s)]
================================================================================
