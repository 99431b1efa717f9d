------------------------------ MODULE Filtering ------------------------------
(***************************************************************************)
(* SelectSeq with a set for the test, so that facts about it can be proved *)
(* (InductionLemmas): what the code does with a comprehension over a list. *)
(***************************************************************************)
EXTENDS Naturals, Sequences

Filter(s, E) ==
  LET chosen[n \in 0 .. Len(s)] ==
        IF n = 0 THEN <<>>
        ELSE IF s[n] \in E THEN Append(chosen[n - 1], s[n])
        ELSE chosen[n - 1]
  IN  chosen[Len(s)]
=============================================================================
