------------------------------- MODULE Filter -------------------------------
(* SelectSeq with a set for its test, defined by a function, so that the   *)
(* provers can reason about what it returns.                               *)
EXTENDS Naturals, Sequences

\* The elements of list that are in S, in their order.
Only(list, S) ==
  LET f[i \in 0..Len(list)] ==
        IF i = 0 THEN <<>>
        ELSE IF list[i] \in S THEN Append(f[i - 1], list[i]) ELSE f[i - 1]
  IN  f[Len(list)]
=============================================================================
