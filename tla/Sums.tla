-------------------------------- MODULE Sums --------------------------------
(* Sums along a list, defined by a function, so that the provers can       *)
(* reason about them.                                                      *)
EXTENDS Naturals, Sequences

\* f[1] + ... + f[n].
SumTo(f, n) ==
  LET sum[i \in 0..n] == IF i = 0 THEN 0 ELSE sum[i - 1] + f[i]
  IN  sum[n]

Total(s) == SumTo(s, Len(s))
=============================================================================
