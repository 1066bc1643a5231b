-------------------------------- MODULE Sums --------------------------------
(***************************************************************************)
(* Sums of the values of a function over a finite set: of natural numbers, *)
(* for what is counted, and of fractions, for scores.                      *)
(***************************************************************************)
EXTENDS Fractions, FiniteSetsExt

Total(f, S) == MapThenSumSet(LAMBDA x : f[x], S)

SumOf(f, S) == MapThenFoldSet(Plus, Whole(0), LAMBDA x : f[x],
                              LAMBDA s : CHOOSE x \in s : TRUE, S)
=============================================================================
