------------------------------ MODULE PartialSums ------------------------------
(* The sum of the first n numbers of a sequence, written as a recursive      *)
(* function so that proofs can unfold it.                                    *)
EXTENDS Integers

SumTo(g, n) ==
  LET sum[i \in 0 .. n] == IF i = 0 THEN 0 ELSE sum[i - 1] + g[i]
  IN sum[n]
===============================================================================
