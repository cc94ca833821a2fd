-------------------------------- MODULE Sums --------------------------------
(***************************************************************************)
(* Sums of sequences of numbers, as a recursive function so that they can  *)
(* be reasoned about.                                                      *)
(***************************************************************************)
EXTENDS Integers

(* The sum of the first n of e.                                            *)
SumTo(e, n) ==
    LET sum[i \in 0..n] == IF i = 0 THEN 0 ELSE sum[i - 1] + e[i] IN sum[n]
=============================================================================
