-------------------------------- MODULE Sums --------------------------------
(***************************************************************************)
(* Sums of a function's values, of the first n and over a finite set, as   *)
(* the loops of the rules, of the counters and of the merges add them up:  *)
(* one after the other.  They are recursive functions, so that what they   *)
(* compute can be proved.                                                  *)
(***************************************************************************)
EXTENDS Naturals

Sum(value, n) ==
  LET sum[i \in 0..n] == IF i = 0 THEN 0 ELSE sum[i - 1] + value[i] IN sum[n]

SumOver(value, set) ==
  LET sum[S \in SUBSET set] ==
        IF S = {} THEN 0
        ELSE LET x == CHOOSE x \in S : TRUE IN value[x] + sum[S \ {x}]
  IN  sum[set]
=============================================================================
