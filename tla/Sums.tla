--------------------------------- MODULE Sums ---------------------------------
(***************************************************************************)
(* The sums of the initial segments of a sequence, as a function: where    *)
(* field after field, or instruction after instruction, comes to lie.      *)
(***************************************************************************)
EXTENDS Integers, Sequences

Sums(s) ==
  LET sum[n \in 0 .. Len(s)] == IF n = 0 THEN 0 ELSE sum[n - 1] + s[n]
  IN  sum
==============================================================================
