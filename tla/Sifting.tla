------------------------------- MODULE Sifting -------------------------------
(***************************************************************************)
(* SelectSeq with a set in the place of the test: an operator parameter is *)
(* out of the provers' reach, a set is not.                                *)
(***************************************************************************)
EXTENDS Integers, Sequences

\* The elements of s that belong to S, in order.
Sift(s, S) ==
  LET sifted[n \in 0 .. Len(s)] ==
        IF n = 0 THEN << >>
        ELSE IF s[n] \in S THEN Append(sifted[n - 1], s[n]) ELSE sifted[n - 1]
  IN  sifted[Len(s)]
==============================================================================
