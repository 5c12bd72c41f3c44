---------------------------- MODULE MCStackTraces ----------------------------
(* StackTraces for TLC.  With four 32-bit values and two slots: traces 1 and *)
(* 2 have the same 32-bit hash, trace 3 the same slot, trace 4 the 32-bit    *)
(* hash that marks a free slot, and trace 5 the same slot as trace 4.        *)
EXTENDS StackTraces

MCHash == <<5, 9, 7, 4, 6>>
ThreadSymmetry == Permutations(Threads)
=============================================================================
