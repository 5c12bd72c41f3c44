----------------------------- MODULE MCHeapHooks -----------------------------
(* HeapHooks for TLC: threads are interchangeable, and so are addresses. *)
EXTENDS HeapHooks, TLC

HeapSymmetry == Permutations(Threads) \cup Permutations(Blocks)
=============================================================================
