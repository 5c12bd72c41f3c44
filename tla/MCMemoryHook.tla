---------------------------- MODULE MCMemoryHook ----------------------------
(* MemoryHook for TLC: the threads other than Main are interchangeable. *)
EXTENDS HookProperties

ThreadSymmetry == Permutations(Threads \ {Main})
=============================================================================
