---------------------------- MODULE MCAlgorithms ----------------------------
(* The algorithms for TLC: every short list of modules, stack and function;    *)
(* chunks that are fresh bytes, a repetition of what stood some distance       *)
(* before, and fresh bytes again, around every length at which the format or   *)
(* the copies change, and all words of four pieces.                            *)
EXTENDS Compression

Fresh(n, base) == [i \in 1 .. n |-> base + i]
Repeated(src, n, distance) ==
  src \o [i \in 1 .. n |-> src[Len(src) - distance + 1 + ((i - 1) % distance)]]
Shaped(as, bs, ds, es) ==
  {Repeated(Fresh(x[1], 0), x[2], x[3]) \o Fresh(x[4], 3000) :
     x \in {x \in as \X bs \X ds \X es : x[3] <= x[1]}}

Pieces == {<<1>>, <<1, 1, 1>>, <<2>>, <<1, 2, 1, 2, 1>>, <<1, 2, 3, 4>>}
Tails == {<<1, 1, 1, 1, 1, 1, 1, 1, 1, 1, 1, 1>>, <<1, 2, 3, 4, 1, 2, 3, 4, 1, 2, 3, 4, 5>>}
Words4 == {w[1] \o w[2] \o w[3] \o w[4] \o w[5] : w \in Pieces \X Pieces \X Pieces \X Pieces \X Tails}

MCChunks ==
  {<< >>, <<7>>} \cup Words4
    \cup Shaped({1, 2, 5, 14, 15, 16, 17, 24, 25}, {4, 5, 18, 19, 20}, {1, 4}, {0, 4, 5, 6, 11, 12, 13})
    \cup Shaped({60, 61, 62, 70}, {4, 8}, {59, 60, 61}, {3, 5, 12})
    \cup Shaped({270, 273}, {273, 274, 1039, 1040}, {60}, {5}) \cup Shaped({2}, {8}, {1}, {269, 270})

MCModuleLists == {<< >>} \cup [1 .. 1 -> {0, 4, 9}] \cup [1 .. 3 -> {0, 4, 9}]

MCStacks == UNION {[1 .. n -> {0, 10, 11}] : n \in 0 .. 5}

Inst(len, kind, dest) == [len |-> len, kind |-> kind, dest |-> dest]
Insts ==
  {Inst(1, "plain", 0), Inst(3, "plain", 0), Inst(7, "rip", 0), Inst(6, "ripjmp", 0),
   Inst(5, "call", 90), Inst(2, "jmp", 3), Inst(5, "jmp", 90), Inst(2, "jcc", 4), Inst(2, "jcc", 90),
   Inst(6, "jcc", 90), Inst(2, "loop", 3), Inst(2, "loop", 90), Inst(1, "ret", 0)}
MCFunctions ==
  [insts : UNION {[1 .. n -> Insts] : n \in 1 .. 3} \cup [1 .. 5 -> {i \in Insts : i.len <= 2 /\ i.dest < 90}],
   pad : {0, 1, 4}, above : BOOLEAN]
===============================================================================
