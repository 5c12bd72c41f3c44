------------------------------- MODULE Compression -------------------------------
(***************************************************************************)
(* The algorithms with LZ4 as rmem calls it, run on chunks from a set.  It *)
(* stands apart from module Algorithms because Lz4 is made of recursive    *)
(* operators.                                                              *)
(***************************************************************************)
EXTENDS Algorithms, Lz4

CONSTANTS
  Chunks,     \* the chunks to compress
  Shortfalls, \* by how many bytes less than the block the buffer is tried with
  Buckets     \* sizes of the hash table

CompressionInit ==
  /\ done = FALSE /\ output = << >>
  /\ \/ /\ subject = "compress"
        /\ input \in [src : Chunks, buckets : Buckets]
     \/ /\ subject = "squeeze"
        /\ input \in [src : Chunks, buckets : Buckets, short : Shortfalls]

\* A chunk goes to a buffer that is large enough for any, as in writeToFile; the
\* library is also tried with one that holds the block barely or not quite.
Compress ==
  /\ Run("compress")
  /\ output' = LZ4_compress_default(input.src, LZ4_compressBound(Len(input.src)), input.buckets)

Squeeze ==
  /\ Run("squeeze")
  /\ LET whole == LZ4_compress_default(input.src, LZ4_compressBound(Len(input.src)), input.buckets)
         cap == Highest(0, Len(whole.out) + 8 - input.short)
     IN  output' = [cap |-> cap, block |-> LZ4_compress_default(input.src, cap, input.buckets)]

CompressionNext == Compress \/ Squeeze

CompressionSpec ==
  (Init \/ CompressionInit) /\ [][Next \/ CompressionNext]_algorithmVars
-------------------------------------------------------------------------------
\* What the reader gets out of a block is the chunk that went in, for every chunk
\* and whatever the hash table confuses; rmem_hook.h sizes its buffer so that
\* compression never fails.  A block squeezed into less is whole or not there.
RoundTrip ==
  /\ Done("compress") =>
       output.ok /\ LZ4_decompress_safe(output.out, Len(input.src)).out = input.src
  /\ Done("squeeze") /\ output.block.ok =>
       LZ4_decompress_safe(output.block.out, Len(input.src)).out = input.src

\* LZ4 copies in words: neither the bytes it writes past the end of a copy leave
\* m_bufferCompressed (or a smaller buffer it was given the size of), nor those it
\* reads leave the chunk.
WithinBuffers ==
  /\ Done("compress") =>
       /\ Highest(output.top, Len(output.out)) <= LZ4_compressBound(Len(input.src))
       /\ output.read <= Len(input.src)
  /\ Done("squeeze") =>
       Highest(output.block.top, Len(output.block.out)) <= output.cap
===============================================================================
