---------------------------------- MODULE Lz4 ----------------------------------
(***************************************************************************)
(* The LZ4 block that rmem makes of every chunk (3rd/lz4/lz4.c, compiled   *)
(* into rmem_hook.cpp): LZ4_compress_default on a 64-bit little-endian     *)
(* machine, and LZ4_decompress_safe as the reader runs it.                 *)
(*                                                                         *)
(* Blocks and chunks are sequences of bytes; positions count from 0, as in *)
(* the code.  Besides the block, the compressor yields how far it wrote    *)
(* and read: its copies move whole words and overrun what they copy.       *)
(***************************************************************************)
EXTENDS Integers, Sequences, SequencesExt, FiniteSetsExt

CONSTANT LZ4_DISTANCE_MAX  \* 65535: what the two bytes of an offset hold
ASSUME DistanceAssumption == LZ4_DISTANCE_MAX \in Nat \ {0}

MINMATCH == 4
WILDCOPYLENGTH == 8
LASTLITERALS == 5
MFLIMIT == 12
LZ4_minLength == MFLIMIT + 1
RUN_MASK == 15
ML_MASK == 15
LZ4_skipTrigger == 6
Distances == LZ4_DISTANCE_MAX + 1
LZ4_64Klimit == Distances + MFLIMIT - 1

LZ4_compressBound(n) == n + n \div 255 + 16

Repeat(byte, n) == [i \in 1 .. n |-> byte]
Bytes(src, from, to) == SubSeq(src, from + 1, to)

\* What a length adds behind its token.
LengthBytes(n, mask) ==
  IF n < mask THEN << >> ELSE Append(Repeat(255, (n - mask) \div 255), (n - mask) % 255)
Nibble(n, mask) == IF n < mask THEN n ELSE mask

\* LZ4_wildCopy8 moves eight bytes at least once.
WildCopied(n) == IF n = 0 THEN WILDCOPYLENGTH ELSE ((n + 7) \div 8) * 8
-------------------------------------------------------------------------------
\* The compressor.  c is the call: [src, n, cap, limited, byU16, buckets];
\* s its state: [ip, anchor, match, table, out, token, top, read, ok].

\* Four bytes are hashed for tables of 16-bit indexes, five bytes of the eight
\* that are read otherwise.  Which positions share a bucket does not matter to
\* the rest, so a sum stands for the product.
LZ4_hashPosition(c, p) ==
  (c.src[p + 1] + 3 * c.src[p + 2] + 5 * c.src[p + 3] + 7 * c.src[p + 4]
     + (IF c.byU16 THEN 0 ELSE c.src[p + 5])) % c.buckets
HashReads(c, p) == p + (IF c.byU16 THEN 4 ELSE 8)

\* LZ4_putIndexOnHash: a table of U16 keeps 16 bits.
LZ4_putIndexOnHash(c, table, p) ==
  [table EXCEPT ![LZ4_hashPosition(c, p)] = IF c.byU16 THEN p % Distances ELSE p]

SameFour(c, p, q) == Bytes(c.src, p, p + MINMATCH) = Bytes(c.src, q, q + MINMATCH)

\* With 16-bit indexes the size of the input stands in for the test.
BugOneFurther(c, p, q) == ~c.byU16 /\ q + LZ4_DISTANCE_MAX + 1 < p
TooFar(c, p, q) == ~c.byU16 /\ q + LZ4_DISTANCE_MAX < p

mflimitPlusOne(c) == c.n - MFLIMIT + 1
matchlimit(c) == c.n - LASTLITERALS

\* LZ4_count: how many bytes agree from p and q on, up to the limit.
LZ4_count(c, p, q, limit) ==
  CHOOSE k \in 0 .. limit - p :
    /\ k = limit - p \/ c.src[p + k + 1] # c.src[q + k + 1]
    /\ \A i \in 1 .. k : c.src[p + i] = c.src[q + i]

\* The search from p on: [found, ip, match, table, read].
RECURSIVE FindMatch(_, _, _, _, _)
FindMatch(c, table, p, step, searchMatchNb) ==
  LET candidate == table[LZ4_hashPosition(c, p)]
      kept == LZ4_putIndexOnHash(c, table, p)
      next == p + step
  IN  IF next > mflimitPlusOne(c)
      THEN [found |-> FALSE, ip |-> p, match |-> 0, table |-> table, read |-> HashReads(c, p)]
      ELSE IF ~TooFar(c, p, candidate) /\ SameFour(c, candidate, p)
      THEN [found |-> TRUE, ip |-> p, match |-> candidate, table |-> kept,
            read |-> HashReads(c, next)]
      ELSE FindMatch(c, kept, next, searchMatchNb \div (2 ^ LZ4_skipTrigger), searchMatchNb + 1)

\* Both positions go back while the bytes before them agree.
CatchUp(c, s) ==
  LET room == Min({s.ip - s.anchor, s.match})
      k == CHOOSE k \in 0 .. room :
             /\ k = room \/ c.src[s.ip - k] # c.src[s.match - k]
             /\ \A i \in 0 .. k - 1 : c.src[s.ip - i] = c.src[s.match - i]
  IN  [s EXCEPT !.ip = @ - k, !.match = @ - k]

Highest(a, b) == IF a > b THEN a ELSE b

\* Encode Literals: the token, the rest of the length, the literals.
BugCopyUnseen(c, s, litLength) ==
  c.limited /\ Len(s.out) + 1 + litLength + 2 + 1 + litLength \div 255 > c.cap
LiteralsOverflow(c, s, litLength) ==
  c.limited /\ Len(s.out) + 1 + litLength + (2 + 1 + LASTLITERALS) + litLength \div 255 > c.cap

EncodeLiterals(c, s) ==
  LET litLength == s.ip - s.anchor
      head == Append(s.out, Nibble(litLength, RUN_MASK) * 16) \o LengthBytes(litLength, RUN_MASK)
  IN  IF LiteralsOverflow(c, s, litLength) THEN [s EXCEPT !.ok = FALSE]
      ELSE [s EXCEPT !.token = Len(s.out) + 1,
                     !.out = head \o Bytes(c.src, s.anchor, s.ip),
                     !.top = Highest(@, Len(head) + WildCopied(litLength)),
                     !.read = Highest(@, s.anchor + WildCopied(litLength))]

\* Encode Offset and Encode MatchLength; the match ends at the new anchor.  A
\* long length is laid out four bytes at a time.
EncodeMatch(c, s) ==
  LET offset == s.ip - s.match
      head == s.out \o <<(offset % Distances) % 256, (offset % Distances) \div 256>>
      code == LZ4_count(c, s.ip + MINMATCH, s.match + MINMATCH, matchlimit(c))
      end == s.ip + MINMATCH + code
      written == IF code < ML_MASK THEN 0 ELSE 4 * (1 + (code - ML_MASK) \div (4 * 255))
  IN  IF c.limited /\ Len(head) + 1 + LASTLITERALS + (code + 240) \div 255 > c.cap
      THEN [s EXCEPT !.ok = FALSE]
      ELSE [s EXCEPT !.out = [head EXCEPT ![s.token] = @ + Nibble(code, ML_MASK)]
                               \o LengthBytes(code, ML_MASK),
                     !.top = Highest(@, Len(head) + written),
                     !.ip = end, !.anchor = end]

\* _last_literals.
LastLiterals(c, s) ==
  LET lastRun == c.n - s.anchor
      more == LengthBytes(lastRun, RUN_MASK)
  IN  IF c.limited /\ Len(s.out) + lastRun + 1 + (lastRun + 255 - RUN_MASK) \div 255 > c.cap
      THEN [s EXCEPT !.ok = FALSE]
      ELSE LET out == Append(s.out, Nibble(lastRun, RUN_MASK) * 16) \o more
                        \o Bytes(c.src, s.anchor, c.n)
           IN  [s EXCEPT !.out = out, !.top = Highest(@, Len(out))]

\* The main loop: the search, one sequence, and from its end either the next
\* sequence at once (_next_match) or the search again.
RECURSIVE Search(_, _), NextMatch(_, _)
Search(c, s) ==
  LET f == FindMatch(c, s.table, s.ip, 1, 2 ^ LZ4_skipTrigger)
      t == [s EXCEPT !.table = f.table, !.read = Highest(@, f.read)]
  IN  IF f.found
      THEN NextMatch(c, EncodeLiterals(c, CatchUp(c, [t EXCEPT !.ip = f.ip, !.match = f.match])))
      ELSE LastLiterals(c, t)

NextMatch(c, s) ==
  IF ~s.ok THEN s
  ELSE LET e == EncodeMatch(c, s)
           filled == LZ4_putIndexOnHash(c, e.table, e.ip - 2)
           candidate == filled[LZ4_hashPosition(c, e.ip)]
           t == [e EXCEPT !.table = LZ4_putIndexOnHash(c, filled, e.ip), !.match = candidate,
                          !.read = Highest(@, HashReads(c, e.ip + 1))]
       IN  IF ~e.ok THEN e
           ELSE IF e.ip >= mflimitPlusOne(c) THEN LastLiterals(c, e)
           ELSE IF ~TooFar(c, e.ip, candidate) /\ SameFour(c, candidate, e.ip)
           THEN NextMatch(c, [t EXCEPT !.token = Len(t.out) + 1, !.out = Append(@, 0)])
           ELSE Search(c, [t EXCEPT !.ip = @ + 1])

Start(c) ==
  [ip |-> 1, anchor |-> 0, match |-> 0, out |-> << >>, token |-> 0, top |-> 0, read |-> 0, ok |-> TRUE,
   table |-> [h \in 0 .. c.buckets - 1 |-> 0]]

LZ4_compress_generic(c) ==
  IF c.n = 0
  THEN IF c.limited /\ c.cap <= 0 THEN [Start(c) EXCEPT !.ok = FALSE]
       ELSE [Start(c) EXCEPT !.out = <<0>>, !.top = 1]
  ELSE IF c.n < LZ4_minLength THEN LastLiterals(c, Start(c))
  ELSE Search(c, [Start(c) EXCEPT !.table = LZ4_putIndexOnHash(c, @, 0), !.read = HashReads(c, 1)])

\* LZ4_compress_fast_extState with acceleration 1: room for the worst case means
\* no test at all, and the size of the input picks the kind of table.
LZ4_compress_default(src, cap, buckets) ==
  LZ4_compress_generic(
    [src |-> src, n |-> Len(src), cap |-> cap, buckets |-> buckets,
     limited |-> cap < LZ4_compressBound(Len(src)), byU16 |-> Len(src) < LZ4_64Klimit])
-------------------------------------------------------------------------------
\* The decompressor: d is [in, size] and s [ip, out, ok, done].

\* read_variable_length: the bytes from ip on, [length, ip, ok].
RECURSIVE ReadLength(_, _, _, _)
ReadLength(in, ip, ilimit, length) ==
  IF ip + 1 > ilimit THEN [length |-> 0, ip |-> ip, ok |-> FALSE]
  ELSE IF in[ip + 1] = 255 THEN ReadLength(in, ip + 1, ilimit, length + 255)
  ELSE [length |-> length + in[ip + 1], ip |-> ip + 1, ok |-> TRUE]

FieldLength(in, nibble, mask, ip, ilimit, initialCheck) ==
  IF nibble # mask THEN [length |-> nibble, ip |-> ip, ok |-> TRUE]
  ELSE IF initialCheck /\ ip >= ilimit THEN [length |-> 0, ip |-> ip, ok |-> FALSE]
  ELSE ReadLength(in, ip, ilimit, nibble)

\* length bytes from offset bytes back, which the copy itself may be making.
\* Offset 0 is not refused: the code fills in zeros.
Back(out, offset, length) ==
  [i \in 1 .. length |-> IF offset = 0 THEN 0 ELSE out[Len(out) - offset + 1 + ((i - 1) % offset)]]

Bad(s) == [s EXCEPT !.ok = FALSE, !.done = TRUE]

\* One sequence.  The fast loop and the shortcut of the safe loop take short
\* lengths without the tests of the end of the block.
RECURSIVE Sequences(_, _)
Sequences(d, s) ==
  LET iend == Len(d.in)
      oend == d.size
      op == Len(s.out)
      token == d.in[s.ip + 1]
      lit == FieldLength(d.in, token \div 16, RUN_MASK, s.ip + 1, iend - RUN_MASK, TRUE)
      shortcut == token \div 16 # RUN_MASK /\ s.ip + 1 < iend - 16 /\ op <= oend - 32
      atEnd == op + lit.length > oend - MFLIMIT
                 \/ lit.ip + lit.length > iend - (2 + 1 + LASTLITERALS)
      literals == Bytes(d.in, lit.ip, lit.ip + lit.length)
      at == lit.ip + lit.length
      offset == d.in[at + 1] + 256 * d.in[at + 2]
      ml == FieldLength(d.in, token % 16, ML_MASK, at + 2, iend - LASTLITERALS + 1, FALSE)
      length == ml.length + MINMATCH
      untested == shortcut /\ token % 16 # ML_MASK /\ offset >= 8
  IN  IF ~lit.ok THEN Bad(s)
      ELSE IF atEnd /\ ~shortcut
      THEN IF at # iend \/ op + lit.length > oend THEN Bad(s)
           ELSE [s EXCEPT !.out = @ \o literals, !.done = TRUE]
      ELSE IF ~ml.ok \/ offset > op + lit.length
              \/ (~untested /\ op + lit.length + length > oend - LASTLITERALS)
      THEN Bad(s)
      ELSE Sequences(d, [s EXCEPT !.ip = ml.ip,
                                  !.out = (@ \o literals) \o Back(@ \o literals, offset, length)])

\* [out, ok]
LZ4_decompress_safe(in, size) ==
  LET s == [ip |-> 0, out |-> << >>, ok |-> TRUE, done |-> FALSE] IN
  IF size = 0 THEN [s EXCEPT !.ok = (in = <<0>>)]
  ELSE IF in = << >> THEN Bad(s)
  ELSE Sequences([in |-> in, size |-> size], s)
===============================================================================
