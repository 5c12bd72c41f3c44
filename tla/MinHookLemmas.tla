----------------------------- MODULE MinHookLemmas -----------------------------
(***************************************************************************)
(* Lemmas about the two pure parts of MinHook: the blocks of trampolines   *)
(* (3rd/minhook/src/buffer.c), for any sizes and any map of the address    *)
(* space -- what AllocateBuffer and FreeBuffer do to the set of slots in   *)
(* use -- and the trampoline of a function (trampoline.c), for any code:   *)
(* what the lists of old and new addresses hold, and that every thread in  *)
(* the bytes to be overwritten is in them.                                 *)
(***************************************************************************)
EXTENDS HookBuffer, Trampoline, SequenceLemmas

-------------------------------------------------------------------------------
(* Arithmetic on granules. *)

\* A product grows with its second factor.
LEMMA Monotonic ==
  ASSUME NEW c \in Nat, NEW a \in Int, NEW b \in Int, a + 1 <= b
  PROVE  c * a + c <= c * b
<1>1. PICK d \in Nat : b = a + 1 + d
  <2>1. b - a - 1 \in Nat /\ b = a + 1 + (b - a - 1)
    OBVIOUS
  <2> QED BY <2>1
<1>2. c * b = c * a + c + c * d /\ c * d >= 0 /\ c * d \in Int /\ c * a \in Int
  BY <1>1
<1> QED
  BY <1>2

\* A multiple of the granularity is a multiple of the size of a block.
LEMMA GranuleDivides ==
  ASSUME NEW g \in Granules
  PROVE  /\ g \in Nat \ {0}
         /\ \E m \in Nat : g = Granularity * m
         /\ \E k \in Nat : g = BlockSlots * k
<1> USE BlockAssumption, GranularityAssumption, AppAssumption
<1>1. g \in Nat \ {0} /\ g % Granularity = 0
  BY DEF Granules
<1>2. PICK m \in Nat : g = Granularity * m
  <2>1. g = Granularity * (g \div Granularity) /\ g \div Granularity \in Nat
    BY <1>1
  <2> QED
    BY <2>1
<1>3. PICK n \in Nat : Granularity = BlockSlots * n
  <2>1. Granularity = BlockSlots * (Granularity \div BlockSlots)
         /\ Granularity \div BlockSlots \in Nat
    OBVIOUS
  <2> QED
    BY <2>1
<1>4. g = BlockSlots * (n * m) /\ n * m \in Nat
  BY <1>2, <1>3
<1> QED
  BY <1>1, <1>2, <1>4

\* Blocks at two granules share no slot.
LEMMA GranulesApart ==
  ASSUME NEW g \in Granules, NEW h \in Granules, g < h
  PROVE  g + BlockSlots <= h
<1> USE BlockAssumption, GranularityAssumption
<1>1. PICK m \in Nat : g = Granularity * m
  BY GranuleDivides
<1>2. PICK n \in Nat : h = Granularity * n
  BY GranuleDivides
<1>3. m + 1 <= n
  <2>1. CASE n + 1 <= m
    BY <2>1, <1>1, <1>2, Monotonic
  <2> QED
    BY <2>1, <1>1, <1>2
<1>4. Granularity * m + Granularity <= Granularity * n
  BY <1>3, Monotonic
<1> QED
  BY <1>1, <1>2, <1>4, GranuleDivides

\* FreeBuffer finds the base of the block from the address of a slot.
LEMMA BaseOfSlot ==
  ASSUME NEW g \in Granules, NEW s \in g + 1 .. g + BlockSlots - 1
  PROVE  (s \div BlockSlots) * BlockSlots = g
<1> USE BlockAssumption
<1>1. PICK k \in Nat : g = BlockSlots * k
  BY GranuleDivides
<1>2. s \in Nat /\ BlockSlots * k < s /\ s < BlockSlots * k + BlockSlots
  BY <1>1, GranuleDivides
<1> DEFINE q == s \div BlockSlots
<1>3. q \in Nat /\ BlockSlots * q <= s /\ s < BlockSlots * q + BlockSlots
  BY <1>2
<1> HIDE DEF q
<1>4. ~ (q + 1 <= k)
  BY <1>2, <1>3, Monotonic
<1>5. ~ (k + 1 <= q)
  BY <1>2, <1>3, Monotonic
<1>6. q = k
  BY <1>3, <1>4, <1>5
<1> QED
  BY <1>1, <1>6 DEF q
-------------------------------------------------------------------------------
\* One block.

Blocks == [base : Nat, free : Seq(Nat), used : Nat]
SlotsOf(b) == b.base + 1 .. b.base + BlockSlots - 1
UsedOf(b) == SlotsOf(b) \ ToSet(b.free)

\* A block is sound, perhaps with no slot in use.
BlockOK(b) ==
  /\ b \in Blocks
  /\ b.base \in Granules
  /\ b.used + Len(b.free) = BlockSlots - 1
  /\ IsInjective(b.free)
  /\ ToSet(b.free) \subseteq SlotsOf(b)

Sound(blocks) == blocks \in Seq(Blocks) /\ BufferOK(blocks)

\* The number of slots of a block.
LEMMA SlotsOfBlock ==
  ASSUME NEW b, b.base \in Nat
  PROVE  IsFiniteSet(SlotsOf(b)) /\ Cardinality(SlotsOf(b)) = BlockSlots - 1
<1> DEFINE lo == b.base + 1
           hi == b.base + BlockSlots - 1
<1>1. lo \in Int /\ hi \in Int /\ ~ (lo > hi) /\ hi - lo + 1 = BlockSlots - 1
  BY BlockAssumption
<1>2. SlotsOf(b) = lo .. hi
  BY DEF SlotsOf
<1> HIDE DEF lo, hi
<1> QED
  BY <1>1, <1>2, FS_Interval

\* A block whose slots are all on its free list has none in use.
LEMMA NothingUsed ==
  ASSUME NEW b, BlockOK(b), b.used = 0
  PROVE  UsedOf(b) = {}
<1> DEFINE n == Len(b.free)
<1>1. /\ b.free \in [1 .. n -> ToSet(b.free)] /\ n \in Nat
      /\ \A i, j \in 1 .. n : b.free[i] = b.free[j] => i = j
      /\ n = BlockSlots - 1
  BY BlockAssumption DEF BlockOK, Blocks, IsInjective, ToSet
<1>2. b.free \in Bijection(1 .. n, ToSet(b.free))
  BY <1>1 DEF Bijection, Injection, Surjection, IsInjective, ToSet, Range
<1>3. Cardinality(ToSet(b.free)) = n /\ IsFiniteSet(ToSet(b.free))
  <2>1. IsFiniteSet(1 .. n) /\ Cardinality(1 .. n) = n
    BY <1>1, FS_Interval
  <2>2. ExistsBijection(1 .. n, ToSet(b.free))
    BY <1>2 DEF ExistsBijection
  <2> QED
    BY <2>1, <2>2, FS_Bijection
<1>4. SlotsOf(b) = ToSet(b.free)
  BY <1>1, <1>3, SlotsOfBlock, FS_Subset DEF BlockOK, Blocks
<1> QED
  BY <1>4 DEF UsedOf

\* A new block has every slot behind the header on its free list.
LEMMA NewBlockOK ==
  ASSUME NEW g \in Granules
  PROVE  /\ BlockOK(NewBlock(g)) /\ NewBlock(g).used = 0 /\ NewBlock(g).base = g
         /\ NewBlock(g).free # << >>
<1> USE BlockAssumption
<1>1. g \in Nat
  BY GranuleDivides
<1> DEFINE free == [i \in 1 .. BlockSlots - 1 |-> g + BlockSlots - i]
<1>2. \A i \in 1 .. BlockSlots - 1 : free[i] \in Nat /\ free[i] \in g + 1 .. g + BlockSlots - 1
  BY <1>1
<1>3. free \in Seq(Nat) /\ Len(free) = BlockSlots - 1 /\ DOMAIN free = 1 .. BlockSlots - 1
  <2>1. BlockSlots - 1 \in Nat
    OBVIOUS
  <2>2. free \in [1 .. BlockSlots - 1 -> Nat]
    BY <1>2
  <2> QED
    BY <2>1, <2>2, IsASeq
<1>4. IsInjective(free)
  BY <1>1, <1>3 DEF IsInjective
<1>5. ToSet(free) \subseteq g + 1 .. g + BlockSlots - 1
  BY <1>2, <1>3 DEF ToSet
<1>6. NewBlock(g) = [base |-> g, free |-> free, used |-> 0]
  BY DEF NewBlock
<1> HIDE DEF free
<1> QED
  BY <1>1, <1>3, <1>4, <1>5, <1>6 DEF BlockOK, Blocks, SlotsOf
-------------------------------------------------------------------------------
\* The list of blocks.

\* The slots in use, block by block.
LEMMA SlotsInUseAre ==
  ASSUME NEW blocks
  PROVE  SlotsInUse(blocks) = UNION {UsedOf(blocks[i]) : i \in DOMAIN blocks}
BY DEF SlotsInUse, UsedOf, SlotsOf

\* BufferOK, block by block.
LEMMA SoundBlocks ==
  ASSUME NEW blocks \in Seq(Blocks)
  PROVE  BufferOK(blocks) <=>
           /\ \A i \in DOMAIN blocks : BlockOK(blocks[i]) /\ blocks[i].used > 0
           /\ \A i, j \in DOMAIN blocks : blocks[i].base = blocks[j].base => i = j
<1>1. \A i \in DOMAIN blocks : blocks[i] \in Blocks
  OBVIOUS
<1> QED
  BY <1>1 DEF BufferOK, BlockOK, SlotsOf

\* Slots of different blocks differ.
LEMMA SlotsApart ==
  ASSUME NEW b, NEW c, BlockOK(b), BlockOK(c), b.base # c.base
  PROVE  SlotsOf(b) \cap SlotsOf(c) = {}
<1>1. b.base \in Granules /\ c.base \in Granules /\ b.base \in Nat /\ c.base \in Nat
  BY DEF BlockOK, Blocks
<1>2. b.base < c.base \/ c.base < b.base
  BY <1>1
<1>3. b.base + BlockSlots <= c.base \/ c.base + BlockSlots <= b.base
  BY <1>1, <1>2, GranulesApart
<1> QED
  BY <1>1, <1>3, BlockAssumption DEF SlotsOf
-------------------------------------------------------------------------------
\* Near enough for a relay.
Near(base, origin) ==
  origin - MaxRange <= base /\ base + BlockSlots - 1 <= origin + MaxRange

\* A registered block that GetMemoryBlock takes is near enough.
LEMMA InReachIsNear ==
  ASSUME NEW b \in Blocks, NEW origin \in Nat, InReach(b, origin)
  PROVE  Near(b.base, origin)
BY BlockAssumption, RangeAssumption, AppAssumption
   DEF InReach, Near, LowestFor, HighestFor, Blocks

\* The granule an address lies in, against the other granules.
LEMMA Rounded ==
  ASSUME NEW origin \in Nat, NEW g \in Granules
  PROVE  /\ origin - (origin % Granularity) \in Nat
         /\ g < origin - (origin % Granularity) => g + BlockSlots <= origin
         /\ origin - (origin % Granularity) < g => origin <= g
<1> USE BlockAssumption, GranularityAssumption
<1> DEFINE low == origin - (origin % Granularity)
           k == origin \div Granularity
<1>1. /\ low = Granularity * k /\ k \in Nat /\ low \in Nat
      /\ low <= origin /\ origin < low + Granularity
  OBVIOUS
<1>2. PICK m \in Nat : g = Granularity * m
  BY GranuleDivides
<1>3. g \in Nat
  BY GranuleDivides
<1> HIDE DEF low, k
<1>4. ASSUME g < low PROVE g + BlockSlots <= origin
  <2>1. ~ (k + 1 <= m)
    BY <1>1, <1>2, <1>3, <1>4, Monotonic
  <2>2. m # k
    BY <1>1, <1>2, <1>4
  <2>3. m + 1 <= k
    BY <2>1, <2>2, <1>1
  <2>4. Granularity * m + Granularity <= Granularity * k
    BY <2>3, <1>1, Monotonic
  <2> QED
    BY <2>4, <1>1, <1>2, <1>3
<1>5. ASSUME low < g PROVE origin <= g
  <2>1. ~ (m + 1 <= k)
    BY <1>1, <1>2, <1>3, <1>5, Monotonic
  <2>2. m # k
    BY <1>1, <1>2, <1>5
  <2>3. k + 1 <= m
    BY <2>1, <2>2, <1>1
  <2>4. Granularity * k + Granularity <= Granularity * m
    BY <2>3, <1>1, Monotonic
  <2> QED
    BY <2>4, <1>1, <1>2, <1>3
<1> QED
  BY <1>1, <1>4, <1>5 DEF low

\* What the two searches find is a free granule in reach.
LEMMA RegionsNear ==
  ASSUME NEW blocks, NEW origin \in Nat,
         NEW g \in FindPrevFreeRegions(blocks, origin) \cup FindNextFreeRegions(blocks, origin)
  PROVE  g \in Granules /\ Near(g, origin) /\ IsFree(blocks, g)
<1>1. g \in Granules /\ g \in Nat /\ IsFree(blocks, g)
  BY GranuleDivides DEF FindPrevFreeRegions, FindNextFreeRegions
<1> USE BlockAssumption, RangeAssumption, AppAssumption
<1>2. CASE g \in FindPrevFreeRegions(blocks, origin)
  <2>1. LowestFor(origin) <= g /\ g + BlockSlots <= origin
    BY <1>1, <1>2, Rounded DEF FindPrevFreeRegions
  <2>2. origin - MaxRange <= g
    BY <1>1, <2>1 DEF LowestFor
  <2> QED
    BY <1>1, <2>1, <2>2 DEF Near
<1>3. CASE g \in FindNextFreeRegions(blocks, origin)
  <2>1. g <= HighestFor(origin) /\ origin <= g
    BY <1>1, <1>3, Rounded DEF FindNextFreeRegions
  <2>2. g + BlockSlots - 1 <= origin + MaxRange
    BY <1>1, <2>1 DEF HighestFor
  <2> QED
    BY <1>1, <2>1, <2>2 DEF Near
<1> QED
  BY <1>1, <1>2, <1>3

\* A set of granules has a least and a greatest one.
LEMMA GranuleExtremes ==
  ASSUME NEW S \in SUBSET Granules, S # {}
  PROVE  /\ \E g \in S : \A h \in S : g <= h
         /\ \E g \in S : \A h \in S : h <= g
<1>1. \A g \in S : g \in Nat /\ MaxApp - g \in Nat
  BY AppAssumption DEF Granules
<1>2. \E g \in S : \A h \in S : g <= h
  <2>1. S \in SUBSET Nat
    BY <1>1
  <2> QED
    BY <2>1, LeastNatural
<1> DEFINE Gaps == {MaxApp - g : g \in S}
<1>3. Gaps \in SUBSET Nat /\ Gaps # {}
  BY <1>1
<1>4. PICK d \in Gaps : \A e \in Gaps : d <= e
  <2> HIDE DEF Gaps
  <2> QED BY <1>3, LeastNatural
<1>5. PICK g \in S : d = MaxApp - g
  BY <1>4
<1>6. ASSUME NEW h \in S PROVE h <= g
  <2>1. MaxApp - h \in Gaps
    OBVIOUS
  <2>2. d <= MaxApp - h
    BY <2>1, <1>4
  <2> QED
    BY <2>2, <1>1, <1>5, AppAssumption
<1> QED
  BY <1>2, <1>6

\* So is a new one, and it is laid where no block is.
LEMMA RegionIsFree ==
  ASSUME NEW blocks, NEW origin \in Nat, RegionFor(blocks, origin) # NoAddress
  PROVE  LET g == RegionFor(blocks, origin) IN
           g \in Granules /\ Near(g, origin) /\ IsFree(blocks, g)
<1> DEFINE prev == FindPrevFreeRegions(blocks, origin) \ Refused
           next == FindNextFreeRegions(blocks, origin) \ Refused
<1>1. prev \in SUBSET Granules /\ next \in SUBSET Granules
  BY DEF FindPrevFreeRegions, FindNextFreeRegions
<1>2. RegionFor(blocks, origin) \in prev \cup next
  <2>1. prev # {} => (CHOOSE g \in prev : \A h \in prev : h <= g) \in prev
    <3> HIDE DEF prev
    <3> QED BY <1>1, GranuleExtremes
  <2>2. next # {} => (CHOOSE g \in next : \A h \in next : g <= h) \in next
    <3> HIDE DEF next
    <3> QED BY <1>1, GranuleExtremes
  <2> QED
    BY <2>1, <2>2 DEF RegionFor
<1> QED
  BY <1>2, RegionsNear
-------------------------------------------------------------------------------
\* Allocation.

\* The list GetMemoryBlock returns: sound but for the block that is to give the
\* slot, which may be new and unused; and nothing is given out yet.
LEMMA GetMemoryBlockGives ==
  ASSUME NEW blocks, Sound(blocks), NEW origin \in Nat,
         NEW found, found = GetMemoryBlock(blocks, origin), found.at # 0
  PROVE  /\ found.blocks \in Seq(Blocks) /\ found.at \in DOMAIN found.blocks
         /\ \A i \in DOMAIN found.blocks :
              BlockOK(found.blocks[i]) /\ (i # found.at => found.blocks[i].used > 0)
         /\ \A i, j \in DOMAIN found.blocks :
              found.blocks[i].base = found.blocks[j].base => i = j
         /\ found.blocks[found.at].free # << >>
         /\ Near(found.blocks[found.at].base, origin)
         /\ SlotsInUse(found.blocks) = SlotsInUse(blocks)
<1> DEFINE ready == {i \in DOMAIN blocks : InReach(blocks[i], origin) /\ blocks[i].free # << >>}
           base == RegionFor(blocks, origin)
<1>1. /\ blocks \in Seq(Blocks)
      /\ \A i \in DOMAIN blocks : blocks[i] \in Blocks /\ BlockOK(blocks[i]) /\ blocks[i].used > 0
      /\ \A i, j \in DOMAIN blocks : blocks[i].base = blocks[j].base => i = j
  BY SoundBlocks DEF Sound
<1>2. CASE ready # {}
  <2>1. ready \in SUBSET Nat
    BY <1>1
  <2>2. (CHOOSE i \in ready : \A j \in ready : i <= j) \in ready
    <3> HIDE DEF ready
    <3> QED BY <1>2, <2>1, LeastNatural
  <2>3. found.blocks = blocks /\ found.at \in ready
    BY <1>2, <2>2 DEF GetMemoryBlock
  <2>4. Near(blocks[found.at].base, origin)
    BY <2>3, <1>1, InReachIsNear
  <2> QED
    BY <1>1, <2>3, <2>4
<1>3. CASE ready = {}
  <2>1. /\ base # NoAddress
        /\ found = [blocks |-> <<NewBlock(base)>> \o blocks, at |-> 1]
    <3> HIDE DEF base
    <3> QED BY <1>3 DEF GetMemoryBlock, base
  <2>2. base \in Granules /\ Near(base, origin) /\ IsFree(blocks, base)
    BY <2>1, RegionIsFree
  <2> HIDE DEF base
  <2> DEFINE new == NewBlock(base)
  <2>3. BlockOK(new) /\ new.used = 0 /\ new.base = base /\ new.free # << >>
    BY <2>2, NewBlockOK
  <2> HIDE DEF new
  <2>4. new \in Blocks
    BY <2>3 DEF BlockOK
  <2>5. found.blocks = <<new>> \o blocks /\ found.at = 1
    BY <2>1 DEF new
  <2>6. /\ found.blocks \in Seq(Blocks)
        /\ DOMAIN found.blocks = 1 .. Len(blocks) + 1
        /\ found.blocks[1] = new
        /\ \A i \in DOMAIN blocks : i + 1 \in DOMAIN found.blocks /\ found.blocks[i + 1] = blocks[i]
        /\ \A i \in DOMAIN found.blocks : i # 1 => i - 1 \in DOMAIN blocks /\ found.blocks[i] = blocks[i - 1]
    BY <1>1, <2>4, <2>5, ConcatProperties
  <2>7. \A i \in DOMAIN blocks : blocks[i].base # base
    BY <2>2 DEF IsFree
  <2>8. /\ \A i \in DOMAIN found.blocks :
             BlockOK(found.blocks[i]) /\ (i # found.at => found.blocks[i].used > 0)
        /\ \A i, j \in DOMAIN found.blocks :
             found.blocks[i].base = found.blocks[j].base => i = j
    BY SMTT(30), <1>1, <2>3, <2>5, <2>6, <2>7
  <2>9. SlotsInUse(found.blocks) = SlotsInUse(blocks)
    <3>1. UsedOf(new) = {}
      BY <2>3, NothingUsed
    <3>2. ASSUME NEW s PROVE s \in SlotsInUse(found.blocks) <=> s \in SlotsInUse(blocks)
      <4>1. s \in SlotsInUse(found.blocks) <=>
              \E i \in DOMAIN found.blocks : s \in UsedOf(found.blocks[i])
        BY SlotsInUseAre
      <4>2. s \in SlotsInUse(blocks) <=> \E i \in DOMAIN blocks : s \in UsedOf(blocks[i])
        BY SlotsInUseAre
      <4> QED
        BY <2>6, <3>1, <4>1, <4>2
    <3> QED
      BY <3>2
  <2> QED
    BY SMTT(30), <2>2, <2>3, <2>5, <2>6, <2>8, <2>9
<1> QED
  BY <1>2, <1>3

\* AllocateBuffer: a slot nobody has, near the origin, is now in use, and nothing
\* else has changed; or there is none, and nothing has changed.
LEMMA AllocateBufferGives ==
  ASSUME NEW blocks, Sound(blocks), NEW origin \in Nat,
         NEW buffer, buffer = AllocateBuffer(blocks, origin)
  PROVE  /\ Sound(buffer.blocks) /\ buffer.slot \in Nat
         /\ buffer.slot = NoAddress => buffer.blocks = blocks
         /\ buffer.slot # NoAddress =>
              /\ buffer.slot \notin SlotsInUse(blocks)
              /\ SlotsInUse(buffer.blocks) = SlotsInUse(blocks) \cup {buffer.slot}
              /\ buffer.slot - origin \in -MaxRange .. MaxRange
<1> DEFINE found == GetMemoryBlock(blocks, origin)
<1>1. CASE found.at = 0
  <2>1. buffer = [blocks |-> blocks, slot |-> NoAddress]
    BY <1>1 DEF AllocateBuffer
  <2> QED
    BY <2>1 DEF NoAddress
<1>2. CASE found.at # 0
  <2> DEFINE at == found.at
             bs == found.blocks
             block == bs[at]
             slot == Head(block.free)
             new == [base |-> block.base, free |-> Tail(block.free), used |-> block.used + 1]
  <2>1. /\ bs \in Seq(Blocks) /\ at \in DOMAIN bs
        /\ \A i \in DOMAIN bs : BlockOK(bs[i]) /\ (i # at => bs[i].used > 0)
        /\ \A i, j \in DOMAIN bs : bs[i].base = bs[j].base => i = j
        /\ block.free # << >> /\ Near(block.base, origin)
        /\ SlotsInUse(bs) = SlotsInUse(blocks)
    <3> HIDE DEF found
    <3> QED BY <1>2, GetMemoryBlockGives DEF found
  <2>2. buffer = [blocks |-> [bs EXCEPT ![at] = new], slot |-> slot]
    BY <1>2 DEF AllocateBuffer
  <2> HIDE DEF found
  <2> HIDE DEF at, bs
  <2>3. /\ block \in Blocks /\ BlockOK(block) /\ block.base \in Nat /\ block.used \in Nat
        /\ block.free \in Seq(Nat)
    BY <2>1 DEF BlockOK, Blocks
  <2> HIDE DEF block
  <2>4. /\ slot \in Nat /\ Tail(block.free) \in Seq(Nat)
        /\ Len(Tail(block.free)) = Len(block.free) - 1
        /\ slot = block.free[1] /\ 1 \in DOMAIN block.free
        /\ \A i \in DOMAIN Tail(block.free) :
             i + 1 \in DOMAIN block.free /\ Tail(block.free)[i] = block.free[i + 1]
        /\ \A i \in DOMAIN block.free : i = 1 \/ i - 1 \in DOMAIN Tail(block.free)
    BY SMTT(30), <2>1, <2>3, HeadTailProperties
  <2>5. /\ new \in Blocks /\ new.base = block.base /\ new.free = Tail(block.free)
        /\ new.used = block.used + 1
    BY <2>3, <2>4 DEF Blocks
  <2>6. IsInjective(Tail(block.free)) /\ ToSet(Tail(block.free)) = ToSet(block.free) \ {slot}
        /\ slot \in ToSet(block.free)
    <3>1. \A i, j \in DOMAIN block.free : block.free[i] = block.free[j] => i = j
      BY <2>3 DEF BlockOK, IsInjective
    <3>2. IsInjective(Tail(block.free))
      <4> SUFFICES ASSUME NEW i \in DOMAIN Tail(block.free), NEW j \in DOMAIN Tail(block.free),
                          Tail(block.free)[i] = Tail(block.free)[j]
                   PROVE  i = j
        BY DEF IsInjective
      <4>1. i + 1 = j + 1
        BY <2>4, <3>1
      <4> QED
        BY SMTT(30), <4>1, <2>4
    <3>3. ASSUME NEW i \in DOMAIN Tail(block.free) PROVE Tail(block.free)[i] # slot
      <4>1. i \in Nat /\ i # 0
        BY SMTT(30), <2>4
      <4>2. i + 1 # 1
        BY <4>1
      <4> QED
        BY <2>4, <3>1, <4>2
    <3>4. ASSUME NEW i \in DOMAIN block.free, i # 1
          PROVE  \E j \in DOMAIN Tail(block.free) : Tail(block.free)[j] = block.free[i]
      <4>1. i - 1 \in DOMAIN Tail(block.free) /\ (i - 1) + 1 = i
        BY SMTT(30), <2>3, <2>4, <3>4
      <4> QED
        BY <4>1, <2>4
    <3> QED
      BY <2>4, <3>2, <3>3, <3>4 DEF ToSet
  <2> HIDE DEF slot, new
  <2>7. BlockOK(new) /\ new.used > 0
    <3>1. Len(block.free) \in Nat /\ block.used + Len(block.free) = BlockSlots - 1
      BY <2>3 DEF BlockOK
    <3>2. new.used > 0 /\ new.used + Len(new.free) = BlockSlots - 1
      <4>1. new.used = block.used + 1 /\ block.used \in Nat
        BY <2>3, <2>5
      <4>2. Len(new.free) = Len(block.free) - 1
        BY <2>4, <2>5
      <4> QED
        BY SMTT(60), <3>1, <4>1, <4>2, BlockAssumption
    <3>3. SlotsOf(new) = SlotsOf(block)
      BY <2>5 DEF SlotsOf
    <3>4. new.base \in Granules /\ IsInjective(new.free) /\ ToSet(new.free) \subseteq SlotsOf(new)
      BY <2>3, <2>5, <2>6, <3>3 DEF BlockOK
    <3> QED
      BY <2>5, <3>2, <3>4 DEF BlockOK
  <2>8. slot \in SlotsOf(block)
    BY <2>3, <2>6 DEF BlockOK
  <2>9. UsedOf(new) = UsedOf(block) \cup {slot} /\ slot \notin UsedOf(block)
    BY <2>5, <2>6, <2>8 DEF UsedOf, SlotsOf
  <2> DEFINE after == [bs EXCEPT ![at] = new]
  <2>10. /\ after \in Seq(Blocks) /\ DOMAIN after = DOMAIN bs /\ after[at] = new
         /\ \A i \in DOMAIN bs : i # at => after[i] = bs[i]
    BY <2>1, <2>5, ExceptSeq
  <2> HIDE DEF after
  <2>11. BufferOK(after)
    <3>1. \A i \in DOMAIN after : BlockOK(after[i]) /\ after[i].used > 0
      BY <2>1, <2>7, <2>10
    <3>2. \A i \in DOMAIN bs : after[i].base = bs[i].base
      BY <2>5, <2>10 DEF block
    <3>3. \A i, j \in DOMAIN after : after[i].base = after[j].base => i = j
      BY <2>1, <2>10, <3>2
    <3> QED
      BY <2>10, <3>1, <3>3, SoundBlocks
  <2>12. SlotsInUse(after) = SlotsInUse(bs) \cup {slot}
    <3>1. ASSUME NEW s
          PROVE  s \in SlotsInUse(after) <=> s \in SlotsInUse(bs) \/ s = slot
      <4>1. s \in SlotsInUse(after) <=> \E i \in DOMAIN after : s \in UsedOf(after[i])
        BY SlotsInUseAre
      <4>2. s \in SlotsInUse(bs) <=> \E i \in DOMAIN bs : s \in UsedOf(bs[i])
        BY SlotsInUseAre
      <4> QED
        BY <2>1, <2>9, <2>10, <4>1, <4>2 DEF block
    <3> QED
      BY <3>1
  <2>13. slot \notin SlotsInUse(bs)
    <3>1. ASSUME NEW i \in DOMAIN bs, i # at PROVE slot \notin UsedOf(bs[i])
      <4>1. bs[i].base # block.base
        BY <2>1, <3>1 DEF block
      <4>2. SlotsOf(bs[i]) \cap SlotsOf(block) = {}
        BY <4>1, <2>1, <2>3, SlotsApart
      <4> QED
        BY <4>2, <2>8 DEF UsedOf
    <3> QED
      BY <2>9, <3>1, SlotsInUseAre DEF block
  <2>14. slot # NoAddress /\ slot - origin \in -MaxRange .. MaxRange
    <3>1. Near(block.base, origin)
      BY <2>1
    <3>2. block.base + 1 <= slot /\ slot <= block.base + BlockSlots - 1
      BY <2>3, <2>4, <2>8, BlockAssumption DEF SlotsOf
    <3>3. block.base \in Nat /\ slot \in Nat
      BY <2>3, <2>4
    <3>4. slot # NoAddress
      BY <3>2, <3>3 DEF NoAddress
    <3>5. origin - MaxRange <= slot /\ slot <= origin + MaxRange
      BY <3>1, <3>2, <3>3, BlockAssumption, RangeAssumption DEF Near
    <3> QED
      BY <3>3, <3>4, <3>5, RangeAssumption
  <2>15. buffer.blocks = after /\ buffer.slot = slot
    BY <2>2 DEF after
  <2> QED
    BY <2>1, <2>4, <2>10, <2>11, <2>12, <2>13, <2>14, <2>15 DEF Sound
<1> QED
  BY <1>1, <1>2
-------------------------------------------------------------------------------
\* Release.

\* What RemoveAt leaves: every other element, once.
LEMMA RemoveAtProperties ==
  ASSUME NEW S, NEW s \in Seq(S), NEW k \in DOMAIN s
  PROVE  LET r == RemoveAt(s, k) IN
           /\ r \in Seq(S) /\ DOMAIN r = 1 .. Len(s) - 1
           /\ \A i \in DOMAIN r : r[i] = s[IF i < k THEN i ELSE i + 1]
<1> DEFINE a == SubSeq(s, 1, k - 1)
           b == SubSeq(s, k + 1, Len(s))
           r == RemoveAt(s, k)
<1>1. k \in 1 .. Len(s) /\ Len(s) \in Nat /\ \A i \in 1 .. Len(s) : s[i] \in S
  OBVIOUS
<1>2. a \in Seq(S) /\ Len(a) = k - 1 /\ \A i \in 1 .. k - 1 : a[i] = s[i]
  <2>1. \A i \in 1 .. k - 1 : s[i] \in S
    BY <1>1
  <2> QED
    BY <1>1, <2>1, SubSeqProperties
<1>3. /\ b \in Seq(S) /\ Len(b) = Len(s) - k
      /\ \A i \in 1 .. Len(s) - k : b[i] = s[k + i]
  <2>1. \A i \in k + 1 .. Len(s) : s[i] \in S
    BY <1>1
  <2>2. b \in Seq(S) /\ Len(b) = IF k + 1 <= Len(s) THEN Len(s) - (k + 1) + 1 ELSE 0
    BY <1>1, <2>1, SubSeqProperties
  <2>3. \A i \in 1 .. Len(s) - (k + 1) + 1 : b[i] = s[k + 1 + i - 1]
    BY SMTT(30), <1>1, <2>1, SubSeqProperties
  <2> QED
    BY SMTT(30), <1>1, <2>2, <2>3
<1>4. r = a \o b
  BY DEF RemoveAt
<1> HIDE DEF a, b
<1>5. /\ r \in Seq(S) /\ Len(r) = Len(a) + Len(b)
      /\ \A i \in 1 .. Len(a) + Len(b) : r[i] = IF i <= Len(a) THEN a[i] ELSE b[i - Len(a)]
  BY SMTT(30), <1>2, <1>3, <1>4, ConcatProperties
<1> HIDE DEF r
<1>6. DOMAIN r = 1 .. Len(s) - 1
  BY SMTT(30), <1>1, <1>2, <1>3, <1>5
<1>7. ASSUME NEW i \in DOMAIN r PROVE r[i] = s[IF i < k THEN i ELSE i + 1]
  <2>1. CASE i < k
    BY SMTT(60), <2>1, <1>1, <1>2, <1>3, <1>5, <1>6
  <2>2. CASE ~ (i < k)
    <3>1. i - (k - 1) \in 1 .. Len(s) - k /\ k + (i - (k - 1)) = i + 1
      BY <2>2, <1>1, <1>6
    <3>2. r[i] = b[i - (k - 1)]
      BY SMTT(60), <2>2, <1>1, <1>2, <1>3, <1>5, <1>6
    <3>3. b[i - (k - 1)] = s[k + (i - (k - 1))]
      BY <3>1, <1>3
    <3> QED
      BY <2>2, <3>1, <3>2, <3>3
  <2> QED
    BY <2>1, <2>2
<1> QED
  BY <1>5, <1>6, <1>7 DEF r

\* FreeBuffer gives back the slot and nothing else, and drops a block only with
\* its last slot.
LEMMA FreeBufferGives ==
  ASSUME NEW blocks, Sound(blocks), NEW slot \in SlotsInUse(blocks)
  PROVE  /\ Sound(FreeBuffer(blocks, slot))
         /\ SlotsInUse(FreeBuffer(blocks, slot)) = SlotsInUse(blocks) \ {slot}
<1>1. /\ blocks \in Seq(Blocks)
      /\ \A i \in DOMAIN blocks : blocks[i] \in Blocks /\ BlockOK(blocks[i]) /\ blocks[i].used > 0
      /\ \A i, j \in DOMAIN blocks : blocks[i].base = blocks[j].base => i = j
  BY SoundBlocks DEF Sound
<1>2. PICK k \in DOMAIN blocks : slot \in UsedOf(blocks[k])
  BY SlotsInUseAre
<1> DEFINE block == blocks[k]
           new == [base |-> block.base, free |-> <<slot>> \o block.free, used |-> block.used - 1]
<1>3. /\ BlockOK(block) /\ block.base \in Nat /\ block.base \in Granules /\ block.free \in Seq(Nat)
      /\ block.used \in Nat /\ block.used > 0
      /\ slot \in SlotsOf(block) /\ slot \notin ToSet(block.free) /\ slot \in Nat
  <2>1. /\ BlockOK(block) /\ block.base \in Nat /\ block.base \in Granules
        /\ block.free \in Seq(Nat) /\ block.used \in Nat /\ block.used > 0
    BY <1>1 DEF BlockOK, Blocks
  <2>2. slot \in SlotsOf(block) /\ slot \notin ToSet(block.free)
    BY <1>2 DEF UsedOf
  <2> HIDE DEF block
  <2>3. slot \in Nat
    BY <2>1, <2>2, BlockAssumption DEF SlotsOf
  <2> QED
    BY <2>1, <2>2, <2>3
<1>4. {i \in DOMAIN blocks : blocks[i].base = (slot \div BlockSlots) * BlockSlots} = {k}
  <2>1. (slot \div BlockSlots) * BlockSlots = block.base
    BY <1>3, BaseOfSlot DEF SlotsOf
  <2> QED
    BY <1>1, <2>1
<1>5. FreeBuffer(blocks, slot) =
        IF new.used = 0 THEN RemoveAt(blocks, k) ELSE [blocks EXCEPT ![k] = new]
  <2> DEFINE hit == {i \in DOMAIN blocks : blocks[i].base = (slot \div BlockSlots) * BlockSlots}
  <2>1. hit # {} /\ (CHOOSE i \in hit : \A j \in hit : i <= j) = k
    <3>1. hit = {k} /\ k <= k
      BY SMTT(30), <1>1, <1>4
    <3> HIDE DEF hit
    <3> QED
      BY <3>1
  <2> HIDE DEF new
  <2>2. FreeBuffer(blocks, slot) =
          LET i == CHOOSE i \in hit : \A j \in hit : i <= j
              b == [base |-> blocks[i].base, free |-> <<slot>> \o blocks[i].free,
                    used |-> blocks[i].used - 1]
          IN  IF b.used = 0 THEN RemoveAt(blocks, i) ELSE [blocks EXCEPT ![i] = b]
    BY Zenon, <2>1 DEF FreeBuffer
  <2> HIDE DEF hit
  <2> QED
    BY <2>1, <2>2 DEF new
<1> HIDE DEF block
<1>6. /\ <<slot>> \o block.free \in Seq(Nat)
      /\ DOMAIN (<<slot>> \o block.free) = 1 .. Len(block.free) + 1
      /\ (<<slot>> \o block.free)[1] = slot
      /\ \A i \in 1 .. Len(block.free) + 1 :
           i # 1 => i - 1 \in DOMAIN block.free /\ (<<slot>> \o block.free)[i] = block.free[i - 1]
      /\ \A i \in DOMAIN block.free :
           i + 1 \in 1 .. Len(block.free) + 1 /\ (<<slot>> \o block.free)[i + 1] = block.free[i]
      /\ Len(<<slot>> \o block.free) = Len(block.free) + 1
  <2>1. block.free \in Seq(Nat) /\ slot \in Nat
    BY <1>3
  <2> DEFINE rest == block.free
             all == <<slot>> \o rest
  <2>2. <<slot>> \in Seq(Nat) /\ Len(<<slot>>) = 1 /\ <<slot>>[1] = slot
    BY <2>1
  <2>3. Len(rest) \in Nat /\ DOMAIN rest = 1 .. Len(rest)
    BY <2>1
  <2> HIDE DEF rest
  <2>4. /\ all \in Seq(Nat) /\ Len(all) = Len(<<slot>>) + Len(rest)
        /\ \A i \in 1 .. Len(<<slot>>) + Len(rest) :
             all[i] = IF i <= Len(<<slot>>) THEN <<slot>>[i] ELSE rest[i - Len(<<slot>>)]
    BY <2>1, <2>2, ConcatProperties DEF rest
  <2> HIDE DEF all
  <2>5. Len(all) = Len(rest) + 1 /\ DOMAIN all = 1 .. Len(rest) + 1
    BY <2>2, <2>3, <2>4
  <2>6. all[1] = slot
    BY <2>2, <2>3, <2>4
  <2>7. \A i \in 1 .. Len(rest) + 1 : i # 1 => i - 1 \in DOMAIN rest /\ all[i] = rest[i - 1]
    BY <2>2, <2>3, <2>4
  <2>8. \A i \in DOMAIN rest : i + 1 \in 1 .. Len(rest) + 1 /\ all[i + 1] = rest[i]
    <3>1. ASSUME NEW i \in DOMAIN rest
          PROVE  i + 1 \in 1 .. Len(rest) + 1 /\ i + 1 # 1 /\ (i + 1) - 1 = i
      BY <2>3
    <3> QED
      BY <2>7, <3>1
  <2> QED
    BY <2>4, <2>5, <2>6, <2>7, <2>8 DEF all, rest
<1> DEFINE free == <<slot>> \o block.free
<1>7. new.base = block.base /\ new.free = free /\ new.used = block.used - 1 /\ new \in Blocks
  BY <1>3, <1>6 DEF Blocks
<1> HIDE DEF free, new
<1>8. IsInjective(free) /\ ToSet(free) = ToSet(block.free) \cup {slot}
  <2>1. \A i, j \in DOMAIN block.free : block.free[i] = block.free[j] => i = j
    BY <1>3 DEF BlockOK, IsInjective
  <2>2. \A i \in DOMAIN block.free : block.free[i] # slot
    BY <1>3 DEF ToSet
  <2>3. IsInjective(free)
    <3> SUFFICES ASSUME NEW i \in DOMAIN free, NEW j \in DOMAIN free, free[i] = free[j]
                 PROVE  i = j
      BY DEF IsInjective
    <3>1. CASE i = 1 \/ j = 1
      BY SMTT(30), <3>1, <1>6, <2>2 DEF free
    <3>2. CASE i # 1 /\ j # 1
      <4>1. i - 1 = j - 1
        BY SMTT(30), <3>2, <1>6, <2>1 DEF free
      <4> QED
        BY <4>1, <1>3, <1>6 DEF free
    <3> QED
      BY <3>1, <3>2
  <2>4. ToSet(free) \subseteq ToSet(block.free) \cup {slot}
    BY <1>6 DEF ToSet, free
  <2>5. ToSet(block.free) \cup {slot} \subseteq ToSet(free)
    <3>1. 1 \in DOMAIN free
      BY <1>3, <1>6 DEF free
    <3>2. \A i \in DOMAIN block.free : i + 1 \in DOMAIN free /\ free[i + 1] = block.free[i]
      BY <1>6 DEF free
    <3>3. free[1] = slot
      BY <1>6 DEF free
    <3> QED
      BY <3>1, <3>2, <3>3 DEF ToSet
  <2> QED
    BY <2>3, <2>4, <2>5
<1>9. BlockOK(new)
  <2>1. Len(block.free) \in Nat /\ block.used + Len(block.free) = BlockSlots - 1
    BY <1>3 DEF BlockOK
  <2>2. new.used + Len(new.free) = BlockSlots - 1
    <3>1. Len(new.free) = Len(block.free) + 1
      BY <1>6, <1>7 DEF free
    <3> QED
      BY SMTT(30), <1>3, <1>7, <2>1, <3>1, BlockAssumption
  <2>3. ToSet(new.free) \subseteq SlotsOf(new)
    BY <1>3, <1>7, <1>8 DEF BlockOK, SlotsOf
  <2> QED
    BY <1>3, <1>7, <1>8, <2>2, <2>3 DEF BlockOK
<1>10. UsedOf(new) = UsedOf(block) \ {slot}
  BY <1>7, <1>8 DEF UsedOf, SlotsOf
<1>11. \A i \in DOMAIN blocks : i # k => slot \notin UsedOf(blocks[i])
  <2> SUFFICES ASSUME NEW i \in DOMAIN blocks, i # k PROVE slot \notin UsedOf(blocks[i])
    OBVIOUS
  <2>1. blocks[i].base # block.base
    BY <1>1 DEF block
  <2>2. SlotsOf(blocks[i]) \cap SlotsOf(block) = {}
    BY <2>1, <1>1, <1>3, SlotsApart
  <2> QED
    BY <2>2, <1>3 DEF UsedOf
<1>12. CASE new.used = 0
  <2> DEFINE after == RemoveAt(blocks, k)
             Old(i) == IF i < k THEN i ELSE i + 1
  <2>1. after \in Seq(Blocks) /\ DOMAIN after = 1 .. Len(blocks) - 1
        /\ \A i \in DOMAIN after : after[i] = blocks[Old(i)]
    BY <1>1, RemoveAtProperties
  <2> HIDE DEF after
  <2>2. /\ \A i \in DOMAIN after : Old(i) \in DOMAIN blocks /\ Old(i) # k
        /\ \A i, j \in DOMAIN after : Old(i) = Old(j) => i = j
        /\ \A i \in DOMAIN blocks : i # k => \E j \in DOMAIN after : Old(j) = i
    <3>1. k \in 1 .. Len(blocks) /\ Len(blocks) \in Nat /\ DOMAIN blocks = 1 .. Len(blocks)
      BY <1>1
    <3>2. ASSUME NEW i \in 1 .. Len(blocks), i # k
          PROVE  \E j \in 1 .. Len(blocks) - 1 : Old(j) = i
      <4>1. CASE i < k
        BY <3>1, <4>1
      <4>2. CASE ~ (i < k)
        <5>1. i - 1 \in 1 .. Len(blocks) - 1 /\ Old(i - 1) = i
          BY <3>1, <3>2, <4>2
        <5> QED
          BY <5>1
      <4> QED
        BY <4>1, <4>2
    <3>3. \A i \in 1 .. Len(blocks) - 1 : Old(i) \in 1 .. Len(blocks) /\ Old(i) # k
      BY <3>1
    <3>4. \A i, j \in 1 .. Len(blocks) - 1 : Old(i) = Old(j) => i = j
      BY <3>1
    <3> HIDE DEF Old
    <3> QED
      BY <2>1, <3>1, <3>2, <3>3, <3>4
  <2> HIDE DEF Old
  <2>3. BufferOK(after)
    <3>1. \A i \in DOMAIN after : BlockOK(after[i]) /\ after[i].used > 0
      BY <1>1, <2>1, <2>2
    <3>2. \A i, j \in DOMAIN after : after[i].base = after[j].base => i = j
      BY <1>1, <2>1, <2>2
    <3> QED
      BY <2>1, <3>1, <3>2, SoundBlocks
  <2>4. UsedOf(block) = {slot}
    BY <1>2, <1>9, <1>10, <1>12, NothingUsed DEF block
  <2>5. ASSUME NEW s
        PROVE  s \in SlotsInUse(after) <=> s \in SlotsInUse(blocks) /\ s # slot
    <3>1. s \in SlotsInUse(after) <=> \E i \in DOMAIN after : s \in UsedOf(after[i])
      BY SlotsInUseAre
    <3>2. s \in SlotsInUse(blocks) <=> \E i \in DOMAIN blocks : s \in UsedOf(blocks[i])
      BY SlotsInUseAre
    <3>3. ASSUME NEW i \in DOMAIN after, s \in UsedOf(after[i])
          PROVE  s \in SlotsInUse(blocks) /\ s # slot
      <4>1. Old(i) \in DOMAIN blocks /\ Old(i) # k /\ after[i] = blocks[Old(i)]
        BY <2>1, <2>2
      <4> QED
        BY <4>1, <3>2, <3>3, <1>11
    <3>4. ASSUME NEW i \in DOMAIN blocks, s \in UsedOf(blocks[i]), s # slot
          PROVE  s \in SlotsInUse(after)
      <4>1. i # k
        BY <2>4, <3>4 DEF block
      <4>2. PICK j \in DOMAIN after : Old(j) = i
        BY <2>2, <4>1
      <4> QED
        BY <2>1, <3>1, <3>4, <4>2
    <3> QED
      BY <3>1, <3>2, <3>3, <3>4
  <2> QED
    BY <1>5, <1>12, <2>1, <2>3, <2>5 DEF Sound, after
<1>13. CASE new.used # 0
  <2> DEFINE after == [blocks EXCEPT ![k] = new]
  <2>1. /\ after \in Seq(Blocks) /\ DOMAIN after = DOMAIN blocks /\ after[k] = new
        /\ \A i \in DOMAIN blocks : i # k => after[i] = blocks[i]
    BY <1>1, <1>7, ExceptSeq
  <2> HIDE DEF after
  <2>2. BufferOK(after)
    <3>1. \A i \in DOMAIN after : BlockOK(after[i]) /\ after[i].used > 0
      BY SMTT(60), <1>1, <1>3, <1>7, <1>9, <1>13, <2>1
    <3>2. \A i \in DOMAIN blocks : after[i].base = blocks[i].base
      BY <1>7, <2>1 DEF block
    <3>3. \A i, j \in DOMAIN after : after[i].base = after[j].base => i = j
      BY <1>1, <2>1, <3>2
    <3> QED
      BY <2>1, <3>1, <3>3, SoundBlocks
  <2>3. ASSUME NEW s
        PROVE  s \in SlotsInUse(after) <=> s \in SlotsInUse(blocks) /\ s # slot
    <3>1. s \in SlotsInUse(after) <=> \E i \in DOMAIN after : s \in UsedOf(after[i])
      BY SlotsInUseAre
    <3>2. s \in SlotsInUse(blocks) <=> \E i \in DOMAIN blocks : s \in UsedOf(blocks[i])
      BY SlotsInUseAre
    <3> QED
      BY <1>10, <1>11, <2>1, <3>1, <3>2 DEF block
  <2> QED
    BY <1>5, <1>13, <2>1, <2>2, <2>3 DEF Sound, after
<1> QED
  BY <1>12, <1>13

-------------------------------------------------------------------------------
(* Trampolines. *)

\* One round of the loop.

CopyStates ==
  [oldPos : Nat, newPos : Nat, jmpDest : Nat, finished : BOOLEAN, failed : BOOLEAN,
   oldIPs : Seq(Nat), newIPs : Seq(Nat)]

\* d is c with the copy of one more instruction.
CopiedOne(c, inst, d) ==
  LET size == CopySize(inst, c.oldPos) IN
    /\ ~c.finished /\ ~c.failed /\ inst.kind # "bad"
    /\ ~Altered(c.oldPos, d.jmpDest, size, inst)
    /\ c.newPos + size <= TrampolineMaxSize /\ Len(c.oldIPs) < MaxIPs
    /\ d.oldPos = c.oldPos + inst.len /\ d.newPos = c.newPos + size
    /\ d.jmpDest = (IF c.oldPos < JmpRel /\ Internal(inst) /\ c.jmpDest < inst.dest
                    THEN inst.dest ELSE c.jmpDest)
    /\ d.finished \in BOOLEAN /\ d.failed = FALSE
    /\ d.finished => c.oldPos >= JmpRel \/ inst.kind \in {"ripjmp", "jmp", "ret"}
    /\ c.oldPos >= JmpRel => d.finished
    /\ d.oldIPs = Append(c.oldIPs, c.oldPos) /\ d.newIPs = Append(c.newIPs, c.newPos)
    /\ d = [oldPos |-> d.oldPos, newPos |-> d.newPos, jmpDest |-> d.jmpDest,
            finished |-> d.finished, failed |-> d.failed,
            oldIPs |-> d.oldIPs, newIPs |-> d.newIPs]

\* What one round of the loop of CreateTrampolineFunction may do.
LEMMA OneRound ==
  ASSUME NEW c \in CopyStates, NEW inst \in Instructions
  PROVE  \/ CopyInst(c, inst) = c /\ (c.finished \/ c.failed)
         \/ CopyInst(c, inst) = [c EXCEPT !.failed = TRUE]
         \/ CopiedOne(c, inst, CopyInst(c, inst))
<1> DEFINE d == CopyInst(c, inst)
           complete == c.oldPos >= JmpRel
           jmpDest == IF ~complete /\ Internal(inst) /\ c.jmpDest < inst.dest
                      THEN inst.dest ELSE c.jmpDest
           size == CopySize(inst, c.oldPos)
           failed == \/ inst.kind = "bad"
                     \/ ~complete /\ inst.kind = "loop" /\ External(inst)
                     \/ Altered(c.oldPos, jmpDest, size, inst)
                     \/ c.newPos + size > TrampolineMaxSize
                     \/ Len(c.oldIPs) >= MaxIPs
           finished == \/ complete
                       \/ inst.kind = "ripjmp"
                       \/ inst.kind = "jmp" /\ External(inst) /\ c.oldPos >= jmpDest
                       \/ inst.kind = "ret" /\ c.oldPos >= jmpDest
           next == [oldPos |-> c.oldPos + inst.len, newPos |-> c.newPos + size,
                    jmpDest |-> jmpDest, finished |-> finished, failed |-> FALSE,
                    oldIPs |-> Append(c.oldIPs, c.oldPos), newIPs |-> Append(c.newIPs, c.newPos)]
<1>1. d = IF c.finished \/ c.failed THEN c
          ELSE IF failed THEN [c EXCEPT !.failed = TRUE] ELSE next
  BY DEF CopyInst
<1>2. c.oldPos \in Nat /\ c.newPos \in Nat /\ Len(c.oldIPs) \in Nat
  BY LenProperties DEF CopyStates
<1>3. size \in Nat
  BY <1>2 DEF CopySize, Instructions, JmpAbs, CallAbs, JccAbs
<1>4. complete <=> ~(c.oldPos < JmpRel)
  BY <1>2 DEF JmpRel
<1> HIDE DEF d, size
<1>5. ASSUME d = next, ~(c.finished \/ c.failed), ~failed
      PROVE  CopiedOne(c, inst, d)
  <2>1. c.newPos + size <= TrampolineMaxSize /\ Len(c.oldIPs) < MaxIPs
    BY SMTT(30), <1>2, <1>3, <1>5 DEF TrampolineMaxSize, SlotBytes, JmpAbs, MaxIPs
  <2>2. inst.kind # "bad" /\ ~Altered(c.oldPos, jmpDest, size, inst)
    BY <1>5
  <2>3. finished => c.oldPos >= JmpRel \/ inst.kind \in {"ripjmp", "jmp", "ret"}
    OBVIOUS
  <2>4. c.oldPos >= JmpRel => finished
    OBVIOUS
  <2>5. jmpDest = (IF c.oldPos < JmpRel /\ Internal(inst) /\ c.jmpDest < inst.dest
                   THEN inst.dest ELSE c.jmpDest)
    BY <1>4
  <2>6. finished \in BOOLEAN
    OBVIOUS
  <2> HIDE DEF complete, jmpDest, failed, finished
  <2>7. /\ d.oldPos = c.oldPos + inst.len /\ d.newPos = c.newPos + size /\ d.jmpDest = jmpDest
        /\ d.finished = finished /\ d.failed = FALSE /\ d.oldIPs = Append(c.oldIPs, c.oldPos)
        /\ d.newIPs = Append(c.newIPs, c.newPos)
    BY <1>5
  <2>8. d = [oldPos |-> d.oldPos, newPos |-> d.newPos, jmpDest |-> d.jmpDest,
             finished |-> d.finished, failed |-> d.failed,
             oldIPs |-> d.oldIPs, newIPs |-> d.newIPs]
    BY <1>5
  <2> QED
    BY <1>5, <2>1, <2>2, <2>3, <2>4, <2>5, <2>6, <2>7, <2>8 DEF CopiedOne, size
<1>6. \/ d = c /\ (c.finished \/ c.failed)
      \/ d = [c EXCEPT !.failed = TRUE]
      \/ d = next /\ ~(c.finished \/ c.failed) /\ ~failed
  BY <1>1
<1> HIDE DEF next, failed
<1> QED
  BY <1>5, <1>6 DEF d

\* An instruction and its fields.
LEMMA InstructionAt ==
  ASSUME NEW insts \in Seq(Instructions), NEW i \in 1 .. Len(insts)
  PROVE  /\ insts[i] \in Instructions
         /\ insts[i].len \in Nat /\ insts[i].len > 0 /\ insts[i].dest \in Int
<1>1. insts[i] \in Instructions
  BY ElementOfSeq
<1> QED
  BY <1>1 DEF Instructions

\* Offsets: where the instructions start.
LEMMA OffsetsType ==
  ASSUME NEW insts \in Seq(Instructions)
  PROVE  /\ Len(insts) \in Nat /\ Offsets(insts) \in [0 .. Len(insts) -> Nat]
         /\ Offsets(insts)[0] = 0
         /\ \A n \in 1 .. Len(insts) : Offsets(insts)[n] = Offsets(insts)[n - 1] + insts[n].len
<1> DEFINE s == [i \in DOMAIN insts |-> insts[i].len]
<1>1. Len(insts) \in Nat /\ DOMAIN insts = 1 .. Len(insts)
  BY LenProperties
<1>2. \A i \in 1 .. Len(insts) : insts[i].len \in Nat
  BY <1>1, InstructionAt
<1>3. s \in Seq(Nat) /\ Len(s) = Len(insts)
  BY <1>1, <1>2, IsASeq
<1>4. \A n \in 1 .. Len(insts) : s[n] = insts[n].len
  BY <1>1
<1> HIDE DEF s
<1>5. Sums(s) \in [0 .. Len(insts) -> Nat] /\ Sums(s)[0] = 0
  BY <1>1, <1>3, SumsType, SumsAre
<1>6. \A n \in 1 .. Len(insts) : Sums(s)[n] = Sums(s)[n - 1] + insts[n].len
  BY <1>1, <1>3, <1>4, SumsAre
<1> QED
  BY <1>1, <1>5, <1>6 DEF Offsets, s

\* Every instruction has a byte at least, so the offsets go up.
LEMMA OffsetsRise ==
  ASSUME NEW insts \in Seq(Instructions), NEW i \in 0 .. Len(insts), NEW j \in 0 .. Len(insts),
         i < j
  PROVE  Offsets(insts)[i] < Offsets(insts)[j]
<1> DEFINE s == [m \in DOMAIN insts |-> insts[m].len]
<1>1. Len(insts) \in Nat /\ DOMAIN insts = 1 .. Len(insts)
  BY LenProperties
<1>2. \A m \in 1 .. Len(insts) : insts[m].len \in Nat /\ insts[m].len > 0
  BY <1>1, InstructionAt
<1>3. s \in Seq(Nat) /\ Len(s) = Len(insts) /\ \A m \in 1 .. Len(s) : s[m] > 0
  BY <1>1, <1>2, IsASeq
<1> HIDE DEF s
<1>4. i \in 0 .. Len(s) /\ j \in i .. Len(s)
  BY <1>1, <1>3
<1> QED
  BY <1>3, <1>4, SumsRise DEF Offsets, s

\* What holds of the copy after n instructions have been offered to the loop: it
\* has the first of them up to where it stopped, each at its place, ...
CopyShape(c, n, insts) ==
  /\ c \in CopyStates
  /\ Len(c.newIPs) = Len(c.oldIPs) /\ Len(c.oldIPs) <= n /\ Len(c.oldIPs) <= MaxIPs
  /\ ~c.finished /\ ~c.failed => Len(c.oldIPs) = n
  /\ c.oldPos = Offsets(insts)[Len(c.oldIPs)]
  /\ c.newPos <= TrampolineMaxSize
  /\ Len(c.oldIPs) = 0 => c.newPos = 0 /\ ~c.finished

CopyPlaces(c, insts) ==
  /\ \A i \in 1 .. Len(c.oldIPs) : c.oldIPs[i] = Offsets(insts)[i - 1]
  /\ \A i \in 1 .. Len(c.oldIPs) : c.newIPs[i] < c.newPos
  /\ \A i, j \in 1 .. Len(c.oldIPs) : i < j => c.newIPs[i] < c.newIPs[j]
  /\ Len(c.oldIPs) > 0 => c.newIPs[1] = 0

\* ... and the last one copied leaves the trampoline.
CopyEnds(c, insts) ==
  c.finished =>
    \/ c.oldIPs[Len(c.oldIPs)] >= JmpRel
    \/ insts[Len(c.oldIPs)].kind \in {"ripjmp", "jmp", "ret"}

\* What an internal jump crosses is copied at its own length, up to where it lands.
CopyJumps(c, insts) ==
  \A i \in 1 .. Len(c.oldIPs) :
    c.oldIPs[i] < JmpRel /\ Internal(insts[i]) =>
      /\ insts[i].dest <= c.jmpDest
      /\ \A j \in 1 .. Len(c.oldIPs) :
           i < j /\ c.oldIPs[j] <= insts[i].dest
             => c.newIPs[i] + (c.oldIPs[j] - c.oldIPs[i]) = c.newIPs[j]
      /\ c.oldPos <= insts[i].dest => c.newIPs[i] + (c.oldPos - c.oldIPs[i]) = c.newPos

CopyOK(c, n, insts) ==
  CopyShape(c, n, insts) /\ CopyPlaces(c, insts) /\ CopyEnds(c, insts) /\ CopyJumps(c, insts)

\* It holds at the start, and the loop keeps it.
LEMMA BlankOK ==
  ASSUME NEW insts \in Seq(Instructions)
  PROVE  CopyOK(Blank, 0, insts)
<1>1. Blank \in CopyStates /\ Len(Blank.oldIPs) = 0 /\ Len(Blank.newIPs) = 0
      /\ Blank.oldPos = 0 /\ Blank.newPos = 0 /\ ~Blank.finished
  BY DEF Blank, CopyStates
<1>2. CopyShape(Blank, 0, insts)
  BY <1>1, OffsetsType DEF CopyShape, MaxIPs, TrampolineMaxSize, SlotBytes, JmpAbs
<1>3. CopyPlaces(Blank, insts) /\ CopyJumps(Blank, insts) /\ CopyEnds(Blank, insts)
  BY <1>1 DEF CopyPlaces, CopyJumps, CopyEnds
<1> QED
  BY <1>2, <1>3 DEF CopyOK

\* Giving up changes nothing else.
LEMMA FailedOK ==
  ASSUME NEW insts, NEW n \in Nat, NEW c, CopyOK(c, n, insts)
  PROVE  CopyOK([c EXCEPT !.failed = TRUE], n + 1, insts)
<1> DEFINE d == [c EXCEPT !.failed = TRUE]
<1>0. c \in CopyStates
  BY DEF CopyOK, CopyShape
<1>1. /\ d \in CopyStates /\ d.oldPos = c.oldPos /\ d.newPos = c.newPos /\ d.jmpDest = c.jmpDest
      /\ d.finished = c.finished /\ d.failed = TRUE
      /\ d.oldIPs = c.oldIPs /\ d.newIPs = c.newIPs
  BY <1>0 DEF CopyStates
<1>2. Len(c.oldIPs) \in Nat
  BY <1>0, LenProperties DEF CopyStates
<1> HIDE DEF d
<1>3. CopyShape(d, n + 1, insts)
  BY <1>1, <1>2 DEF CopyOK, CopyShape
<1>4. CopyPlaces(d, insts) /\ CopyEnds(d, insts) /\ CopyJumps(d, insts)
  BY <1>1 DEF CopyOK, CopyPlaces, CopyEnds, CopyJumps
<1> QED
  BY <1>3, <1>4 DEF CopyOK, d

\* So does one more round after the end.
LEMMA StoppedOK ==
  ASSUME NEW insts, NEW n \in Nat, NEW c, CopyOK(c, n, insts), c.finished \/ c.failed
  PROVE  CopyOK(c, n + 1, insts)
<1>1. Len(c.oldIPs) \in Nat
  BY LenProperties DEF CopyOK, CopyShape, CopyStates
<1> QED
  BY <1>1 DEF CopyOK, CopyShape

\* What is added at the end of the two lists.
LEMMA Appended ==
  ASSUME NEW s \in Seq(Nat), NEW x \in Nat
  PROVE  /\ Append(s, x) \in Seq(Nat) /\ Len(s) \in Nat /\ Len(Append(s, x)) = Len(s) + 1
         /\ \A i \in 1 .. Len(s) : Append(s, x)[i] = s[i] /\ s[i] \in Nat
         /\ Append(s, x)[Len(s) + 1] = x
<1>1. Len(s) \in Nat
  BY LenProperties
<1> QED
  BY <1>1, AppendProperties, ElementOfSeq

\* The copy of one more instruction keeps it.
LEMMA CopiedOK ==
  ASSUME NEW insts \in Seq(Instructions), NEW n \in Nat, n + 1 <= Len(insts),
         NEW c, CopyOK(c, n, insts), NEW d, CopiedOne(c, insts[n + 1], d)
  PROVE  CopyOK(d, n + 1, insts)
<1> DEFINE k == Len(c.oldIPs)
           inst == insts[n + 1]
           size == CopySize(inst, c.oldPos)
<1>1. /\ c \in CopyStates /\ c.oldIPs \in Seq(Nat) /\ c.newIPs \in Seq(Nat)
      /\ c.oldPos \in Nat /\ c.newPos \in Nat /\ c.jmpDest \in Nat
  BY DEF CopyOK, CopyShape, CopyStates
<1>2. k = n /\ Len(c.newIPs) = n
  BY DEF CopyOK, CopyShape, CopiedOne
<1>3. /\ n + 1 \in 1 .. Len(insts) /\ inst \in Instructions
      /\ inst.len \in Nat /\ inst.len > 0 /\ inst.dest \in Int
  <2>1. n + 1 \in 1 .. Len(insts)
    BY OffsetsType
  <2> QED
    BY <2>1, InstructionAt
<1>4. size \in Nat /\ size > 0
  BY <1>3 DEF CopySize, JmpAbs, CallAbs, JccAbs
<1>5. /\ d.oldIPs \in Seq(Nat) /\ Len(d.oldIPs) = n + 1 /\ d.oldIPs[n + 1] = c.oldPos
      /\ \A i \in 1 .. n : d.oldIPs[i] = c.oldIPs[i] /\ c.oldIPs[i] \in Nat
  BY <1>1, <1>2, Appended DEF CopiedOne
<1>6. /\ d.newIPs \in Seq(Nat) /\ Len(d.newIPs) = n + 1 /\ d.newIPs[n + 1] = c.newPos
      /\ \A i \in 1 .. n : d.newIPs[i] = c.newIPs[i] /\ c.newIPs[i] \in Nat
  BY <1>1, <1>2, Appended DEF CopiedOne
<1>7. /\ d.oldPos = c.oldPos + inst.len /\ d.newPos = c.newPos + size
      /\ d.finished \in BOOLEAN /\ d.failed = FALSE
  BY DEF CopiedOne
<1>8. /\ d.jmpDest \in Nat /\ c.jmpDest <= d.jmpDest
      /\ c.oldPos < JmpRel /\ Internal(inst) => inst.dest <= d.jmpDest
  <2>1. d.jmpDest = (IF c.oldPos < JmpRel /\ Internal(inst) /\ c.jmpDest < inst.dest
                     THEN inst.dest ELSE c.jmpDest)
    BY DEF CopiedOne
  <2> QED
    BY <1>1, <1>3, <2>1 DEF Internal
<1>9. c.oldPos = Offsets(insts)[n] /\ d.oldPos = Offsets(insts)[n + 1]
  <2>1. c.oldPos = Offsets(insts)[n]
    BY <1>2 DEF CopyOK, CopyShape
  <2>2. Offsets(insts)[n + 1] = Offsets(insts)[(n + 1) - 1] + inst.len /\ (n + 1) - 1 = n
    BY <1>3, OffsetsType
  <2> QED
    BY <1>7, <2>1, <2>2
<1>10. c.oldPos < d.jmpDest => size = inst.len
  BY DEF CopiedOne, Altered
<1>11. d \in CopyStates
  <2>1. d = [oldPos |-> d.oldPos, newPos |-> d.newPos, jmpDest |-> d.jmpDest,
             finished |-> d.finished, failed |-> d.failed,
             oldIPs |-> d.oldIPs, newIPs |-> d.newIPs]
    BY DEF CopiedOne
  <2>2. d.oldPos \in Nat /\ d.newPos \in Nat
    BY SMTT(60), <1>1, <1>3, <1>4, <1>7
  <2> QED
    BY <1>5, <1>6, <1>7, <1>8, <2>1, <2>2 DEF CopyStates
<1>12. CopyShape(d, n + 1, insts)
  <2>1. d.newPos <= TrampolineMaxSize /\ n + 1 <= MaxIPs
    <3>1. n < MaxIPs
      BY <1>2 DEF CopiedOne
    <3>2. d.newPos <= TrampolineMaxSize
      BY <1>7 DEF CopiedOne
    <3> QED
      BY <3>1, <3>2 DEF MaxIPs
  <2> QED
    BY <1>5, <1>6, <1>9, <1>11, <2>1 DEF CopyShape
<1> HIDE DEF size
<1>13. /\ \A i \in 1 .. n : c.oldIPs[i] = Offsets(insts)[i - 1]
       /\ \A i \in 1 .. n : c.newIPs[i] < c.newPos
       /\ \A i, j \in 1 .. n : i < j => c.newIPs[i] < c.newIPs[j]
       /\ n > 0 => c.newIPs[1] = 0
       /\ n = 0 => c.newPos = 0
  BY <1>2 DEF CopyOK, CopyPlaces, CopyShape
<1>14. CopyPlaces(d, insts)
  <2>1. \A i \in 1 .. n + 1 : d.oldIPs[i] = Offsets(insts)[i - 1]
    <3>1. (n + 1) - 1 = n
      OBVIOUS
    <3> SUFFICES ASSUME NEW i \in 1 .. n + 1 PROVE d.oldIPs[i] = Offsets(insts)[i - 1]
      OBVIOUS
    <3>2. CASE i = n + 1
      BY <1>5, <1>9, <3>1, <3>2
    <3>3. CASE i \in 1 .. n
      BY <1>5, <1>13, <3>3
    <3> QED
      BY <3>2, <3>3
  <2>2. \A i \in 1 .. n + 1 : d.newIPs[i] < d.newPos
    <3> SUFFICES ASSUME NEW i \in 1 .. n + 1 PROVE d.newIPs[i] < d.newPos
      OBVIOUS
    <3>1. CASE i = n + 1
      BY <1>1, <1>4, <1>6, <1>7, <3>1
    <3>2. CASE i \in 1 .. n
      <4>1. d.newIPs[i] = c.newIPs[i] /\ c.newIPs[i] \in Nat /\ c.newIPs[i] < c.newPos
        BY <1>6, <1>13, <3>2
      <4> QED
        BY SMTT(30), <1>1, <1>4, <1>7, <4>1
    <3> QED
      BY <3>1, <3>2
  <2>3. \A i, j \in 1 .. n + 1 : i < j => d.newIPs[i] < d.newIPs[j]
    <3> SUFFICES ASSUME NEW i \in 1 .. n + 1, NEW j \in 1 .. n + 1, i < j
                 PROVE  d.newIPs[i] < d.newIPs[j]
      OBVIOUS
    <3>1. i \in 1 .. n
      OBVIOUS
    <3> QED
      <4>1. CASE j = n + 1
        BY <1>6, <1>13, <3>1, <4>1
      <4>2. CASE j \in 1 .. n
        BY <1>6, <1>13, <3>1, <4>2
      <4> QED
        BY <4>1, <4>2
  <2>4. d.newIPs[1] = 0
    BY SMTT(30), <1>6, <1>13
  <2> QED
    BY <1>5, <2>1, <2>2, <2>3, <2>4 DEF CopyPlaces
<1>15. CopyEnds(d, insts)
  BY <1>5 DEF CopyEnds, CopiedOne
<1>16. CopyJumps(d, insts)
  <2> SUFFICES ASSUME NEW i \in 1 .. n + 1, d.oldIPs[i] < JmpRel, Internal(insts[i])
               PROVE  /\ insts[i].dest <= d.jmpDest
                      /\ \A j \in 1 .. n + 1 :
                           i < j /\ d.oldIPs[j] <= insts[i].dest
                             => d.newIPs[i] + (d.oldIPs[j] - d.oldIPs[i]) = d.newIPs[j]
                      /\ d.oldPos <= insts[i].dest
                           => d.newIPs[i] + (d.oldPos - d.oldIPs[i]) = d.newPos
    BY <1>5 DEF CopyJumps
  <2>1. insts[i].dest \in Int
    BY InstructionAt, OffsetsType
  <2>2. CASE i = n + 1
    <3>1. insts[i].dest <= d.jmpDest
      BY <1>5, <1>8, <2>2
    <3>2. ASSUME d.oldPos <= insts[i].dest
          PROVE  d.newIPs[i] + (d.oldPos - d.oldIPs[i]) = d.newPos
      <4>1. d.newIPs[i] = c.newPos /\ d.oldIPs[i] = c.oldPos
        BY <1>5, <1>6, <2>2
      <4>2. c.oldPos < d.jmpDest
        BY SMTT(30), <1>1, <1>3, <1>7, <1>8, <2>1, <3>1, <3>2
      <4>3. size = inst.len
        BY <1>10, <4>2
      <4> HIDE DEF inst
      <4> QED
        BY <1>1, <1>3, <1>4, <1>7, <4>1, <4>3
    <3> QED
      BY <2>2, <3>1, <3>2
  <2>3. CASE i \in 1 .. n
    <3>1. /\ insts[i].dest <= c.jmpDest
          /\ \A j \in 1 .. n : i < j /\ c.oldIPs[j] <= insts[i].dest
                => c.newIPs[i] + (c.oldIPs[j] - c.oldIPs[i]) = c.newIPs[j]
          /\ c.oldPos <= insts[i].dest => c.newIPs[i] + (c.oldPos - c.oldIPs[i]) = c.newPos
      <4>1. c.oldIPs[i] < JmpRel
        BY <1>5, <2>3
      <4> QED
        BY <1>2, <2>3, <4>1 DEF CopyOK, CopyJumps
    <3>2. insts[i].dest <= d.jmpDest
      BY SMTT(30), <1>1, <1>8, <2>1, <3>1
    <3>3. ASSUME NEW j \in 1 .. n + 1, i < j, d.oldIPs[j] <= insts[i].dest
          PROVE  d.newIPs[i] + (d.oldIPs[j] - d.oldIPs[i]) = d.newIPs[j]
      <4>1. CASE j = n + 1
        BY <1>5, <1>6, <2>3, <3>1, <3>3, <4>1
      <4>2. CASE j \in 1 .. n
        BY <1>5, <1>6, <2>3, <3>1, <3>3, <4>2
      <4> QED
        BY <4>1, <4>2
    <3>4. ASSUME d.oldPos <= insts[i].dest
          PROVE  d.newIPs[i] + (d.oldPos - d.oldIPs[i]) = d.newPos
      <4>1. c.oldPos <= insts[i].dest /\ c.oldPos < d.jmpDest
        BY SMTT(30), <1>1, <1>3, <1>7, <1>8, <2>1, <3>2, <3>4
      <4>2. c.newIPs[i] + (c.oldPos - c.oldIPs[i]) = c.newPos /\ size = inst.len
        BY <1>10, <3>1, <4>1
      <4>3. d.newIPs[i] = c.newIPs[i] /\ d.oldIPs[i] = c.oldIPs[i] /\ c.newIPs[i] \in Nat /\ c.oldIPs[i] \in Nat
        BY <1>5, <1>6, <2>3
      <4> HIDE DEF inst
      <4>4. d.oldPos = c.oldPos + inst.len /\ d.newPos = c.newPos + inst.len
        BY <1>7, <4>2
      <4> DEFINE x == c.newIPs[i]
                 y == c.oldIPs[i]
      <4>5. x \in Nat /\ y \in Nat /\ x + (c.oldPos - y) = c.newPos
        BY <4>2, <4>3
      <4> HIDE DEF x, y
      <4>6. x + (d.oldPos - y) = d.newPos
        BY SMTT(30), <1>1, <1>3, <4>4, <4>5
      <4> QED
        BY <4>3, <4>6 DEF x, y
    <3> QED
      BY <3>2, <3>3, <3>4
  <2> QED
    BY <2>2, <2>3
<1> QED
  BY <1>12, <1>14, <1>15, <1>16 DEF CopyOK
-------------------------------------------------------------------------------
\* The loop.

\* The recursion by which Copied is defined, up to m.
Copies(insts, m, g) ==
  g = [n \in 0 .. m |-> IF n = 0 THEN Blank ELSE CopyInst(g[n - 1], insts[n])]

\* The recursion of Copied has a solution.
LEMMA CopiesExist ==
  ASSUME NEW insts, NEW m \in Nat
  PROVE  \E g : Copies(insts, m, g)
<1> DEFINE G == {k \in Nat : \E g : Copies(insts, k, g)}
<1>1. 0 \in G
  <2> DEFINE g == [n \in 0 .. 0 |-> Blank]
  <2>1. Copies(insts, 0, g)
    BY DEF Copies
  <2> HIDE DEF g
  <2> QED
    BY <2>1
<1>2. ASSUME NEW k \in G PROVE k + 1 \in G
  <2>1. PICK f : Copies(insts, k, f)
    OBVIOUS
  <2> DEFINE g == [n \in 0 .. (k + 1) |-> IF n <= k THEN f[n] ELSE CopyInst(f[n - 1], insts[n])]
  <2>2. \A n \in 0 .. (k + 1) : g[n] = IF n = 0 THEN Blank ELSE CopyInst(g[n - 1], insts[n])
    <3>1. \A n \in 0 .. k : f[n] = IF n = 0 THEN Blank ELSE CopyInst(f[n - 1], insts[n])
      BY <2>1 DEF Copies
    <3>2. g[k + 1] = CopyInst(f[k], insts[k + 1])
      OBVIOUS
    <3>3. \A n \in 0 .. k : g[n] = f[n]
      OBVIOUS
    <3> HIDE DEF g
    <3> QED
      BY <3>1, <3>2, <3>3
  <2>3. Copies(insts, k + 1, g)
    BY <2>2 DEF Copies
  <2> HIDE DEF g
  <2> QED
    BY <2>3
<1>3. G = Nat
  <2>1. G \in SUBSET Nat
    OBVIOUS
  <2> HIDE DEF G
  <2> QED
    BY <1>1, <1>2, <2>1, NatInduct
<1> QED
  BY <1>3

\* The equations of Copied.
LEMMA CopiedAre ==
  ASSUME NEW insts \in Seq(Instructions)
  PROVE  /\ Copied(insts)[0] = Blank
         /\ \A n \in 1 .. Len(insts) : Copied(insts)[n] = CopyInst(Copied(insts)[n - 1], insts[n])
<1>1. Len(insts) \in Nat
  BY LenProperties
<1> DEFINE g == CHOOSE g : Copies(insts, Len(insts), g)
<1>2. Copies(insts, Len(insts), g)
  BY <1>1, CopiesExist
<1>3. Copied(insts) = g
  BY DEF Copied, Copies
<1> HIDE DEF g
<1> QED
  BY <1>1, <1>2, <1>3 DEF Copies

\* What has been copied after each round is right.
LEMMA LoopOK ==
  ASSUME NEW insts \in Seq(Instructions), NEW n \in 0 .. Len(insts)
  PROVE  CopyOK(Copied(insts)[n], n, insts)
<1> DEFINE c(k) == Copied(insts)[k]
           G == {k \in Nat : k <= Len(insts) => CopyOK(c(k), k, insts)}
<1>0. Len(insts) \in Nat
  BY LenProperties
<1>1. 0 \in G
  BY BlankOK, CopiedAre
<1>2. ASSUME NEW k \in G PROVE k + 1 \in G
  <2> SUFFICES ASSUME k + 1 <= Len(insts) PROVE CopyOK(c(k + 1), k + 1, insts)
    OBVIOUS
  <2>1. k \in Nat /\ k + 1 \in 1 .. Len(insts) /\ (k + 1) - 1 = k
    BY <1>0
  <2>2. CopyOK(c(k), k, insts)
    BY <1>0, <2>1
  <2>3. c(k + 1) = CopyInst(c(k), insts[k + 1])
    BY <2>1, CopiedAre
  <2> HIDE DEF c
  <2>4. c(k) \in CopyStates /\ insts[k + 1] \in Instructions
    BY <2>1, <2>2, InstructionAt DEF CopyOK, CopyShape
  <2>5. \/ CopyInst(c(k), insts[k + 1]) = c(k) /\ (c(k).finished \/ c(k).failed)
        \/ CopyInst(c(k), insts[k + 1]) = [c(k) EXCEPT !.failed = TRUE]
        \/ CopiedOne(c(k), insts[k + 1], CopyInst(c(k), insts[k + 1]))
    BY <2>4, OneRound
  <2>6. CASE CopyInst(c(k), insts[k + 1]) = c(k) /\ (c(k).finished \/ c(k).failed)
    BY <2>1, <2>2, <2>3, <2>6, StoppedOK
  <2>7. CASE CopyInst(c(k), insts[k + 1]) = [c(k) EXCEPT !.failed = TRUE]
    BY <2>1, <2>2, <2>3, <2>7, FailedOK
  <2>8. CASE CopiedOne(c(k), insts[k + 1], CopyInst(c(k), insts[k + 1]))
    BY <2>1, <2>2, <2>3, <2>8, CopiedOK
  <2> QED
    BY <2>5, <2>6, <2>7, <2>8
<1>3. G = Nat
  <2>1. G \in SUBSET Nat
    OBVIOUS
  <2> HIDE DEF G
  <2> QED
    BY <1>1, <1>2, <2>1, NatInduct
<1>4. n \in G /\ n <= Len(insts)
  BY <1>0, <1>3
<1> QED
  BY <1>4

\* A trampoline that is built copies the head of the function whole: the loop has
\* come to its end, within the instructions that are known.
LEMMA HeadCopied ==
  ASSUME NEW fn \in Code, CreateTrampolineFunction(fn).ok
  PROVE  LET t == Copied(fn.insts)[Len(fn.insts)] IN
           /\ CopyOK(t, Len(fn.insts), fn.insts) /\ t.finished /\ ~t.failed
           /\ CreateTrampolineFunction(fn).oldIPs = t.oldIPs
           /\ CreateTrampolineFunction(fn).newIPs = t.newIPs
           /\ CreateTrampolineFunction(fn).relay = t.newPos
           /\ \/ t.oldPos >= PatchedBytes(CreateTrampolineFunction(fn))
              \/ t.oldPos = Offsets(fn.insts)[Len(fn.insts)]
<1> DEFINE t == Copied(fn.insts)[Len(fn.insts)]
           u == CopyHead(fn)
           ct == CreateTrampolineFunction(fn)
           long == u.oldPos >= JmpRel \/ IsCodePadding(fn, u.oldPos, JmpRel - u.oldPos)
           short == u.oldPos >= JmpRelShort \/ IsCodePadding(fn, u.oldPos, JmpRelShort - u.oldPos)
<1>1. fn.insts \in Seq(Instructions) /\ Len(fn.insts) \in Nat
  BY LenProperties DEF Code
<1>2. CopyOK(t, Len(fn.insts), fn.insts)
  BY <1>1, LoopOK
<1>3. t \in CopyStates /\ NoInst \in Instructions
  BY <1>2 DEF CopyOK, CopyShape, NoInst, Instructions, Kinds
<1>4. u = CopyInst(t, NoInst)
  BY DEF CopyHead
<1>5. /\ ct.ok = (~u.failed /\ u.finished /\ (long \/ (short /\ fn.above)))
      /\ ct.patchAbove = ~long
      /\ ct.oldIPs = u.oldIPs /\ ct.newIPs = u.newIPs /\ ct.relay = u.newPos
  BY DEF CreateTrampolineFunction
<1> HIDE DEF t, u, ct
<1>6. u = t /\ t.finished /\ ~t.failed
  <2>1. ~u.failed /\ u.finished
    BY <1>5 DEF ct
  <2>2. \/ CopyInst(t, NoInst) = t /\ (t.finished \/ t.failed)
        \/ CopyInst(t, NoInst) = [t EXCEPT !.failed = TRUE]
        \/ CopiedOne(t, NoInst, CopyInst(t, NoInst))
    BY <1>3, OneRound
  <2>3. ~CopiedOne(t, NoInst, CopyInst(t, NoInst))
    BY DEF CopiedOne, NoInst
  <2>4. ~(CopyInst(t, NoInst) = [t EXCEPT !.failed = TRUE])
    BY <1>3, <1>4, <2>1 DEF CopyStates
  <2> QED
    BY <1>4, <2>1, <2>2, <2>3, <2>4
<1>7. long \/ short
  BY <1>5 DEF ct
<1>8. t.oldPos >= PatchedBytes(ct) \/ t.oldPos = Offsets(fn.insts)[Len(fn.insts)]
  BY <1>5, <1>6, <1>7 DEF PatchedBytes, IsCodePadding, CodeSize
<1> QED
  BY <1>2, <1>5, <1>6, <1>8 DEF t, ct
-------------------------------------------------------------------------------
\* What a trampoline owes its function.

\* The two lists name the first instructions of the function in order, from its
\* start; the last copy leaves the trampoline.
LEMMA TrampolineLists ==
  ASSUME NEW fn \in Code, CreateTrampolineFunction(fn).ok
  PROVE  LET ct == CreateTrampolineFunction(fn)
             k == Len(ct.oldIPs)
         IN  /\ ct.oldIPs \in Seq(Nat) /\ ct.newIPs \in Seq(Nat) /\ Len(ct.newIPs) = k
             /\ k \in 1 .. Len(fn.insts) /\ k <= MaxIPs
             /\ \A i \in 1 .. k : ct.oldIPs[i] = Offsets(fn.insts)[i - 1]
             /\ \A i, j \in 1 .. k : i < j => ct.newIPs[i] < ct.newIPs[j]
             /\ ct.oldIPs[1] = 0 /\ ct.newIPs[1] = 0
             /\ ct.relay \in Nat /\ ct.relay <= TrampolineMaxSize
             /\ \A i \in 1 .. k : ct.newIPs[i] < ct.relay
             /\ ct.oldIPs[k] >= JmpRel \/ fn.insts[k].kind \in {"ripjmp", "jmp", "ret"}
<1> DEFINE ct == CreateTrampolineFunction(fn)
           t == Copied(fn.insts)[Len(fn.insts)]
           k == Len(t.oldIPs)
<1>1. /\ CopyOK(t, Len(fn.insts), fn.insts) /\ t.finished
      /\ ct.oldIPs = t.oldIPs /\ ct.newIPs = t.newIPs /\ ct.relay = t.newPos
  BY HeadCopied
<1>2. fn.insts \in Seq(Instructions) /\ Len(fn.insts) \in Nat
  BY LenProperties DEF Code
<1> HIDE DEF ct, t
<1>3. /\ t.oldIPs \in Seq(Nat) /\ t.newIPs \in Seq(Nat) /\ t.newPos \in Nat
      /\ Len(t.newIPs) = k /\ k <= Len(fn.insts) /\ k <= MaxIPs /\ t.newPos <= TrampolineMaxSize
      /\ k # 0
  BY <1>1 DEF CopyOK, CopyShape, CopyStates
<1>4. k \in Nat
  BY <1>3, LenProperties
<1>5. k \in 1 .. Len(fn.insts) /\ 1 \in 1 .. k
  BY <1>2, <1>3, <1>4
<1>6. /\ \A i \in 1 .. k : t.oldIPs[i] = Offsets(fn.insts)[i - 1]
      /\ \A i \in 1 .. k : t.newIPs[i] < t.newPos
      /\ \A i, j \in 1 .. k : i < j => t.newIPs[i] < t.newIPs[j]
      /\ t.newIPs[1] = 0
  BY <1>1, <1>5 DEF CopyOK, CopyPlaces
<1>7. t.oldIPs[1] = 0
  <2>1. t.oldIPs[1] = Offsets(fn.insts)[1 - 1] /\ 1 - 1 = 0
    BY <1>5, <1>6
  <2> QED
    BY <1>2, <2>1, OffsetsType
<1>8. t.oldIPs[k] >= JmpRel \/ fn.insts[k].kind \in {"ripjmp", "jmp", "ret"}
  BY <1>1 DEF CopyOK, CopyEnds
<1> QED
  BY <1>1, <1>3, <1>5, <1>6, <1>7, <1>8 DEF ct

\* A thread that is suspended at an instruction whose bytes the hook overwrites
\* has a place in the trampoline (FindNewIP), and the lists go up together, for
\* every function MinHook accepts.
LEMMA PlacesForAll ==
  ASSUME NEW fn \in Code
  PROVE  EveryThreadHasAPlace(fn)
<1> DEFINE ct == CreateTrampolineFunction(fn)
           k == Len(ct.oldIPs)
<1> SUFFICES ASSUME ct.ok
             PROVE  /\ \A o \in Starts(fn) : o < PatchedBytes(ct) => o \in ToSet(ct.oldIPs)
                    /\ \A i, j \in DOMAIN ct.oldIPs :
                         i < j => ct.oldIPs[i] < ct.oldIPs[j] /\ ct.newIPs[i] < ct.newIPs[j]
  BY DEF EveryThreadHasAPlace
<1>1. fn.insts \in Seq(Instructions) /\ Len(fn.insts) \in Nat
  BY LenProperties DEF Code
<1>2. /\ ct.oldIPs \in Seq(Nat) /\ k \in 1 .. Len(fn.insts)
      /\ \A i \in 1 .. k : ct.oldIPs[i] = Offsets(fn.insts)[i - 1]
      /\ \A i, j \in 1 .. k : i < j => ct.newIPs[i] < ct.newIPs[j]
  BY TrampolineLists
<1>3. DOMAIN ct.oldIPs = 1 .. k
  BY <1>2, LenProperties
<1>4. \/ Offsets(fn.insts)[k] >= PatchedBytes(ct)
      \/ Offsets(fn.insts)[k] = Offsets(fn.insts)[Len(fn.insts)]
  BY HeadCopied DEF CopyOK, CopyShape
<1>5. PatchedBytes(ct) \in Nat
  BY DEF PatchedBytes, JmpRel, JmpRelShort
<1> HIDE DEF ct
<1>6. ASSUME NEW o \in Starts(fn), o < PatchedBytes(ct)
      PROVE  o \in ToSet(ct.oldIPs)
  <2>1. PICK m \in 0 .. Len(fn.insts) - 1 : o = Offsets(fn.insts)[m]
    BY DEF Starts
  <2>2. m \in 0 .. Len(fn.insts) /\ Len(fn.insts) \in 0 .. Len(fn.insts) /\ k \in 0 .. Len(fn.insts)
        /\ m < Len(fn.insts)
    BY <1>1, <1>2, <2>1
  <2>3. m < k
    <3> SUFFICES ASSUME ~(m < k) PROVE FALSE
      OBVIOUS
    <3>1. o < Offsets(fn.insts)[Len(fn.insts)]
      BY <1>1, <2>1, <2>2, OffsetsRise
    <3>2. k = m \/ k < m
      BY <1>2, <2>2
    <3>3. k = m \/ Offsets(fn.insts)[k] < Offsets(fn.insts)[m]
      BY <1>1, <2>2, <3>2, OffsetsRise
    <3>4. /\ Offsets(fn.insts)[k] \in Nat /\ Offsets(fn.insts)[m] \in Nat
          /\ Offsets(fn.insts)[Len(fn.insts)] \in Nat
      BY <1>1, <2>2, OffsetsType
    <3> QED
      BY <1>4, <1>5, <1>6, <2>1, <3>1, <3>3, <3>4
  <2>4. m + 1 \in 1 .. k /\ (m + 1) - 1 = m
    BY <1>2, <2>2, <2>3
  <2>5. ct.oldIPs[m + 1] = o
    BY <1>2, <2>1, <2>4
  <2> QED
    BY <1>3, <2>4, <2>5 DEF ToSet
<1>7. ASSUME NEW i \in DOMAIN ct.oldIPs, NEW j \in DOMAIN ct.oldIPs, i < j
      PROVE  ct.oldIPs[i] < ct.oldIPs[j] /\ ct.newIPs[i] < ct.newIPs[j]
  <2>1. i - 1 \in 0 .. Len(fn.insts) /\ j - 1 \in 0 .. Len(fn.insts) /\ i - 1 < j - 1
    BY SMTT(60), <1>1, <1>2, <1>3, <1>7
  <2>2. Offsets(fn.insts)[i - 1] < Offsets(fn.insts)[j - 1]
    BY <1>1, <2>1, OffsetsRise
  <2> QED
    BY <1>2, <1>3, <1>7, <2>2
<1> QED
  BY <1>6, <1>7

\* The copies and the jump to the detour stay in the slot of 64 bytes.
LEMMA AllFit ==
  ASSUME NEW fn \in Code
  PROVE  FitsSlot(fn)
<1> DEFINE ct == CreateTrampolineFunction(fn)
<1> SUFFICES ASSUME ct.ok
             PROVE  ct.relay + JmpAbs <= SlotBytes /\ Len(ct.oldIPs) <= MaxIPs
  BY DEF FitsSlot
<1>1. ct.relay \in Nat /\ ct.relay <= TrampolineMaxSize /\ Len(ct.oldIPs) <= MaxIPs
  BY TrampolineLists
<1> HIDE DEF ct
<1> QED
  BY <1>1 DEF TrampolineMaxSize, JmpAbs, SlotBytes

\* A jump forward within the overwritten bytes meets, in the trampoline, the copy
\* of the instruction it meant: what it crosses is copied at its own length.
LEMMA AllJumpsKept ==
  ASSUME NEW fn \in Code
  PROVE  ForwardJumpsKept(fn)
<1> DEFINE ct == CreateTrampolineFunction(fn)
           t == Copied(fn.insts)[Len(fn.insts)]
<1> SUFFICES ASSUME ct.ok, NEW i \in DOMAIN ct.oldIPs, NEW j \in DOMAIN ct.oldIPs,
                    i <= Len(fn.insts), ct.oldIPs[i] < JmpRel, i < j,
                    Internal(fn.insts[i]), fn.insts[i].dest = ct.oldIPs[j]
             PROVE  ct.newIPs[i] + (fn.insts[i].dest - ct.oldIPs[i]) = ct.newIPs[j]
  BY DEF ForwardJumpsKept
<1>1. CopyOK(t, Len(fn.insts), fn.insts) /\ ct.oldIPs = t.oldIPs /\ ct.newIPs = t.newIPs
  BY HeadCopied
<1>2. ct.oldIPs \in Seq(Nat)
  BY TrampolineLists
<1> HIDE DEF ct, t
<1>3. DOMAIN t.oldIPs = 1 .. Len(t.oldIPs) /\ \A m \in 1 .. Len(t.oldIPs) : t.oldIPs[m] \in Nat
  BY <1>1, <1>2, LenProperties, ElementOfSeq
<1>4. t.oldIPs[j] <= fn.insts[i].dest
  BY <1>1, <1>3
<1>5. t.newIPs[i] + (t.oldIPs[j] - t.oldIPs[i]) = t.newIPs[j]
  BY ZenonT(30), <1>1, <1>3, <1>4 DEF CopyOK, CopyJumps
<1> QED
  BY <1>1, <1>5
===============================================================================
