------------------------------ MODULE HookBuffer ------------------------------
(***************************************************************************)
(* The memory MinHook builds trampolines in (3rd/minhook/src/buffer.c, the *)
(* x64 build): executable blocks near the hooked code, cut into slots.     *)
(*                                                                         *)
(* Addresses count slots (MEMORY_SLOT_SIZE, 64 bytes).  The list of blocks *)
(* is a value these operators take and return; MinHook keeps it in a       *)
(* variable, under its lock.                                               *)
(***************************************************************************)
EXTENDS Integers, Sequences, SequencesExt

CONSTANTS
  BlockSlots,     \* MEMORY_BLOCK_SIZE: the first slot is the block's header
  Granularity,    \* of VirtualAlloc, in slots
  MaxRange,       \* MAX_MEMORY_RANGE
  MinApp, MaxApp, \* the application's addresses, both included
  Taken,          \* the granules VirtualQuery does not call free
  Refused         \* the free granules VirtualAlloc refuses all the same

ASSUME BlockAssumption == BlockSlots \in Nat /\ BlockSlots > 1
ASSUME GranularityAssumption ==
  /\ Granularity \in Nat /\ Granularity >= BlockSlots
  /\ Granularity % BlockSlots = 0
ASSUME RangeAssumption == MaxRange \in Nat
ASSUME AppAssumption == MinApp \in Nat \ {0} /\ MaxApp \in Nat
ASSUME GranulesAssumption == Taken \subseteq Nat /\ Refused \subseteq Nat

NoAddress == 0   \* NULL, below every address of the application

Granules == {g \in MinApp .. MaxApp : g % Granularity = 0}

\* The window a block must start in, from the clipping at the head of
\* GetMemoryBlock: pOrigin +- MAX_MEMORY_RANGE with room for one block.
LowestFor(origin) ==
  IF origin > MaxRange /\ MinApp < origin - MaxRange THEN origin - MaxRange ELSE MinApp
HighestFor(origin) ==
  (IF MaxApp > origin + MaxRange THEN origin + MaxRange ELSE MaxApp) - (BlockSlots - 1)

\* The walk over the registered blocks excludes the upper end of the window,
\* the search for a free region includes it.
BugAnyBlock(block, origin) == block.base >= MinApp /\ origin >= MinApp
InReach(block, origin) ==
  LowestFor(origin) <= block.base /\ block.base < HighestFor(origin)

IsFree(blocks, g) == g \notin Taken /\ \A i \in DOMAIN blocks : blocks[i].base # g

FindPrevFreeRegions(blocks, origin) ==
  {g \in Granules : /\ LowestFor(origin) <= g /\ g < origin - (origin % Granularity)
                    /\ IsFree(blocks, g)}
FindNextFreeRegions(blocks, origin) ==
  {g \in Granules : /\ origin - (origin % Granularity) < g /\ g <= HighestFor(origin)
                    /\ IsFree(blocks, g)}

\* The nearest region below the origin that VirtualAlloc grants, or else the
\* nearest above.
RegionFor(blocks, origin) ==
  LET prev == FindPrevFreeRegions(blocks, origin) \ Refused
      next == FindNextFreeRegions(blocks, origin) \ Refused
  IN  IF prev # {} THEN CHOOSE g \in prev : \A h \in prev : h <= g
      ELSE IF next # {} THEN CHOOSE g \in next : \A h \in next : g <= h
      ELSE NoAddress

\* Every slot behind the header is pushed on the free list, in ascending order.
NewBlock(base) ==
  [base |-> base, free |-> [i \in 1 .. BlockSlots - 1 |-> base + BlockSlots - i], used |-> 0]

\* The list with a block that has a slot for this origin, and where it stands:
\* the first one in reach, or a new one at the head.  0: there is none.
GetMemoryBlock(blocks, origin) ==
  LET ready == {i \in DOMAIN blocks : InReach(blocks[i], origin) /\ blocks[i].free # << >>}
      base == RegionFor(blocks, origin)
  IN  IF ready # {} THEN [blocks |-> blocks, at |-> CHOOSE i \in ready : \A j \in ready : i <= j]
      ELSE IF base # NoAddress THEN [blocks |-> <<NewBlock(base)>> \o blocks, at |-> 1]
      ELSE [blocks |-> blocks, at |-> 0]

AllocateBuffer(blocks, origin) ==
  LET found == GetMemoryBlock(blocks, origin)
  IN  IF found.at = 0 THEN [blocks |-> blocks, slot |-> NoAddress]
      ELSE LET block == found.blocks[found.at]
           IN  [blocks |-> [found.blocks EXCEPT
                              ![found.at] = [base |-> block.base, free |-> Tail(block.free),
                                             used |-> block.used + 1]],
                slot |-> Head(block.free)]

\* The slot goes back to the block its address rounds down to; a block with no
\* slot in use is unlinked and released.
FreeBuffer(blocks, slot) ==
  LET hit == {i \in DOMAIN blocks : blocks[i].base = (slot \div BlockSlots) * BlockSlots}
  IN  IF hit = {} THEN blocks
      ELSE LET i == CHOOSE i \in hit : \A j \in hit : i <= j
               block == [base |-> blocks[i].base, free |-> <<slot>> \o blocks[i].free,
                         used |-> blocks[i].used - 1]
           IN  IF block.used = 0 THEN RemoveAt(blocks, i) ELSE [blocks EXCEPT ![i] = block]

\* Every block is released, whatever its slots hold.
UninitializeBuffer == << >>

\* The slots of the blocks that are mapped and not on a free list.
SlotsInUse(blocks) ==
  UNION {(blocks[i].base + 1 .. blocks[i].base + BlockSlots - 1) \ ToSet(blocks[i].free) :
           i \in DOMAIN blocks}

\* A list of blocks is sound: blocks lie apart, usedCount counts the slots given
\* out, no slot is on a free list twice or in a block that is not its own.
BufferOK(blocks) ==
  \A i \in DOMAIN blocks :
    LET b == blocks[i] IN
      /\ b.base \in Granules
      /\ b.used + Len(b.free) = BlockSlots - 1
      /\ b.used > 0
      /\ IsInjective(b.free)
      /\ ToSet(b.free) \subseteq b.base + 1 .. b.base + BlockSlots - 1
      /\ \A j \in DOMAIN blocks : blocks[j].base = b.base => i = j
===============================================================================
