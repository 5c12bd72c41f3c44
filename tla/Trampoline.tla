------------------------------ MODULE Trampoline ------------------------------
(***************************************************************************)
(* How MinHook copies the head of a function it is about to overwrite      *)
(* (CreateTrampolineFunction of 3rd/minhook/src/trampoline.c, x64).        *)
(*                                                                         *)
(* A function is [insts, pad, above]: its instructions, the bytes of code  *)
(* padding behind the last one, and whether five executable padding bytes  *)
(* stand in front of it.  An instruction is [len, kind, dest]; dest is the *)
(* target of a direct relative branch, in bytes from the function's start. *)
(***************************************************************************)
EXTENDS Sums, SequencesExt

JmpRel == 5          \* sizeof(JMP_REL), the long jump that is written
JmpRelShort == 2     \* sizeof(JMP_REL_SHORT)
JmpAbs == 14         \* sizeof(JMP_ABS)
CallAbs == 16        \* sizeof(CALL_ABS)
JccAbs == 16         \* sizeof(JCC_ABS)
SlotBytes == 64      \* MEMORY_SLOT_SIZE
TrampolineMaxSize == SlotBytes - JmpAbs
MaxIPs == 8          \* ARRAYSIZE(oldIPs)

\* "rip" is relative to the instruction pointer, "ripjmp" a jump through such an
\* operand, "loop" one of LOOPNZ, LOOPZ, LOOP and JECXZ, "bad" what the
\* disassembler does not know.
Kinds == {"plain", "rip", "ripjmp", "call", "jmp", "jcc", "loop", "ret", "bad"}
Branches == {"jmp", "jcc", "loop"}

NoInst == [len |-> 1, kind |-> "bad", dest |-> 0]

Instructions == [len : Nat \ {0}, kind : Kinds, dest : Int]
Code == [insts : Seq(Instructions), pad : Nat, above : BOOLEAN]

Internal(inst) == inst.kind \in Branches /\ 0 <= inst.dest /\ inst.dest < JmpRel
External(inst) == inst.kind \in Branches /\ ~Internal(inst)

Blank ==
  [oldPos |-> 0, newPos |-> 0, jmpDest |-> 0, finished |-> FALSE, failed |-> FALSE,
   oldIPs |-> << >>, newIPs |-> << >>]

\* The bytes the trampoline gets for an instruction.  Behind the overwritten
\* bytes that is the jump back, whatever the instruction is.
CopySize(inst, oldPos) ==
  IF oldPos >= JmpRel THEN JmpAbs
  ELSE IF inst.kind = "call" THEN CallAbs
  ELSE IF inst.kind = "jmp" /\ External(inst) THEN JmpAbs
  ELSE IF inst.kind = "jcc" /\ External(inst) THEN JccAbs
  ELSE inst.len

\* Is an instruction that an earlier branch jumps over or onto copied at another
\* length?
BugOnlyShrunk(oldPos, jmpDest, size, inst) == oldPos < jmpDest /\ size < inst.len
Altered(oldPos, jmpDest, size, inst) == oldPos < jmpDest /\ size # inst.len

\* One round of the loop.
CopyInst(t, inst) ==
  LET complete == t.oldPos >= JmpRel
      jmpDest == IF ~complete /\ Internal(inst) /\ t.jmpDest < inst.dest
                 THEN inst.dest ELSE t.jmpDest
      size == CopySize(inst, t.oldPos)
      failed == \/ inst.kind = "bad"
                \/ ~complete /\ inst.kind = "loop" /\ External(inst)
                \/ Altered(t.oldPos, jmpDest, size, inst)
                \/ t.newPos + size > TrampolineMaxSize
                \/ Len(t.oldIPs) >= MaxIPs
      finished == \/ complete
                  \/ inst.kind = "ripjmp"
                  \/ inst.kind = "jmp" /\ External(inst) /\ t.oldPos >= jmpDest
                  \/ inst.kind = "ret" /\ t.oldPos >= jmpDest
  IN  IF t.finished \/ t.failed THEN t
      ELSE IF failed THEN [t EXCEPT !.failed = TRUE]
      ELSE [oldPos |-> t.oldPos + inst.len, newPos |-> t.newPos + size, jmpDest |-> jmpDest,
            finished |-> finished, failed |-> FALSE,
            oldIPs |-> Append(t.oldIPs, t.oldPos), newIPs |-> Append(t.newIPs, t.newPos)]

\* The loop runs until it is finished or fails; behind the known instructions it
\* finds one it does not know.
Copied(insts) ==
  LET copied[n \in 0 .. Len(insts)] ==
        IF n = 0 THEN Blank ELSE CopyInst(copied[n - 1], insts[n])
  IN  copied
CopyHead(fn) == CopyInst(Copied(fn.insts)[Len(fn.insts)], NoInst)

\* Where the code behind the first n instructions starts.
Offsets(insts) == Sums([i \in DOMAIN insts |-> insts[i].len])

CodeSize(fn) == Offsets(fn.insts)[Len(fn.insts)]

\* Are the n bytes from this position padding?
IsCodePadding(fn, from, n) == from = CodeSize(fn) /\ fn.pad >= n

\* [ok, patchAbove, oldIPs, newIPs, relay]: relay is the position in the slot of
\* the jump to the detour.
CreateTrampolineFunction(fn) ==
  LET t == CopyHead(fn)
      long == t.oldPos >= JmpRel \/ IsCodePadding(fn, t.oldPos, JmpRel - t.oldPos)
      short == t.oldPos >= JmpRelShort \/ IsCodePadding(fn, t.oldPos, JmpRelShort - t.oldPos)
  IN  [ok |-> ~t.failed /\ t.finished /\ (long \/ (short /\ fn.above)),
       patchAbove |-> ~long,
       oldIPs |-> t.oldIPs, newIPs |-> t.newIPs, relay |-> t.newPos]

\* The bytes at the target that the enabled hook overwrites.
PatchedBytes(ct) == IF ct.patchAbove THEN JmpRelShort ELSE JmpRel
-------------------------------------------------------------------------------
\* What a trampoline owes its function, for the inputs given.

\* Where the instructions of a function start.
Starts(fn) == {Offsets(fn.insts)[k] : k \in 0 .. Len(fn.insts) - 1}

\* A thread suspended at any instruction whose bytes are overwritten has a place
\* to go, in the trampoline and back, and the two lists go up together.
EveryThreadHasAPlace(fn) ==
  LET ct == CreateTrampolineFunction(fn) IN
    ct.ok =>
      /\ \A o \in Starts(fn) : o < PatchedBytes(ct) => o \in ToSet(ct.oldIPs)
      /\ \A i, j \in DOMAIN ct.oldIPs :
           i < j => ct.oldIPs[i] < ct.oldIPs[j] /\ ct.newIPs[i] < ct.newIPs[j]

\* The copies and the relay behind them stay in the slot.
FitsSlot(fn) ==
  LET ct == CreateTrampolineFunction(fn) IN
    ct.ok => ct.relay + JmpAbs <= SlotBytes /\ Len(ct.oldIPs) <= MaxIPs

\* An internal jump is copied with its displacement: in the trampoline it must
\* meet the copy of the instruction it meant.  Jumps forward do.
ForwardJumpsKept(fn) ==
  LET ct == CreateTrampolineFunction(fn) IN
    ct.ok =>
      \A i, j \in DOMAIN ct.oldIPs :
        i <= Len(fn.insts) /\ ct.oldIPs[i] < JmpRel /\ i < j
          /\ Internal(fn.insts[i]) /\ fn.insts[i].dest = ct.oldIPs[j]
        => ct.newIPs[i] + (fn.insts[i].dest - ct.oldIPs[i]) = ct.newIPs[j]
===============================================================================
