--------------------------- MODULE FrameWalkProofs ---------------------------
(***************************************************************************)
(* Theorems about the frame walk, for any stack, any contents and any      *)
(* number of frames.                                                       *)
(***************************************************************************)
EXTENDS FrameWalk, TLAPS

\* The words of the stack hold no address so high that a frame record at it
\* would wrap around.
NoWrap == \A v \in Values : v + frameRecordSize < Space

LEMMA NextAligned ==
  ASSUME NEW a \in Nat, a % WordSize = 0
  PROVE  (a + WordSize) % WordSize = 0
<1> DEFINE q == a \div WordSize
<1>1. q \in Nat /\ a = q * WordSize
  BY WordSizeAssumption, SMTT(30)
<1>2. a + WordSize = (q + 1) * WordSize
  BY <1>1, WordSizeAssumption, SMTT(30)
<1>3. \A n \in Nat : (n * WordSize) % WordSize = 0
  BY WordSizeAssumption, SMTT(30)
<1> QED
  BY <1>1, <1>2, <1>3

-----------------------------------------------------------------------------
(* What is read is on the stack.                                           *)

InBounds ==
  /\ fp \in Nat
  /\ fp + frameRecordSize < Space \/ fp + frameRecordSize <= StackHi

ReadsInv == InBounds /\ (\A a \in Words : memory[a] \in Values) /\ ReadsOnStack

\* A frame pointer that passes the test starts a record that is on the stack.
LEMMA ValidOnStack ==
  ASSUME InBounds, Valid(fp)
  PROVE  fp \in Words /\ Plus(fp, WordSize) \in Words
<1>1. fp >= StackLo /\ fp + 2 * WordSize <= StackHi /\ fp \in Nat /\ fp % WordSize = 0
  BY SpaceAssumption, WordSizeAssumption, StackAssumption
  DEF InBounds, Valid, Plus, frameRecordSize
<1>2. Plus(fp, WordSize) = fp + WordSize /\ fp + WordSize < StackHi
  BY <1>1, SpaceAssumption, WordSizeAssumption, StackAssumption DEF Plus
<1>3. (fp + WordSize) % WordSize = 0
  BY <1>1, NextAligned
<1> QED
  BY <1>1, <1>2, <1>3, SpaceAssumption, WordSizeAssumption, StackAssumption DEF Words

LEMMA ReadsInit == Init => ReadsInv
<1> SUFFICES ASSUME Init PROVE ReadsInv
  OBVIOUS
<1>1. fp \in Nat /\ fp + frameRecordSize <= StackHi
  BY StackAssumption DEF Init, Words
<1> QED
  BY <1>1 DEF Init, ReadsInv, InBounds, ReadsOnStack

LEMMA ReadsStep ==
  ASSUME NoWrap, ReadsInv, [Next]_vars
  PROVE  ReadsInv'
<1>0. \A v \in Values : v \in Nat /\ v + frameRecordSize < Space
  BY SpaceAssumption DEF NoWrap
<1>1. CASE SkipFrame
  <2>1. fp \in Words
    BY <1>1, ValidOnStack DEF SkipFrame, ReadsInv
  <2> QED
    BY <1>0, <1>1, <2>1 DEF SkipFrame, ReadsInv, InBounds, ReadsOnStack
<1>2. CASE TakeFrame
  <2>1. fp \in Words /\ Plus(fp, WordSize) \in Words
    BY <1>2, ValidOnStack DEF TakeFrame, ReadsInv
  <2>2. fp' = fp \/ fp' \in Values
    BY <1>2 DEF TakeFrame
  <2>3. reads' = reads \cup {fp, Plus(fp, WordSize)} /\ memory' = memory
    BY <1>2 DEF TakeFrame
  <2> QED
    BY <1>0, <2>1, <2>2, <2>3 DEF ReadsInv, InBounds, ReadsOnStack
<1>3. CASE Stop \/ Returned \/ UNCHANGED vars
  BY <1>3 DEF Stop, Returned, vars, ReadsInv, InBounds, ReadsOnStack
<1> QED
  BY <1>1, <1>2, <1>3 DEF Next

\* Whatever the words of the stack hold, short of an address at the very top of
\* the address space, only words of the stack are read.
THEOREM OnlyStackRead ==
  ASSUME NoWrap
  PROVE  Spec => []ReadsOnStack
<1>1. ReadsInv /\ [Next]_vars => ReadsInv'
  BY ReadsStep
<1> QED
  BY <1>1, ReadsInit, PTL DEF Spec, ReadsInv

-----------------------------------------------------------------------------
(* The walk goes up.                                                       *)

AscendInv ==
  /\ fp \in Nat /\ frames \in Seq(Nat)
  /\ skip > 0 => frames = <<>>
  /\ ~done => \A i \in DOMAIN frames : frames[i] < fp
  /\ FramesAscend

\* No frame is reported twice, whatever the memory holds and even if the frame
\* pointer leaves the stack.
THEOREM WalkAscends == Spec => []FramesAscend
<1>1. Init => AscendInv
  BY StackAssumption DEF Init, AscendInv, FramesAscend, Words
<1>2. AscendInv /\ [Next]_vars => AscendInv'
  <2> SUFFICES ASSUME AscendInv, [Next]_vars PROVE AscendInv'
    OBVIOUS
  <2>0. Values \subseteq Nat
    BY SpaceAssumption
  <2>1. CASE SkipFrame
    <3>1. frames = <<>> /\ frames' = frames /\ fp' \in Nat
      BY <2>0, <2>1 DEF SkipFrame, AscendInv
    <3> QED
      BY <3>1 DEF AscendInv, FramesAscend
  <2>2. CASE TakeFrame
    <3>1. ~done /\ skip = 0 /\ skip' = skip
      BY <2>2 DEF TakeFrame
    <3>2. CASE UNCHANGED <<fp, frames>>
      BY <3>1, <3>2 DEF AscendInv, FramesAscend
    <3>3. CASE /\ frames' = Append(frames, fp) /\ fp' \in Nat
               /\ ~done' => fp' > fp
      BY <3>1, <3>3 DEF AscendInv, FramesAscend
    <3> QED
      BY <2>0, <2>2, <3>2, <3>3 DEF TakeFrame, Ascends, AscendInv
  <2>3. CASE Stop \/ Returned \/ UNCHANGED vars
    BY <2>3 DEF Stop, Returned, vars, AscendInv, FramesAscend
  <2> QED
    BY <2>1, <2>2, <2>3 DEF Next
<1> QED
  BY <1>1, <1>2, PTL DEF Spec, AscendInv

-----------------------------------------------------------------------------
(* The caller's array.                                                     *)

\* The walk returns no more frames than the caller has room for, each of them a
\* frame record of the stack, and computes no address outside the address space.
THEOREM ArrayNotOverrun ==
  ASSUME NoWrap
  PROVE  Spec => []TypeOK
<1>0. Words \subseteq 0..(Space - 1) /\ Values \subseteq 0..(Space - 1)
  BY SpaceAssumption, StackAssumption DEF Words
<1>1. Init => TypeOK
  <2> SUFFICES ASSUME Init PROVE TypeOK
    OBVIOUS
  <2>1. Len(traces) = Len(frames) /\ Len(traces) <= NumFrames
        /\ traces \in Seq(Values) /\ frames \in Seq(Words)
    BY CountsAssumption DEF Init
  <2> QED
    BY <1>0, <2>1, CountsAssumption DEF Init, TypeOK
<1>2. TypeOK /\ ReadsInv /\ [Next]_vars => TypeOK'
  <2> SUFFICES ASSUME TypeOK, ReadsInv, [Next]_vars PROVE TypeOK'
    OBVIOUS
  <2>1. CASE SkipFrame
    <3>1. fp \in Words
      BY <2>1, ValidOnStack DEF SkipFrame, ReadsInv
    <3> QED
      BY <1>0, <2>1, <3>1 DEF SkipFrame, TypeOK
  <2>2. CASE TakeFrame
    <3>1. fp \in Words /\ Plus(fp, WordSize) \in Words
      BY <2>2, ValidOnStack DEF TakeFrame, ReadsInv
    <3>2. /\ reads' = reads \cup {fp, Plus(fp, WordSize)} /\ memory' = memory /\ skip' = skip
          /\ Len(traces) < NumFrames
      BY <2>2 DEF TakeFrame, Room
    <3>3. PICK next, lr \in Values :
            IF lr = 0
            THEN done' = TRUE /\ UNCHANGED <<fp, traces, frames>>
            ELSE /\ traces' = Append(traces, lr)
                 /\ frames' = Append(frames, fp)
                 /\ done' = ~Ascends(next)
                 /\ fp' = IF Ascends(next) THEN next ELSE fp
      BY <2>2 DEF TakeFrame
    <3>4. /\ traces' \in Seq(Values) /\ frames' \in Seq(Words)
          /\ Len(traces') = Len(frames') /\ Len(traces') <= NumFrames
      <4>1. /\ traces \in Seq(Values) /\ frames \in Seq(Words) /\ NumFrames \in Nat
            /\ Len(traces) = Len(frames) /\ Len(traces) <= NumFrames
        BY CountsAssumption DEF TypeOK
      <4>2. CASE UNCHANGED <<traces, frames>>
        BY <4>1, <4>2
      <4>3. CASE traces' = Append(traces, lr) /\ frames' = Append(frames, fp)
        <5>1. traces' \in Seq(Values) /\ Len(traces') = Len(traces) + 1
          BY <4>1, <4>3
        <5>2. frames' \in Seq(Words) /\ Len(frames') = Len(frames) + 1
          BY <3>1, <4>1, <4>3
        <5>3. Len(traces) \in Nat /\ Len(traces) < NumFrames
          BY <3>2, <4>1
        <5> QED
          BY <4>1, <5>1, <5>2, <5>3
      <4> QED
        BY <3>3, <4>2, <4>3
    <3>5. fp' \in 0..(Space - 1) /\ done' \in BOOLEAN
      BY <1>0, <3>3 DEF TypeOK, Ascends
    <3> QED
      BY <1>0, <3>1, <3>2, <3>4, <3>5 DEF TypeOK
  <2>3. CASE Stop \/ Returned \/ UNCHANGED vars
    BY <2>3 DEF Stop, Returned, vars, TypeOK
  <2> QED
    BY <2>1, <2>2, <2>3 DEF Next
<1>3. ReadsInv /\ [Next]_vars => ReadsInv'
  BY ReadsStep
<1> QED
  BY <1>1, <1>2, <1>3, ReadsInit, PTL DEF Spec
=============================================================================
