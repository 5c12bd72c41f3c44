------------------------------ MODULE FrameWalk ------------------------------
(***************************************************************************)
(* getStackTrace by frame pointers (Android on AArch64): a frame record is *)
(* two words, the caller's frame pointer and the return address.  A leaf   *)
(* function or damaged memory can put anything into them, so every frame   *)
(* pointer is validated against the bounds of the thread's stack before it *)
(* is read.  Addresses are unsigned and wrap around.                       *)
(***************************************************************************)
EXTENDS Naturals, Sequences

CONSTANTS
  Space,      \* the number of addresses
  WordSize,   \* sizeof(uintptr_t)
  StackLo,
  StackHi,    \* the stack is [StackLo, StackHi)
  Values,     \* what the words of the stack may hold
  NumFrames,  \* _numFrames
  Skips       \* values of _skip

Words == {a \in StackLo..(StackHi - 1) : a % WordSize = 0}

ASSUME SpaceAssumption == Space \in Nat /\ Values \subseteq 0..(Space - 1)
ASSUME WordSizeAssumption == WordSize \in Nat \ {0}
ASSUME StackAssumption ==
  /\ StackLo \in Nat /\ StackHi \in Nat /\ StackHi <= Space
  /\ StackLo % WordSize = 0 /\ StackHi % WordSize = 0
ASSUME CountsAssumption == NumFrames \in Nat /\ Skips \subseteq Nat

VARIABLES
  memory,  \* the words of the stack
  fp,
  skip,    \* _skip
  traces,  \* _traces, num entries
  frames,  \* the frame records they come from (history)
  reads,   \* every address that was read (history)
  done

vars == <<memory, fp, skip, traces, frames, reads, done>>

\* The sum of two addresses.
Plus(a, b) == IF a + b >= Space THEN a + b - Space ELSE a + b

frameRecordSize == 2 * WordSize

\* RMEM_FP_VALID.
BugOneWord(a) == a >= StackLo /\ Plus(a, WordSize) <= StackHi /\ a % WordSize = 0
Valid(a) == a >= StackLo /\ Plus(a, frameRecordSize) <= StackHi /\ a % WordSize = 0

\* A word that is not on the stack holds anything.
Holds(a, v) == IF a \in Words THEN v = memory[a] ELSE TRUE

\* The walk starts at a frame of the program, on its stack.
Init ==
  /\ memory \in [Words -> Values]
  /\ fp \in {a \in Words : a + frameRecordSize <= StackHi}
  /\ skip \in Skips
  /\ traces = <<>> /\ frames = <<>>
  /\ reads = {}
  /\ done = FALSE

\* The first loop.
SkipFrame ==
  /\ ~done /\ skip > 0 /\ Valid(fp)
  /\ \E next \in Values : Holds(fp, next) /\ fp' = next
  /\ skip' = skip - 1
  /\ reads' = reads \cup {fp}
  /\ UNCHANGED <<memory, traces, frames, done>>

\* The tests of the second loop.
BugRoomForOneMore == Len(traces) <= NumFrames
Room == Len(traces) < NumFrames

BugMayRepeat(next) == next >= fp
Ascends(next) == next > fp

\* One round of the second loop: it ends at a return address of 0, and after a
\* frame whose caller is not above it.
TakeFrame ==
  /\ ~done /\ skip = 0 /\ Room /\ Valid(fp)
  /\ \E next, lr \in Values :
       /\ Holds(fp, next) /\ Holds(Plus(fp, WordSize), lr)
       /\ IF lr = 0
          THEN done' = TRUE /\ UNCHANGED <<fp, traces, frames>>
          ELSE /\ traces' = Append(traces, lr)
               /\ frames' = Append(frames, fp)
               /\ done' = ~Ascends(next)
               /\ fp' = IF Ascends(next) THEN next ELSE fp
  /\ reads' = reads \cup {fp, Plus(fp, WordSize)}
  /\ UNCHANGED <<memory, skip>>

\* Enough frames, or a frame pointer that is not valid.
Stop ==
  /\ ~done /\ ~(Valid(fp) /\ (skip > 0 \/ Room))
  /\ done' = TRUE
  /\ UNCHANGED <<memory, fp, skip, traces, frames, reads>>

Returned == done /\ UNCHANGED vars

Next == SkipFrame \/ TakeFrame \/ Stop \/ Returned

Spec == Init /\ [][Next]_vars

-----------------------------------------------------------------------------
(* Properties. *)

\* The caller's array is never overrun.
TypeOK ==
  /\ memory \in [Words -> Values]
  /\ fp \in 0..(Space - 1)
  /\ skip \in Nat
  /\ traces \in Seq(Values) /\ frames \in Seq(Words)
  /\ Len(traces) = Len(frames) /\ Len(traces) <= NumFrames
  /\ reads \subseteq 0..(Space - 1)
  /\ done \in BOOLEAN

\* "Every FP is validated against the thread's stack bounds ... so a
\* leaf/corrupt frame can't fault the profiled process": only words of the
\* stack are read.
ReadsOnStack == reads \subseteq Words

\* "Frame pointers must increase walking up the stack": whatever the words hold,
\* no frame is reported twice.
FramesAscend == \A i, j \in DOMAIN frames : i < j => frames[i] < frames[j]
=============================================================================
