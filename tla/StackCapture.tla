----------------------------- MODULE StackCapture -----------------------------
(***************************************************************************)
(* getStackTrace of src/rmem_platform.h on the platforms that ask their    *)
(* system for the frames; the AArch64 walk is module FrameWalk.            *)
(*                                                                         *)
(* frames are the return addresses of the thread, innermost first.  The    *)
(* result is [num, stored]: what the function returns, and the values it   *)
(* put into _traces from its start on.  failures is how many of the calls  *)
(* of the system fail, from the first on, where that can be told from an   *)
(* empty stack.                                                            *)
(***************************************************************************)
EXTENDS Integers, Sequences

CONSTANTS
  Buffered,  \* 256: the frames a local buffer takes
  Bias,      \* 0x00400000, the load address on PlayStation
  Words      \* bound: the numbers of a uint32_t

ASSUME CaptureAssumption == Buffered \in Nat /\ Bias \in Nat /\ Words \in Nat \ {0}

Nothing == [num |-> 0, stored |-> << >>]
Result(stored) == [num |-> Len(stored), stored |-> stored]
AtMost(a, b) == IF a < b THEN a ELSE b
Upto(seq, n) == SubSeq(seq, 1, AtMost(n, Len(seq)))
Skipped(seq, n) == SubSeq(seq, n + 1, Len(seq))

\* RtlCaptureStackBackTrace may come back with nothing; it is tried twice.
Windows(frames, numFrames, skip, failures) ==
  IF failures < 2 THEN Result(Upto(Skipped(frames, skip), numFrames)) ELSE Nothing

\* The count goes down by the frames to skip, in 32 bits, and is what the system
\* is asked for; only the number returned is clipped.
PS3(frames, numFrames, skip, failures) ==
  LET count == (Len(frames) - skip) % Words IN
  IF failures > 0 THEN Nothing
  ELSE [num |-> AtMost(count, numFrames), stored |-> Upto(Skipped(frames, skip), count)]

\* The chain of frame pointers, to its null.
PlayStation(frames, numFrames, skip) ==
  LET taken == Upto(Skipped(frames, skip), numFrames) IN
  Result([i \in DOMAIN taken |-> taken[i] - Bias])

\* unwindTraceFunc, called for one frame after the other until it stops.
BugOneMore(arg) == arg.numTraces <= arg.framesSize
HasRoom(arg) == arg.numTraces < arg.framesSize

unwindTraceFunc(arg, ip) ==
  IF arg.stopped THEN arg
  ELSE IF arg.tracesToSkip > 0 THEN [arg EXCEPT !.tracesToSkip = @ - 1]
  ELSE IF ip # 0 /\ HasRoom(arg)
  THEN [arg EXCEPT !.numTraces = @ + 1, !.frames = Append(@, ip)]
  ELSE [arg EXCEPT !.stopped = TRUE]

Unwound(frames, numFrames, skip) ==
  LET unwound[n \in 0 .. Len(frames)] ==
        IF n = 0
        THEN [tracesToSkip |-> skip, numTraces |-> 0, framesSize |-> numFrames,
              frames |-> << >>, stopped |-> FALSE]
        ELSE unwindTraceFunc(unwound[n - 1], frames[n])
  IN  unwound

Android(frames, numFrames, skip) ==
  LET arg == Unwound(frames, numFrames, skip)[Len(frames)]
  IN  [num |-> arg.numTraces, stored |-> arg.frames]

\* The local buffer first, then what is asked for.
FromBuffer(trace, numFrames, skip) ==
  IF skip >= Len(trace) THEN Nothing ELSE Result(Upto(Skipped(trace, skip), numFrames))
Linux(frames, numFrames, skip) == FromBuffer(Upto(frames, Buffered), numFrames, skip)
Switch(frames, numFrames, skip) == FromBuffer(Upto(frames, numFrames), numFrames, skip)

\* Up to the first null or the end of the local buffer, whatever was asked for.
Xbox360(frames, numFrames, skip, failures) ==
  LET nulls == {i \in DOMAIN frames : frames[i] = 0}
      all == Upto(frames, Buffered)
      trace == IF \A i \in nulls : i > Len(all) THEN all
               ELSE SubSeq(frames, 1, (CHOOSE i \in nulls : \A j \in nulls : i <= j) - 1)
  IN  IF failures > 0 THEN Nothing ELSE Result(Skipped(trace, skip))

Platforms == {"WINDOWS", "PS3", "PS4", "ANDROID", "LINUX", "SWITCH", "XBOX360"}

getStackTrace(platform, frames, numFrames, skip, failures) ==
  CASE platform = "WINDOWS" -> Windows(frames, numFrames, skip, failures)
    [] platform = "PS3" -> PS3(frames, numFrames, skip, failures)
    [] platform = "PS4" -> PlayStation(frames, numFrames, skip)
    [] platform = "ANDROID" -> Android(frames, numFrames, skip)
    [] platform = "LINUX" -> Linux(frames, numFrames, skip)
    [] platform = "SWITCH" -> Switch(frames, numFrames, skip)
    [] platform = "XBOX360" -> Xbox360(frames, numFrames, skip, failures)
===============================================================================
