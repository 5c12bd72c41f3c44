------------------------------- MODULE Algorithms -------------------------------
(***************************************************************************)
(* The algorithms of rmem and of MinHook, each run on inputs from a set:   *)
(* the layout of a record, the list of modules, the capture of a stack,    *)
(* the trampoline of a hook.  Module Compression adds LZ4.                 *)
(***************************************************************************)
EXTENDS RecordLayout, StackCapture, Trampoline

CONSTANTS
  Records,    \* names' lengths, numbers of frames
  ModuleLists, ListBuffers,
  Stacks, FrameLimits,
  Functions   \* in the form of module Trampoline

ASSUME InputsAssumption ==
  /\ Records \subseteq Nat
  /\ ModuleLists \subseteq Seq(Nat) /\ ListBuffers \subseteq Nat \ {0}
  /\ Stacks \subseteq Seq(Nat) /\ FrameLimits \subseteq Nat
  /\ Functions \subseteq Code

VARIABLES subject, input, done, output

algorithmVars == <<subject, input, done, output>>

Init ==
  /\ done = FALSE /\ output = << >>
  /\ \/ /\ subject = "record"
        /\ input \in [name : Records, parent : Records \cup {-1}, ptr : PointerSizes,
                      numFrames : 0 .. RMEM_STACK_TRACE_MAX]
     \/ /\ subject = "modules"
        /\ input \in [platform : ListPlatforms, names : ModuleLists, size : ListBuffers,
                      error : BOOLEAN]
     \/ /\ subject = "trace"
        /\ input \in [platform : Platforms, frames : Stacks, numFrames : FrameLimits,
                      skip : {0, 1, 2}, failures : {0, 1, 2}]
     \/ /\ subject = "trampoline"
        /\ input \in Functions

Run(what) ==
  /\ subject = what /\ ~done /\ done' = TRUE
  /\ UNCHANGED <<subject, input>>

\* The records of every kind, for names of these lengths, pointers of this size and
\* a trace of this depth.
AllRecords(in) ==
  [ops |-> {Composed(Operations(in.ptr)[o]) + Composed(addStackTrace_new(in.ptr, in.numFrames)) :
              o \in DOMAIN Operations(in.ptr)},
   small |-> {Composed(registerThreadName(in.name)), Composed(tagScope), Composed(marker)},
   tag |-> Composed(registerTag(in.name, in.parent)),
   named |-> {Composed(registerMarker(in.name)), Composed(registerAllocator(in.name))},
   module |-> {Composed(registerModule(in.name, w)) : w \in {1, 2, 4}}]

Compose ==
  /\ Run("record")
  /\ output' = AllRecords(input)

ListModules ==
  /\ Run("modules")
  /\ output' = getModuleInfo(input.platform, input.names, input.size, input.error)

Capture ==
  /\ Run("trace")
  /\ output' = getStackTrace(input.platform, input.frames, input.numFrames, input.skip,
                             input.failures)

BuildTrampoline ==
  /\ Run("trampoline")
  /\ output' = CreateTrampolineFunction(input)

Next == Compose \/ ListModules \/ Capture \/ BuildTrampoline

Spec == Init /\ [][Next]_algorithmVars
-------------------------------------------------------------------------------
Done(what) == subject = what /\ done

\* Where getModuleInfo gives no list at all: an error on Xbox 360 and Android, a
\* list that does not fit on Xbox 360, and every platform it is not written for.
NoList(in, whole) ==
  \/ in.platform = "OTHER"
  \/ in.platform # "WINDOWS" /\ in.error
  \/ in.platform = "XBOX360" /\ whole > in.size

\* A record with the deepest stack trace fits OpBufferSize, as the static_assert
\* of rmem_hook.cpp has it for the longest operation; the records whose length
\* is tested or fixed fit their buffers.  Those of tags, markers and allocators are
\* not tested: they fit for names up to the lengths given here and for no longer
\* ones.  The list of modules stays in its buffer and ends with a whole entry, at
\* the first module that has no room, where there is a list.
RecordsFit ==
  /\ Done("record") =>
       /\ \A n \in output.ops : n <= OpBufferSize(input.ptr)
       /\ \A n \in output.small : n <= SmallBuffer
       /\ \A n \in output.module : n <= ModuleBuffer
       /\ output.tag <= SmallBuffer <=>
            IF input.parent < 0 THEN input.name <= SmallBuffer - 13
            ELSE input.name + input.parent <= SmallBuffer - 17
       /\ \A n \in output.named : n <= SmallBuffer <=> input.name <= SmallBuffer - 13
  /\ Done("modules") =>
       LET entries(k) == 1 + Composed([i \in 1 .. k |-> ModuleEntry(input.names[i])])
       IN  IF NoList(input, entries(Len(input.names))) THEN output.written = 0
           ELSE /\ output.written = entries(output.listed) /\ output.written <= input.size
                /\ output.listed < Len(input.names) => entries(output.listed + 1) > input.size

\* A captured trace is the frames from the one to skip to on, without a hole and
\* no more than were asked for; nothing is stored behind the caller's array.  On
\* PS3 and Xbox 360 that is so for stacks no deeper than the array.
FramesCaptured ==
  Done("trace") =>
    LET real == Skipped(input.frames, input.skip)
        shallow == Len(input.frames) <= input.numFrames /\ input.skip <= Len(input.frames)
        bias == IF input.platform = "PS4" THEN Bias ELSE 0
    IN  (input.platform \notin {"PS3", "XBOX360"} \/ shallow) =>
          /\ output.num <= input.numFrames
          /\ Len(output.stored) = output.num
          /\ \A i \in 1 .. output.num : output.stored[i] = real[i] - bias

\* The trampoline serves every thread the hook may find in the bytes it is going
\* to overwrite, stays in its slot, and keeps the jumps inside it.
TrampolineFaithful ==
  Done("trampoline") =>
    EveryThreadHasAPlace(input) /\ FitsSlot(input) /\ ForwardJumpsKept(input)
===============================================================================
