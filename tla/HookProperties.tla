--------------------------- MODULE HookProperties ---------------------------
(***************************************************************************)
(* What the recording core promises: the invariants, action properties and *)
(* liveness properties of MemoryHook.                                      *)
(***************************************************************************)
EXTENDS MemoryHook

-----------------------------------------------------------------------------
(* Where the bytes are that have been inserted and not yet written. *)

ThreadLabels == {"idle", "lockB", "waitIdle", "testIdle", "waitDone", "swap",
                 "post", "postJob", "unlockB", "lockF", "open", "nestedB", "write",
                 "stop", "join", "flushB", "close", "destroy", "unhook"}
WriterLabels == {"testJob", "waitJob", "lockF", "open", "write", "jobDone", "exited"}

\* The writer has taken its job and has not yet written it.
WriterReads == pc[Writer] \in {"lockF", "open", "write"}

Posted ==
  IF m_writeJobPtr # NONE /\ ~At(Writer, "jobDone")
  THEN Contents(Chunk(m_writeJobPtr, m_writeJobSize)) ELSE <<>>

\* Threads that hold a chunk which is neither posted nor written.
HasChunk(t) == \/ pc[t] \in {"post", "postJob", "lockF", "open", "nestedB", "write"}
               \/ Flushing(t) /\ pc[t] \in {"waitIdle", "testIdle", "waitDone"}
Holders == {t \in Threads : HasChunk(t)}

InHand == IF Holders = {} THEN <<>> ELSE Contents(src[CHOOSE t \in Holders : TRUE])

Active == Contents(Chunk(m_bufferPtr, m_bufferBytesWritten))

BytesOf(rec, bytes) == Sift(bytes, {b \in Bytes : b.rec = rec})

\* The bytes of the records that writeToFile has not dropped.
Kept == {b \in Bytes : b.rec \notin dropped}

-----------------------------------------------------------------------------
(* Invariants. *)

FileTypeOK ==
  /\ m_file \in BOOLEAN /\ m_excessBufferPtr \in BOOLEAN
  /\ excess \in Seq(Bytes) /\ disk \in Seq(Seq(Bytes)) /\ dropped \subseteq Nat
LockTypeOK ==
  /\ m_mutexInternalBufferPtrs \in Threads \cup {NONE}
  /\ m_mutexWriteToFile \in Actors \cup {NONE}
BufferTypeOK ==
  /\ m_bufferPtr \in Halves
  /\ m_bufferBytesWritten \in 0..(BufferSize - 1)
  /\ mem \in [{0, 1, Temp} -> [1..BufferSize -> Bytes]]
JobTypeOK == m_writeJobPtr \in Halves \cup {NONE} /\ m_writeJobSize \in 0..BufferSize
FlagTypeOK == m_writerStop \in BOOLEAN /\ m_writerStarted \in BOOLEAN
LifeTypeOK == hook \in BOOLEAN /\ destroyed \in BOOLEAN /\ mustSave \subseteq Nat
CallTypeOK ==
  /\ op \in [Actors -> {bytes \in Seq(Bytes) : Len(bytes) < BufferSize}]
  /\ calls \in Nat /\ log \in Seq(Bytes)
ActorTypeOK ==
  /\ pc \in [Actors -> ThreadLabels \cup WriterLabels]
  /\ src \in [Actors -> [buf : {0, 1, Temp}, size : 0..BufferSize]]

\* Types.  In particular no half ever holds more than BufferSize bytes: the
\* memcpy calls of writeToBuffer stay inside m_bufferData.
TypeOK ==
  /\ FileTypeOK /\ LockTypeOK /\ BufferTypeOK /\ JobTypeOK
  /\ FlagTypeOK /\ LifeTypeOK /\ CallTypeOK /\ ActorTypeOK

\* The half the writer is reading, or is about to be given, is never the half
\* the threads are filling: writerWaitIdle precedes every swap, so writerLoop
\* may read m_writeJobPtr without the buffer lock.
HalvesDisjoint ==
  /\ WriterReads => src[Writer].buf # m_bufferPtr
  /\ (m_writeJobPtr # NONE /\ ~At(Writer, "exited")) => m_writeJobPtr # m_bufferPtr

\* writerPost: "Caller guarantees the writer is idle (writerWaitIdle precedes
\* the buffer swap), so the job slot is free here."
JobSlotFree == \A t \in Threads : At(t, "postJob") => m_writeJobPtr = NONE

\* Every byte inserted so far is in exactly one place and in lock order: on
\* disk, in the excess buffer, posted, in a thread's hands or in the active
\* half; only whole chunks that writeToFile dropped are missing.
StreamIntact ==
  Saved \o Posted \o InHand \o Active = Sift(log, Kept)

\* writeToBuffer: "every chunk holds only whole records (lets the loader
\* decompress/parse chunks in parallel)", and no record is in two chunks.
WholeRecords ==
  \A i \in DOMAIN disk : \A r \in RecordsIn(disk[i]) :
    /\ BytesOf(r, disk[i]) = BytesOf(r, log)
    /\ \A j \in DOMAIN disk : r \in RecordsIn(disk[j]) => i = j

\* writeToFile never copies past the excess buffer, the last third of
\* m_bufferData, and only an excess buffer in use has contents.
ExcessWithinBuffer ==
  /\ Len(excess) <= BufferSize
  /\ excess # <<>> => m_excessBufferPtr

\* rmemShutDown: "Shut down memory library and flush data".  Once it has
\* returned, every record whose call had returned before it is in the file, but
\* for the chunks writeToFile dropped; a file that never opened leaves what
\* the excess buffer holds.
FlushData ==
  ~hook => mustSave \subseteq
             dropped \cup RecordsIn(IF disk = <<>> THEN excess ELSE FlattenSeq(disk))

\* The actor that a waits for: the owner of the lock it wants, or the writer
\* when it waits for the job slot or for the writer's end.
WaitsFor(a) ==
  CASE pc[a] \in {"lockB", "flushB", "nestedB"}
         -> {m_mutexInternalBufferPtrs} \ {a, NONE}
    [] At(a, "lockF") -> {m_mutexWriteToFile} \ {a, NONE}
    [] At(a, "waitDone") -> IF m_writeJobPtr = NONE THEN {} ELSE {Writer}
    [] At(a, "join") -> {Writer}
    [] OTHER -> {}

\* No actor waits, through any chain of others, for itself.  The comment on
\* s_tempBuffer takes it for granted that writing a file from inside a hook is
\* "single threaded operation which is guaranteed by a lock on a higher level".
NoWaitCycle ==
  LET Reach[n \in 0..Cardinality(Actors)] ==
        IF n = 0 THEN [a \in Actors |-> WaitsFor(a)]
        ELSE [a \in Actors |-> Reach[n - 1][a] \cup
                               UNION {WaitsFor(b) : b \in Reach[n - 1][a]}]
  IN \A a \in Actors : a \notin Reach[Cardinality(Actors)][a]

\* ~MemoryHook: "Stop (drain any posted job + join) the writer FIRST, so it
\* cannot pick up a late post and reopen/write the file after flush() has
\* closed it."
WriterGoneAtFlush == Flushing(Main) => At(Writer, "exited")

-----------------------------------------------------------------------------
(***************************************************************************)
(* The inductive invariant behind HalvesDisjoint and JobSlotFree: who may  *)
(* be where, what the buffer lock protects, and what m_writerStarted tells *)
(* a thread that reads it outside the writer's lock.                       *)
(***************************************************************************)

\* Each actor keeps to its own code.
OwnLabels == pc[Writer] \in WriterLabels /\ \A t \in Threads : pc[t] \in ThreadLabels

\* Only Main flushes, and it never records again afterwards.
OnlyMainFlushes == \A t \in Threads \ {Main} : ~Flushing(t)
FlushStages ==
  /\ Flushing(Main) =>
       \/ pc[Main] \in {"waitIdle", "lockF", "open", "nestedB", "write", "close",
                        "destroy", "unhook"}
       \/ At(Main, "idle") /\ ~hook
  /\ pc[Main] \in {"close", "destroy", "unhook"} => Flushing(Main)
  /\ destroyed => Flushing(Main) /\ pc[Main] \in {"unhook", "idle"}

\* A thread between a full half and its hand-over owns the buffer lock, until
\* the lock is destroyed under it.
SwapLabels == {"waitIdle", "testIdle", "waitDone", "swap", "post", "postJob"}
SwapsOwnLock ==
  \A t \in Threads :
    (pc[t] \in SwapLabels /\ ~Flushing(t)) =>
      m_mutexInternalBufferPtrs = t \/ destroyed

\* Without m_writerStarted there is no writer; and flush, which needs the
\* buffer lock, leaves no thread behind that relies on one.
StartedMeansWriter ==
  /\ ~m_writerStarted => At(Writer, "exited")
  /\ At(Main, "flushB") => ~m_writerStarted
  /\ Flushing(Main) =>
       /\ ~m_writerStarted
       /\ \A t \in Threads : pc[t] \notin {"testIdle", "waitDone", "postJob"}

\* The writer at work is at work on the posted job.
WriterHasJob ==
  (WriterReads \/ At(Writer, "jobDone")) =>
    m_writeJobPtr # NONE /\ m_writeJobPtr = src[Writer].buf

\* A thread that swaps has seen the slot empty, or no writer.
SlotSeenFree ==
  \A t \in Threads :
    pc[t] \in {"swap", "post"} => m_writeJobPtr = NONE \/ ~m_writerStarted

\* The chunk to be posted is the half that is not being filled.
OtherHalfInHand ==
  \A t \in Threads :
    pc[t] \in {"post", "postJob"} =>
      src[t].buf \in Halves /\ (src[t].buf # m_bufferPtr \/ destroyed)

ControlInv ==
  /\ OwnLabels /\ OnlyMainFlushes /\ FlushStages
  /\ SwapsOwnLock /\ StartedMeansWriter
  /\ WriterHasJob /\ SlotSeenFree /\ OtherHalfInHand
  /\ HalvesDisjoint /\ JobSlotFree

HandoffInv == TypeOK /\ ControlInv

-----------------------------------------------------------------------------
(***************************************************************************)
(* The inductive invariant behind StreamIntact, with the other threads at  *)
(* rest during the shutdown (Quiet): who may be where, what the memory     *)
(* holds besides what is in the stream, and that no record is in the       *)
(* stream twice.                                                           *)
(***************************************************************************)

\* From the beginning of the shutdown on every thread but Main is at rest, and
\* nothing else stops the writer.
ShuttingDown == pc[Main] \in {"stop", "join", "flushB"} \/ Flushing(Main)
OthersAtRest == ShuttingDown => \A t \in Threads \ {Main} : At(t, "idle")
StopMeansShutdown == m_writerStop => ShuttingDown /\ ~At(Main, "stop")

\* The writer ends when it is told to, or never began, and leaves no job undone.
ExitMeansNoJob ==
  At(Writer, "exited") => m_writeJobPtr = NONE /\ (m_writerStop \/ ~m_writerStarted)

\* A thread that writes the file itself does so because there is no writer, and
\* keeps the buffer lock meanwhile; so at most one thread has a chunk in hand.
FileLabels == {"lockF", "open", "nestedB", "write"}
WritesWithoutWriter ==
  \A t \in Threads : pc[t] \in FileLabels => ~m_writerStarted
InsideOwnLock ==
  \A t \in Threads :
    (pc[t] \in SwapLabels \cup FileLabels \cup {"unlockB"} /\ ~Flushing(t)) =>
      m_mutexInternalBufferPtrs = t
ReliesOnWriter ==
  \A t \in Threads :
    pc[t] \in {"testIdle", "waitDone", "postJob"} => m_writerStarted

QuietInv ==
  /\ OthersAtRest /\ StopMeansShutdown /\ ExitMeansNoJob
  /\ WritesWithoutWriter /\ InsideOwnLock /\ ReliesOnWriter

\* The chunk in hand is s_tempBuffer or the half that is not being filled.
HandOff ==
  \A t \in Holders : ~Flushing(t) => src[t].buf \in Halves \ {m_bufferPtr}

\* The writer works on the whole job and on nothing else.
WriterChunk == WriterReads => src[Writer] = Chunk(m_writeJobPtr, m_writeJobSize)

\* While its thread waits for the writer, a record that filled a half is in
\* that half but not yet in the stream.
BeforeSwap(t) ==
  pc[t] \in {"waitIdle", "testIdle", "waitDone", "swap"} /\ ~Flushing(t)
FullHalf ==
  \A t \in Threads :
    BeforeSwap(t) /\ src[t].size = BufferSize =>
      Contents(Chunk(m_bufferPtr, BufferSize)) = Active \o op[t]

\* Records on their way into the stream are new, and no two threads have the
\* same one.
Recording(t) == pc[t] \in {"lockB", "nestedB"} \/ BeforeSwap(t)
OneRecord(bytes) ==
  \E rec \in 1..calls, n \in 1..(BufferSize - 1) :
    bytes = RecordBytes(rec, n) /\ rec \notin RecordsIn(log)
NewRecords ==
  /\ \A t \in Threads : Recording(t) => OneRecord(op[t])
  /\ \A t, u \in Threads :
       Recording(t) /\ Recording(u) /\ t # u => RecordsIn(op[t]) \cap RecordsIn(op[u]) = {}
  /\ RecordsIn(log) \subseteq 0..calls
  /\ dropped \subseteq RecordsIn(log)

\* No record is in two of the places StreamIntact lists.
NoRecordTwice ==
  LET pieces == <<Saved, Posted, InHand, Active>>
  IN \A i, j \in 1..4 : i # j => RecordsIn(pieces[i]) \cap RecordsIn(pieces[j]) = {}

StreamInv ==
  /\ HandoffInv /\ QuietInv /\ HandOff /\ WriterChunk /\ FullHalf /\ NewRecords
  /\ ExcessWithinBuffer /\ StreamIntact /\ NoRecordTwice

-----------------------------------------------------------------------------
(***************************************************************************)
(* What NoWaitCycle needs besides: who owns a lock is inside it, and only  *)
(* where the allocations of fopen are hooked does the owner of the file    *)
(* lock ask for the buffer lock.                                           *)
(***************************************************************************)

LockInv ==
  /\ \A t \in Threads : m_mutexInternalBufferPtrs = t =>
       pc[t] \in SwapLabels \cup FileLabels \cup {"unlockB"} /\ ~Flushing(t)
  /\ \A a \in Actors : m_mutexWriteToFile = a => pc[a] \in FileLabels \ {"lockF"}
  /\ ~Reentrant => \A a \in Actors : ~At(a, "nestedB")

-----------------------------------------------------------------------------
(***************************************************************************)
(* What FlushData and WholeRecords need besides.                           *)
(***************************************************************************)

\* Once the file is open it stays open until flush closes it, so that nothing
\* waits in the excess buffer behind the chunks in the file.
FileOpenUntilClosed ==
  disk # <<>> => /\ excess = <<>>
                 /\ m_file \/ pc[Main] \in {"destroy", "unhook"} \/ ~hook

\* flush takes everything that has to be saved with it: what is recorded after
\* its snapshot was not complete when the shutdown began.
FlushInv ==
  /\ mustSave \subseteq RecordsIn(log)
  /\ Flushing(Main) => mustSave \cap RecordsIn(Active) = {}
  /\ ~hook => Flushing(Main) /\ At(Main, "idle")
  /\ FileOpenUntilClosed

\* No record is in two chunks, or in a chunk and in the excess buffer.
ChunksApart ==
  \A i \in DOMAIN disk :
    /\ RecordsIn(disk[i]) \cap RecordsIn(excess) = {}
    /\ \A j \in DOMAIN disk : i # j => RecordsIn(disk[i]) \cap RecordsIn(disk[j]) = {}

-----------------------------------------------------------------------------
(* Action properties. *)

\* After flush has closed the file nothing opens it or adds to it again.
ClosedForGood == [][pc[Main] \in {"destroy", "unhook"} => UNCHANGED <<m_file, disk>>]_vars

\* A chunk in the writer's hands does not change under it: no step of another
\* actor writes to the bytes the writer is reading.
ChunkStable ==
  [][(WriterReads /\ WriterReads') =>
       Contents(src[Writer])' = Contents(src[Writer])]_vars

-----------------------------------------------------------------------------
(* Refinement. *)

\* What flush's own fopen allocates is recorded after the snapshot, in a half
\* nobody writes any more.
InTime == IF Flushing(Main) THEN SubSeq(log, 1, Len(log) - Len(Active)) ELSE log

\* What the refinement needs besides StreamInv and FlushInv.
LogInv ==
  /\ Flushing(Main) => log = InTime \o Active
  /\ \A a \in Actors : At(a, "write") => m_file \/ OpenMayFail
  /\ calls <= MaxCalls

\* A record is in a stream of bytes once its last byte is, and is known by it.
Log == INSTANCE CaptureLog WITH
         Records <- {Byte(rec, TRUE) : rec \in 0..MaxCalls},
         MayLose <- OpenMayFail,
         recorded <- Sift(InTime, LastBytes \cap Kept),
         saved <- Sift(Saved, LastBytes),
         capturing <- hook

\* With the recording threads at rest during the shutdown, the double buffer,
\* the writer, flush and the excess buffer together are a log: what is saved is
\* always a prefix of what was inserted, by whole records; nothing saved, on
\* disk or waiting for the file to open, is ever lost or reordered; and of what
\* was inserted before flush took its snapshot nothing is left in the buffers
\* when rmemShutDown returns.
ImplementsLog == Log!Spec

-----------------------------------------------------------------------------
(* Liveness, under Fairness. *)

\* A recording call returns: the wait for the writer, the locks and the file
\* never hold the profiled program up for ever.
CallsReturn == \A t \in Threads : At(t, "lockB") ~> At(t, "idle")

\* rmemShutDown returns.
ShutdownCompletes == (pc[Main] \in {"stop", "flushB"}) ~> ~hook

\* What is posted is written, even if the shutdown begins meanwhile.
JobWritten == (m_writeJobPtr # NONE) ~> (m_writeJobPtr = NONE)
=============================================================================
