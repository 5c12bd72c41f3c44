-------------------------- MODULE MemoryHookProofs --------------------------
(***************************************************************************)
(* Proofs about the recording core, for any number of threads, any buffer  *)
(* size and any record sizes, whether or not the other threads stop before *)
(* the shutdown, and whether or not fopen fails or allocates.              *)
(***************************************************************************)
EXTENDS HookProperties, SequenceLemmas, TLAPS

USE DEF At, Goto, Halves, Temp

-----------------------------------------------------------------------------
(* Lemmas about the operators the model is built from. *)

\* A memcpy into a buffer leaves a buffer, wherever it begins.
LEMMA CopiedType ==
  ASSUME NEW buffer \in [1..BufferSize -> Bytes], NEW at \in Nat, NEW bytes \in Seq(Bytes)
  PROVE  Copied(buffer, at, bytes) \in [1..BufferSize -> Bytes]
<1> SUFFICES ASSUME NEW i \in 1..BufferSize
             PROVE  (IF i \in (at + 1)..(at + Len(bytes)) THEN bytes[i - at] ELSE buffer[i])
                      \in Bytes
  BY DEF Copied
<1> CASE i \in (at + 1)..(at + Len(bytes))
  <2>1. i - at \in 1..Len(bytes)
    BY LenProperties, BufferSizeAssumption
  <2> QED  BY <2>1, ElementOfSeq
<1> CASE i \notin (at + 1)..(at + Len(bytes))
  OBVIOUS
<1> QED  OBVIOUS

\* The bytes of a record are as many as it was given.
LEMMA RecordBytesType ==
  ASSUME NEW rec \in Nat, NEW n \in Nat
  PROVE  RecordBytes(rec, n) \in Seq(Bytes) /\ Len(RecordBytes(rec, n)) = n
<1>1. RecordBytes(rec, n) \in [1..n -> Bytes]
  BY DEF RecordBytes, Byte, Bytes
<1> QED  BY <1>1, SeqDef

\* The records in a run of bytes are numbers.
LEMMA RecordsInType ==
  ASSUME NEW bytes \in Seq(Bytes)
  PROVE  RecordsIn(bytes) \subseteq Nat
<1> SUFFICES ASSUME NEW i \in DOMAIN bytes PROVE bytes[i].rec \in Nat
  BY DEF RecordsIn
<1>1. bytes[i] \in Bytes
  BY ElementOfSeq, LenProperties
<1> QED  BY <1>1 DEF Bytes

\* What a chunk holds is as long as the chunk says.
LEMMA ContentsType ==
  ASSUME TypeOK, NEW c \in [buf : {0, 1, Temp}, size : 0..BufferSize]
  PROVE  Contents(c) \in Seq(Bytes) /\ Len(Contents(c)) = c.size
<1>1. mem[c.buf] \in [1..BufferSize -> Bytes]
  BY DEF TypeOK, BufferTypeOK
<1>2. \A i \in 1..c.size : mem[c.buf][i] \in Bytes
  BY <1>1, BufferSizeAssumption
<1>3. c.size \in Nat
  BY BufferSizeAssumption
<1> QED  BY <1>2, <1>3, SubSeqProperties DEF Contents

-----------------------------------------------------------------------------
(* Type correctness. *)

LEMMA TypeInit == Init => TypeOK
<1> SUFFICES ASSUME Init PROVE TypeOK
  OBVIOUS
<1>1. Header \in Seq(Bytes)
  BY RecordBytesType DEF Header
<1>2. FileTypeOK
  <2>1. excess \in Seq(Bytes) /\ disk \in Seq(Seq(Bytes))
    BY DEF Init, FileInit
  <2> QED  BY <2>1 DEF Init, FileInit, FileTypeOK
<1>3. LockTypeOK
  BY DEF Init, LockTypeOK
<1>4. BufferTypeOK
  <2> DEFINE blank == [i \in 1..BufferSize |-> NullByte]
  <2>1. blank \in [1..BufferSize -> Bytes]
    BY DEF NullByte, Byte, Bytes
  <2>2. Copied(blank, 0, Header) \in [1..BufferSize -> Bytes]
    BY <1>1, <2>1, CopiedType
  <2>3. mem = [b \in {0, 1, Temp} |-> IF b = 0 THEN Copied(blank, 0, Header) ELSE blank]
    BY DEF Init
  <2> HIDE DEF blank
  <2>4. mem \in [{0, 1, Temp} -> [1..BufferSize -> Bytes]]
    BY <2>1, <2>2, <2>3
  <2> QED  BY <2>4, HeaderAssumption, BufferSizeAssumption DEF Init, BufferTypeOK
<1>5. JobTypeOK /\ FlagTypeOK /\ LifeTypeOK
  <2>1. m_writeJobPtr = NONE /\ m_writeJobSize = 0
    BY DEF Init
  <2>2. m_writerStop = FALSE /\ m_writerStarted \in BOOLEAN
    BY DEF Init
  <2>3. hook = TRUE /\ destroyed = FALSE /\ mustSave = {}
    BY DEF Init
  <2>4. JobTypeOK
    BY <2>1, BufferSizeAssumption DEF JobTypeOK
  <2> QED  BY <2>2, <2>3, <2>4 DEF FlagTypeOK, LifeTypeOK
<1>6. CallTypeOK
  BY <1>1, BufferSizeAssumption DEF Init, CallTypeOK
<1>7. ActorTypeOK
  BY BufferSizeAssumption DEF Init, ActorTypeOK, Chunk, ThreadLabels, WriterLabels, Actors
<1> QED  BY <1>2, <1>3, <1>4, <1>5, <1>6, <1>7 DEF TypeOK

\* A part of the state that a step leaves alone keeps its type.
LEMMA TypeFrame ==
  ASSUME TypeOK
  PROVE  /\ UNCHANGED fileVars => FileTypeOK'
         /\ UNCHANGED lockVars => LockTypeOK'
         /\ UNCHANGED bufferVars => BufferTypeOK'
         /\ UNCHANGED jobVars => JobTypeOK'
         /\ UNCHANGED flagVars => FlagTypeOK'
         /\ UNCHANGED lifeVars => LifeTypeOK'
         /\ UNCHANGED callVars => CallTypeOK'
BY DEF TypeOK, FileTypeOK, LockTypeOK, BufferTypeOK, JobTypeOK, FlagTypeOK, LifeTypeOK,
       CallTypeOK, fileVars, lockVars, bufferVars, jobVars, flagVars, lifeVars, callVars

\* Moving an actor to another of its labels keeps the types of pc and src.
LEMMA GotoType ==
  ASSUME TypeOK, NEW a \in Actors, NEW l \in ThreadLabels \cup WriterLabels,
         Goto(a, l), UNCHANGED src
  PROVE  ActorTypeOK'
BY DEF TypeOK, ActorTypeOK

\* What a thread copies keeps the buffer and the log well typed.
LEMMA CopyType ==
  ASSUME TypeOK, NEW a \in Actors
  PROVE  /\ CopyToBuffer(a) => mem' \in [{0, 1, Temp} -> [1..BufferSize -> Bytes]]
         /\ log \o op[a] \in Seq(Bytes)
         /\ Len(op[a]) \in 0..(BufferSize - 1)
<1>1. op[a] \in Seq(Bytes) /\ Len(op[a]) < BufferSize
  BY DEF TypeOK, CallTypeOK
<1>2. m_bufferPtr \in {0, 1, Temp} /\ m_bufferBytesWritten \in Nat
  BY BufferSizeAssumption DEF TypeOK, BufferTypeOK
<1>3. mem[m_bufferPtr] \in [1..BufferSize -> Bytes]
  BY <1>2 DEF TypeOK, BufferTypeOK
<1>4. Copied(mem[m_bufferPtr], m_bufferBytesWritten, op[a]) \in [1..BufferSize -> Bytes]
  BY <1>1, <1>2, <1>3, CopiedType
<1>5. CopyToBuffer(a) => mem' \in [{0, 1, Temp} -> [1..BufferSize -> Bytes]]
  BY <1>4, <1>2 DEF CopyToBuffer, TypeOK, BufferTypeOK
<1>6. log \o op[a] \in Seq(Bytes)
  BY <1>1 DEF TypeOK, CallTypeOK
<1>7. Len(op[a]) \in 0..(BufferSize - 1)
  BY <1>1, LenProperties, BufferSizeAssumption
<1> QED  BY <1>5, <1>6, <1>7

\* The steps of a recording thread.
LEMMA TypeRecordStep ==
  ASSUME TypeOK, OtherHalfInHand, NEW t \in Threads, Call(t) \/ RecordStep(t)
  PROVE  TypeOK'
<1> USE DEF ThreadLabels, WriterLabels
<1> t \in Actors /\ Main \in Actors /\ Writer \in Actors
  BY MainAssumption DEF Actors
<1>1. CASE Call(t)
  <2>1. ActorTypeOK'
    BY <1>1, GotoType DEF Call
  <2>2. CallTypeOK'
    <3>1. calls + 1 \in Nat /\ calls' = calls + 1 /\ log' = log
      BY <1>1 DEF Call, TypeOK, CallTypeOK
    <3>2. PICK n \in RecordSizes : op' = [op EXCEPT ![t] = RecordBytes(calls + 1, n)]
      BY <1>1 DEF Call
    <3>3. n \in Nat /\ n < BufferSize
      BY RecordSizesAssumption, BufferSizeAssumption
    <3>4. RecordBytes(calls + 1, n) \in {bytes \in Seq(Bytes) : Len(bytes) < BufferSize}
      BY <3>1, <3>3, RecordBytesType
    <3> QED  BY <3>1, <3>2, <3>4 DEF TypeOK, CallTypeOK
  <2> QED  BY <1>1, <2>1, <2>2, TypeFrame DEF Call, TypeOK
<1>2. CASE AppendRecord(t)
  <2>1. ActorTypeOK'
    BY <1>2, GotoType DEF AppendRecord
  <2>2. mem' \in [{0, 1, Temp} -> [1..BufferSize -> Bytes]] /\ log' \in Seq(Bytes)
        /\ Len(op[t]) \in 0..(BufferSize - 1)
    BY <1>2, CopyType DEF AppendRecord
  <2>3. m_bufferBytesWritten' \in 0..(BufferSize - 1)
    BY <1>2, <2>2, BufferSizeAssumption
    DEF AppendRecord, Fits, Needed, TypeOK, BufferTypeOK
  <2>4. BufferTypeOK' /\ CallTypeOK'
    BY <1>2, <2>2, <2>3 DEF AppendRecord, TypeOK, BufferTypeOK, CallTypeOK
  <2> QED  BY <1>2, <2>1, <2>4, TypeFrame DEF AppendRecord, TypeOK
<1>3. CASE FillBuffer(t)
  <2>1. ActorTypeOK'
    BY <1>3, BufferSizeAssumption
    DEF FillBuffer, Chunk, TypeOK, ActorTypeOK, BufferTypeOK
  <2>2. BufferTypeOK'
    <3>1. mem' \in [{0, 1, Temp} -> [1..BufferSize -> Bytes]]
      BY <1>3, CopyType DEF FillBuffer
    <3> QED  BY <1>3, <3>1 DEF FillBuffer, TypeOK, BufferTypeOK
  <2>3. LockTypeOK'
    BY <1>3 DEF FillBuffer, TypeOK, LockTypeOK
  <2> QED  BY <1>3, <2>1, <2>2, <2>3, TypeFrame DEF FillBuffer, TypeOK
<1>4. CASE OverflowBuffer(t)
  <2>1. ActorTypeOK'
    BY <1>4, BufferSizeAssumption
    DEF OverflowBuffer, Chunk, TypeOK, ActorTypeOK, BufferTypeOK
  <2>2. LockTypeOK'
    BY <1>4 DEF OverflowBuffer, TypeOK, LockTypeOK
  <2> QED  BY <1>4, <2>1, <2>2, TypeFrame DEF OverflowBuffer, TypeOK
<1>5. CASE WaitIdle(t)
  <2>1. ActorTypeOK'
    BY <1>5, GotoType DEF WaitIdle, AfterIdle
  <2> QED  BY <1>5, <2>1, TypeFrame DEF WaitIdle, TypeOK
<1>6. CASE TestIdle(t)
  <2>1. ActorTypeOK'
    BY <1>6, GotoType DEF TestIdle, AfterIdle
  <2> QED  BY <1>6, <2>1, TypeFrame DEF TestIdle, TypeOK
<1>7. CASE SwapFull(t)
  <2>1. ActorTypeOK'
    BY <1>7, BufferSizeAssumption
    DEF SwapFull, doubleBuffer, Chunk, TypeOK, ActorTypeOK, BufferTypeOK
  <2>2. BufferTypeOK'
    BY <1>7, BufferSizeAssumption DEF SwapFull, doubleBuffer, TypeOK, BufferTypeOK
  <2>3. CallTypeOK'
    BY <1>7 DEF SwapFull, TypeOK, CallTypeOK
  <2> QED  BY <1>7, <2>1, <2>2, <2>3, TypeFrame DEF SwapFull, TypeOK
<1>8. CASE SwapPartial(t)
  <2>1. ActorTypeOK'
    BY <1>8, BufferSizeAssumption
    DEF SwapPartial, doubleBuffer, Chunk, TypeOK, ActorTypeOK, BufferTypeOK
  <2>2. op[t] \in Seq(Bytes) /\ Len(op[t]) \in 0..(BufferSize - 1)
    BY LenProperties, BufferSizeAssumption DEF TypeOK, CallTypeOK
  <2>3. BufferTypeOK'
    <3>1. 1 - m_bufferPtr \in {0, 1, Temp}
           /\ mem[1 - m_bufferPtr] \in [1..BufferSize -> Bytes]
      BY DEF TypeOK, BufferTypeOK
    <3>2. Copied(mem[1 - m_bufferPtr], 0, op[t]) \in [1..BufferSize -> Bytes]
      BY <2>2, <3>1, CopiedType
    <3> QED
      BY <1>8, <2>2, <3>1, <3>2 DEF SwapPartial, doubleBuffer, TypeOK, BufferTypeOK
  <2>4. CallTypeOK'
    BY <1>8, <2>2 DEF SwapPartial, TypeOK, CallTypeOK
  <2> QED  BY <1>8, <2>1, <2>3, <2>4, TypeFrame DEF SwapPartial, TypeOK
<1>9. CASE Post(t)
  <2>1. ActorTypeOK'
    BY <1>9, GotoType DEF Post
  <2> QED  BY <1>9, <2>1, TypeFrame DEF Post, TypeOK
<1>10. CASE PostJob(t)
  <2>1. ActorTypeOK'
    BY <1>10 DEF PostJob, WithWriterWoken, TypeOK, ActorTypeOK
  <2>2. JobTypeOK'
    BY <1>10 DEF PostJob, OtherHalfInHand, TypeOK, JobTypeOK, ActorTypeOK
  <2> QED  BY <1>10, <2>1, <2>2, TypeFrame DEF PostJob, TypeOK
<1>11. CASE UnlockB(t)
  <2>1. ActorTypeOK'
    BY <1>11, GotoType DEF UnlockB
  <2>2. LockTypeOK'
    BY <1>11 DEF UnlockB, Released, TypeOK, LockTypeOK
  <2> QED  BY <1>11, <2>1, <2>2, TypeFrame DEF UnlockB, TypeOK
<1> QED
  BY <1>1, <1>2, <1>3, <1>4, <1>5, <1>6, <1>7, <1>8, <1>9, <1>10, <1>11 DEF RecordStep

\* The steps of writeToFile.
LEMMA WriteChunkType ==
  ASSUME TypeOK, NEW bytes \in Seq(Bytes), NEW open \in BOOLEAN,
         WriteChunk(bytes, open), UNCHANGED m_file
  PROVE  FileTypeOK'
<1>1. m_file' \in BOOLEAN
  BY DEF TypeOK, FileTypeOK
<1>2. CASE WriteThrough(bytes)
  <2>1. <<bytes>> \in Seq(Seq(Bytes)) /\ <<excess>> \in Seq(Seq(Bytes))
    BY DEF TypeOK, FileTypeOK
  <2>2. (IF m_excessBufferPtr THEN <<excess>> ELSE <<>>) \in Seq(Seq(Bytes))
    BY <2>1
  <2>3. disk' \in Seq(Seq(Bytes))
    <3> DEFINE first == IF m_excessBufferPtr THEN <<excess>> ELSE <<>>
    <3>1. disk' = disk \o first \o <<bytes>> /\ disk \in Seq(Seq(Bytes))
      BY <1>2 DEF WriteThrough, TypeOK, FileTypeOK
    <3>2. first \in Seq(Seq(Bytes))
      BY <2>2
    <3> HIDE DEF first
    <3>3. disk \o first \in Seq(Seq(Bytes))
      BY <3>1, <3>2, ConcatProperties
    <3> QED  BY <2>1, <3>1, <3>3, ConcatProperties
  <2>4. m_excessBufferPtr' = FALSE /\ excess' = <<>> /\ dropped' = dropped
    BY <1>2 DEF WriteThrough
  <2>5. excess' \in Seq(Bytes)
    BY <2>4
  <2> QED  BY <1>1, <2>3, <2>4, <2>5 DEF TypeOK, FileTypeOK
<1>3. CASE KeepExcess(bytes)
  <2>1. excess' \in Seq(Bytes)
    BY <1>3, ConcatProperties DEF KeepExcess, TypeOK, FileTypeOK
  <2> QED  BY <1>1, <1>3, <2>1 DEF KeepExcess, TypeOK, FileTypeOK
<1>4. CASE DropChunk(bytes)
  BY <1>1, <1>4, RecordsInType DEF DropChunk, TypeOK, FileTypeOK
<1> QED  BY <1>2, <1>3, <1>4 DEF WriteChunk

LEMMA TypeFileStep ==
  ASSUME TypeOK, NEW a \in Actors, FileStep(a) \/ NestedCall(a) \/ SpuriousWake(a)
  PROVE  TypeOK'
<1> USE DEF ThreadLabels, WriterLabels
<1>1. CASE LockFile(a)
  <2>1. ActorTypeOK'
    BY <1>1, GotoType DEF LockFile
  <2>2. LockTypeOK'
    BY <1>1 DEF LockFile, TypeOK, LockTypeOK
  <2> QED  BY <1>1, <2>1, <2>2, TypeFrame DEF LockFile, TypeOK
<1>2. CASE Fopen(a)
  <2>1. ActorTypeOK'
    BY <1>2, GotoType DEF Fopen
  <2>2. FileTypeOK'
    BY <1>2 DEF Fopen, OpenFile, FopenOutcomes, TypeOK, FileTypeOK
  <2> QED  BY <1>2, <2>1, <2>2, TypeFrame DEF Fopen, TypeOK
<1>3. CASE WriteToFile(a)
  <2>1. ActorTypeOK'
    BY <1>3, GotoType DEF WriteToFile, AfterWrite
  <2>2. Contents(src[a]) \in Seq(Bytes) /\ m_file \in BOOLEAN
    BY ContentsType DEF TypeOK, ActorTypeOK, FileTypeOK
  <2>3. FileTypeOK'
    BY <1>3, <2>2, WriteChunkType DEF WriteToFile
  <2>4. LockTypeOK'
    BY <1>3 DEF WriteToFile, Released, TypeOK, LockTypeOK
  <2> QED  BY <1>3, <2>1, <2>3, <2>4, TypeFrame DEF WriteToFile, TypeOK
<1>4. CASE NestedRecord(a)
  <2>1. ActorTypeOK'
    BY <1>4, GotoType DEF NestedRecord
  <2>2. mem' \in [{0, 1, Temp} -> [1..BufferSize -> Bytes]] /\ log' \in Seq(Bytes)
        /\ Len(op[a]) \in 0..(BufferSize - 1)
    BY <1>4, CopyType DEF NestedRecord
  <2>3. m_bufferBytesWritten' \in 0..(BufferSize - 1)
    BY <1>4, <2>2, BufferSizeAssumption
    DEF NestedRecord, Fits, Needed, TypeOK, BufferTypeOK
  <2>4. BufferTypeOK' /\ CallTypeOK'
    BY <1>4, <2>2, <2>3 DEF NestedRecord, TypeOK, BufferTypeOK, CallTypeOK
  <2> QED  BY <1>4, <2>1, <2>4, TypeFrame DEF NestedRecord, TypeOK
<1>5. CASE NestedCall(a)
  <2>1. ActorTypeOK'
    BY <1>5, GotoType DEF NestedCall
  <2>2. calls + 1 \in Nat
    BY DEF TypeOK, CallTypeOK
  <2>3. RecordBytes(calls + 1, 1) \in {bytes \in Seq(Bytes) : Len(bytes) < BufferSize}
    BY <2>2, RecordBytesType, HeaderAssumption
  <2>4. CallTypeOK'
    BY <1>5, <2>2, <2>3 DEF NestedCall, TypeOK, CallTypeOK
  <2> QED  BY <1>5, <2>1, <2>4, TypeFrame DEF NestedCall, TypeOK
<1>6. CASE SpuriousWake(a)
  <2>1. ActorTypeOK'
    BY <1>6, GotoType DEF SpuriousWake, AfterWake
  <2> QED  BY <1>6, <2>1, TypeFrame DEF SpuriousWake, TypeOK
<1> QED  BY <1>1, <1>2, <1>3, <1>4, <1>5, <1>6 DEF FileStep

LEMMA TypeWriterStep ==
  ASSUME TypeOK, WriterStep
  PROVE  TypeOK'
<1> USE DEF ThreadLabels, WriterLabels
<1> Writer \in Actors /\ Threads \subseteq Actors
  BY DEF Actors
<1>1. CASE TakeJob
  <2>1. ActorTypeOK'
    BY <1>1 DEF TakeJob, Chunk, TypeOK, ActorTypeOK, JobTypeOK
  <2> QED  BY <1>1, <2>1, TypeFrame DEF TakeJob, TypeOK
<1>2. CASE NoJob
  <2>1. ActorTypeOK'
    BY <1>2, GotoType DEF NoJob
  <2> QED  BY <1>2, <2>1, TypeFrame DEF NoJob, TypeOK
<1>3. CASE JobDone
  <2>1. ActorTypeOK'
    BY <1>3 DEF JobDone, WithOneWoken, AfterWake, TypeOK, ActorTypeOK
  <2>2. JobTypeOK'
    BY <1>3 DEF JobDone, TypeOK, JobTypeOK
  <2> QED  BY <1>3, <2>1, <2>2, TypeFrame DEF JobDone, TypeOK
<1> QED  BY <1>1, <1>2, <1>3 DEF WriterStep

LEMMA TypeShutdownStep ==
  ASSUME TypeOK, ShutdownStep \/ rmemShutDown
  PROVE  TypeOK'
<1> USE DEF ThreadLabels, WriterLabels
<1> Main \in Actors /\ Writer \in Actors
  BY MainAssumption DEF Actors
<1>1. CASE rmemShutDown
  <2>1. ActorTypeOK'
    BY <1>1, GotoType DEF rmemShutDown, FirstStep
  <2>2. Complete \subseteq Nat
    BY RecordsInType DEF Complete, TypeOK, CallTypeOK
  <2>3. LifeTypeOK'
    BY <1>1, <2>2 DEF rmemShutDown, TypeOK, LifeTypeOK
  <2> QED  BY <1>1, <2>1, <2>3, TypeFrame DEF rmemShutDown, TypeOK
<1>2. CASE writerStop
  <2>1. ActorTypeOK'
    BY <1>2 DEF writerStop, WithWriterWoken, TypeOK, ActorTypeOK
  <2>2. FlagTypeOK'
    BY <1>2 DEF writerStop, TypeOK, FlagTypeOK
  <2> QED  BY <1>2, <2>1, <2>2, TypeFrame DEF writerStop, TypeOK
<1>3. CASE writerJoin
  <2>1. ActorTypeOK'
    BY <1>3, GotoType DEF writerJoin
  <2>2. FlagTypeOK'
    BY <1>3 DEF writerJoin, TypeOK, FlagTypeOK
  <2> QED  BY <1>3, <2>1, <2>2, TypeFrame DEF writerJoin, TypeOK
<1>4. CASE flushSnapshot
  <2>1. ActorTypeOK'
    BY <1>4, BufferSizeAssumption
    DEF flushSnapshot, Chunk, TypeOK, ActorTypeOK, BufferTypeOK
  <2>2. BufferTypeOK'
    <3> DEFINE bytes == Contents(Chunk(m_bufferPtr, m_bufferBytesWritten))
    <3>1. Chunk(m_bufferPtr, m_bufferBytesWritten)
            \in [buf : {0, 1, Temp}, size : 0..BufferSize]
      BY BufferSizeAssumption DEF Chunk, TypeOK, BufferTypeOK
    <3>2. bytes \in Seq(Bytes) /\ mem[Temp] \in [1..BufferSize -> Bytes]
      BY <3>1, ContentsType DEF TypeOK, BufferTypeOK
    <3>3. Copied(mem[Temp], 0, bytes) \in [1..BufferSize -> Bytes]
      BY <3>2, CopiedType
    <3>4. mem' = [mem EXCEPT ![Temp] = Copied(mem[Temp], 0, bytes)]
      BY <1>4 DEF flushSnapshot, Contents, Chunk
    <3> HIDE DEF bytes
    <3>5. m_bufferPtr' = m_bufferPtr /\ m_bufferBytesWritten' = 0
      BY <1>4 DEF flushSnapshot
    <3>6. mem \in [{0, 1, Temp} -> [1..BufferSize -> Bytes]] /\ m_bufferPtr \in Halves
      BY DEF TypeOK, BufferTypeOK
    <3>7. 0 \in 0..(BufferSize - 1)
      BY BufferSizeAssumption
    <3> QED  BY <3>3, <3>4, <3>5, <3>6, <3>7 DEF BufferTypeOK
  <2> QED  BY <1>4, <2>1, <2>2, TypeFrame DEF flushSnapshot, TypeOK
<1>5. CASE flushClose
  <2>1. ActorTypeOK'
    BY <1>5, GotoType DEF flushClose
  <2>2. FileTypeOK'
    BY <1>5 DEF flushClose, CloseFile, TypeOK, FileTypeOK
  <2> QED  BY <1>5, <2>1, <2>2, TypeFrame DEF flushClose, TypeOK
<1>6. CASE destroyLocks
  <2>1. ActorTypeOK'
    BY <1>6, GotoType DEF destroyLocks
  <2>2. LifeTypeOK'
    BY <1>6 DEF destroyLocks, TypeOK, LifeTypeOK
  <2> QED  BY <1>6, <2>1, <2>2, TypeFrame DEF destroyLocks, TypeOK
<1>7. CASE unhook
  <2>1. ActorTypeOK'
    BY <1>7, GotoType DEF unhook
  <2>2. LifeTypeOK'
    BY <1>7 DEF unhook, TypeOK, LifeTypeOK
  <2> QED  BY <1>7, <2>1, <2>2, TypeFrame DEF unhook, TypeOK
<1> QED  BY <1>1, <1>2, <1>3, <1>4, <1>5, <1>6, <1>7 DEF ShutdownStep

LEMMA TypeStep ==
  ASSUME TypeOK, OtherHalfInHand, [Next]_vars
  PROVE  TypeOK'
<1>1. CASE \E t \in Threads : Call(t) \/ RecordStep(t)
  BY <1>1, TypeRecordStep
<1>2. CASE \E a \in Actors : FileStep(a) \/ NestedCall(a) \/ SpuriousWake(a)
  BY <1>2, TypeFileStep
<1>3. CASE WriterStep
  BY <1>3, TypeWriterStep
<1>4. CASE ShutdownStep \/ rmemShutDown
  BY <1>4, TypeShutdownStep
<1>5. CASE UNCHANGED vars
  BY <1>5, TypeFrame DEF vars, TypeOK, ActorTypeOK
<1> QED  BY <1>1, <1>2, <1>3, <1>4, <1>5 DEF Next, Ended

-----------------------------------------------------------------------------
(* The hand-over between the recording threads and the writer. *)

LEMMA ControlInit == Init => ControlInv
BY SMTT(30), MainAssumption, WriterAssumption, NoneAssumption
DEF Init, ControlInv, Actors, Chunk, OwnLabels, OnlyMainFlushes, FlushStages,
    SwapsOwnLock, StartedMeansWriter, WriterHasJob, SlotSeenFree, OtherHalfInHand,
    HalvesDisjoint, JobSlotFree, WriterReads, Flushing, SwapLabels, ThreadLabels,
    WriterLabels

LEMMA ControlRecordStep ==
  ASSUME HandoffInv, NEW t \in Threads, Call(t) \/ RecordStep(t)
  PROVE  ControlInv'
<1> USE MainAssumption, WriterAssumption, NoneAssumption
    DEF HandoffInv, TypeOK, LockTypeOK, BufferTypeOK, JobTypeOK, ActorTypeOK, Actors,
    ControlInv, OwnLabels, OnlyMainFlushes, FlushStages,
    SwapsOwnLock, StartedMeansWriter, WriterHasJob, SlotSeenFree, OtherHalfInHand,
    HalvesDisjoint, JobSlotFree, WriterReads, Flushing, SwapLabels, ThreadLabels,
    WriterLabels, fileVars, lockVars, bufferVars, jobVars, flagVars, lifeVars, callVars
<1>1. CASE Call(t)
  BY SMTT(30), <1>1 DEF Call
<1>2. CASE AppendRecord(t)
  BY SMTT(30), <1>2 DEF AppendRecord
<1>3. CASE FillBuffer(t)
  BY SMTT(30), <1>3 DEF FillBuffer, LockFree, Chunk
<1>4. CASE OverflowBuffer(t)
  BY SMTT(30), <1>4 DEF OverflowBuffer, LockFree, Chunk
<1>5. CASE WaitIdle(t)
  BY <1>5 DEF WaitIdle, AfterIdle
<1>6. CASE TestIdle(t)
  BY SMTT(30), <1>6 DEF TestIdle, AfterIdle, JobPending
<1>7. CASE SwapFull(t)
  <2>1. m_writeJobPtr = NONE \/ At(Writer, "exited")
    BY <1>7 DEF SwapFull
  <2>2. ~WriterReads /\ (m_writeJobPtr # NONE => At(Writer, "exited"))
    BY <2>1
  <2>3. HalvesDisjoint'
    BY <1>7, <2>2 DEF SwapFull
  <2>4. OtherHalfInHand'
    BY SMTT(30), <1>7 DEF SwapFull, doubleBuffer, Chunk
  <2> QED  BY SMTT(30), <1>7, <2>3, <2>4 DEF SwapFull, doubleBuffer, Chunk
<1>8. CASE SwapPartial(t)
  <2>1. m_writeJobPtr = NONE \/ At(Writer, "exited")
    BY <1>8 DEF SwapPartial
  <2>2. ~WriterReads /\ (m_writeJobPtr # NONE => At(Writer, "exited"))
    BY <2>1
  <2>3. HalvesDisjoint'
    BY <1>8, <2>2 DEF SwapPartial
  <2>4. OtherHalfInHand'
    BY SMTT(60), <1>8 DEF SwapPartial, doubleBuffer, Chunk
  <2> QED  BY SMTT(30), <1>8, <2>3, <2>4 DEF SwapPartial, doubleBuffer, Chunk
<1>9. CASE Post(t)
  BY SMTT(30), <1>9 DEF Post
<1>10. CASE PostJob(t)
  <2>1. ~destroyed /\ m_mutexInternalBufferPtrs = t
    BY <1>10 DEF PostJob
  <2>2. \A u \in Threads \ {t} : pc[u] \notin {"swap", "post", "postJob"}
    BY <2>1
  <2>3. m_writeJobPtr = NONE /\ ~WriterReads /\ ~At(Writer, "jobDone")
    BY <1>10 DEF PostJob
  <2>4. HalvesDisjoint' /\ WriterHasJob'
    BY <1>10, <2>1, <2>3 DEF PostJob, WithWriterWoken
  <2>5. JobSlotFree' /\ SlotSeenFree'
    BY ZenonT(30), <1>10, <2>2 DEF PostJob, WithWriterWoken
  <2> QED  BY SMTT(60), <1>10, <2>4, <2>5 DEF PostJob, WithWriterWoken
<1>11. CASE UnlockB(t)
  BY SMTT(30), <1>11 DEF UnlockB, Released
<1> QED  BY <1>1, <1>2, <1>3, <1>4, <1>5, <1>6, <1>7, <1>8, <1>9, <1>10, <1>11 DEF RecordStep

LEMMA ControlFileStep ==
  ASSUME HandoffInv, NEW a \in Actors, FileStep(a) \/ NestedCall(a) \/ SpuriousWake(a)
  PROVE  ControlInv'
<1> USE MainAssumption, WriterAssumption, NoneAssumption
    DEF HandoffInv, TypeOK, LockTypeOK, BufferTypeOK, JobTypeOK, ActorTypeOK, Actors,
    ControlInv, OwnLabels, OnlyMainFlushes, FlushStages,
    SwapsOwnLock, StartedMeansWriter, WriterHasJob, SlotSeenFree, OtherHalfInHand,
    HalvesDisjoint, JobSlotFree, WriterReads, Flushing, SwapLabels, ThreadLabels,
    WriterLabels, fileVars, lockVars, bufferVars, jobVars, flagVars, lifeVars, callVars
<1>1. CASE LockFile(a)
  BY <1>1 DEF LockFile, LockFree
<1>2. CASE Fopen(a)
  BY SMTT(30), <1>2 DEF Fopen
<1>3. CASE WriteToFile(a)
  BY <1>3 DEF WriteToFile, AfterWrite, Released
<1>4. CASE NestedRecord(a)
  BY SMTT(30), <1>4 DEF NestedRecord
<1>5. CASE NestedCall(a)
  BY ZenonT(30), <1>5 DEF NestedCall, Suppressed
<1>6. CASE SpuriousWake(a)
  <2>1. OwnLabels' /\ OnlyMainFlushes' /\ FlushStages'
    BY ZenonT(30), <1>6 DEF SpuriousWake, AfterWake
  <2>2. SwapsOwnLock'
    BY <1>6 DEF SpuriousWake, AfterWake
  <2>3. StartedMeansWriter'
    BY <1>6 DEF SpuriousWake, AfterWake
  <2>4. WriterHasJob' /\ HalvesDisjoint'
    BY <1>6 DEF SpuriousWake, AfterWake
  <2>5. SlotSeenFree' /\ OtherHalfInHand' /\ JobSlotFree'
    BY SMTT(30), <1>6 DEF SpuriousWake, AfterWake
  <2> QED  BY <2>1, <2>2, <2>3, <2>4, <2>5
<1> QED  BY <1>1, <1>2, <1>3, <1>4, <1>5, <1>6 DEF FileStep

LEMMA ControlWriterStep ==
  ASSUME HandoffInv, WriterStep
  PROVE  ControlInv'
<1> USE MainAssumption, WriterAssumption, NoneAssumption
    DEF HandoffInv, TypeOK, LockTypeOK, BufferTypeOK, JobTypeOK, ActorTypeOK, Actors,
    ControlInv, OwnLabels, OnlyMainFlushes, FlushStages,
    SwapsOwnLock, StartedMeansWriter, WriterHasJob, SlotSeenFree, OtherHalfInHand,
    HalvesDisjoint, JobSlotFree, WriterReads, Flushing, SwapLabels, ThreadLabels,
    WriterLabels, fileVars, lockVars, bufferVars, jobVars, flagVars, lifeVars, callVars
<1>1. CASE TakeJob
  <2>1. HalvesDisjoint'
    BY <1>1 DEF TakeJob, Chunk
  <2>2. WriterHasJob'
    BY <1>1 DEF TakeJob, Chunk
  <2> QED  BY <1>1, <2>1, <2>2 DEF TakeJob, Chunk
<1>2. CASE NoJob
  BY SMTT(30), <1>2 DEF NoJob, WriterExits, WriterSleeps
<1>3. CASE JobDone
  BY SMTT(30), <1>3 DEF JobDone, WithOneWoken, AfterWake
<1> QED  BY <1>1, <1>2, <1>3 DEF WriterStep

LEMMA ControlShutdownStep ==
  ASSUME HandoffInv, ShutdownStep \/ rmemShutDown
  PROVE  ControlInv'
<1> USE MainAssumption, WriterAssumption, NoneAssumption
    DEF HandoffInv, TypeOK, LockTypeOK, BufferTypeOK, JobTypeOK, ActorTypeOK, Actors,
    ControlInv, OwnLabels, OnlyMainFlushes, FlushStages,
    SwapsOwnLock, StartedMeansWriter, WriterHasJob, SlotSeenFree, OtherHalfInHand,
    HalvesDisjoint, JobSlotFree, WriterReads, Flushing, SwapLabels, ThreadLabels,
    WriterLabels, fileVars, lockVars, bufferVars, jobVars, flagVars, lifeVars, callVars
<1>1. CASE rmemShutDown
  BY <1>1 DEF rmemShutDown, FirstStep
<1>2. CASE writerStop
  BY SMTT(30), <1>2 DEF writerStop, WithWriterWoken
<1>3. CASE writerJoin
  BY <1>3 DEF writerJoin, WriterJoined
<1>4. CASE flushSnapshot
  <2>1. m_mutexInternalBufferPtrs = NONE /\ ~destroyed
    BY <1>4 DEF flushSnapshot, LockFree
  <2>2. \A t \in Threads : pc[t] \notin {"testIdle", "waitDone", "postJob"}
    BY <1>4, <2>1 DEF flushSnapshot
  <2>3. StartedMeansWriter'
    BY <1>4, <2>2 DEF flushSnapshot, Chunk
  <2> QED  BY <1>4, <2>3 DEF flushSnapshot, Chunk
<1>5. CASE flushClose
  BY <1>5 DEF flushClose
<1>6. CASE destroyLocks
  BY <1>6 DEF destroyLocks
<1>7. CASE unhook
  BY <1>7 DEF unhook
<1> QED  BY <1>1, <1>2, <1>3, <1>4, <1>5, <1>6, <1>7 DEF ShutdownStep

LEMMA ControlStep ==
  ASSUME HandoffInv, [Next]_vars
  PROVE  ControlInv'
<1>1. CASE \E t \in Threads : Call(t) \/ RecordStep(t)
  BY <1>1, ControlRecordStep
<1>2. CASE \E a \in Actors : FileStep(a) \/ NestedCall(a) \/ SpuriousWake(a)
  BY <1>2, ControlFileStep
<1>3. CASE WriterStep
  BY <1>3, ControlWriterStep
<1>4. CASE ShutdownStep \/ rmemShutDown
  BY <1>4, ControlShutdownStep
<1>5. CASE UNCHANGED vars
  BY <1>5
  DEF HandoffInv, ControlInv, OwnLabels, OnlyMainFlushes, FlushStages, SwapsOwnLock,
      StartedMeansWriter, WriterHasJob, SlotSeenFree, OtherHalfInHand, HalvesDisjoint,
      JobSlotFree, WriterReads, Flushing, vars, lockVars, bufferVars, jobVars, flagVars,
      lifeVars
<1> QED  BY <1>1, <1>2, <1>3, <1>4, <1>5 DEF Next, Ended

\* The inductive invariant holds in every reachable state.
THEOREM HandoffInvariant == Spec => []HandoffInv
<1>1. Init => HandoffInv
  BY TypeInit, ControlInit DEF HandoffInv
<1>2. HandoffInv /\ [Next]_vars => HandoffInv'
  BY TypeStep, ControlStep DEF HandoffInv, ControlInv
<1> QED  BY <1>1, <1>2, PTL DEF Spec

\* Every variable keeps its type.  In particular writeToBuffer never writes past
\* the end of a half, whatever the sizes of the records, and flush never past
\* the end of s_tempBuffer.
THEOREM TypeCorrect == Spec => []TypeOK
<1>1. HandoffInv => TypeOK
  BY DEF HandoffInv
<1> QED  BY <1>1, HandoffInvariant, PTL

\* The writer never reads, and is never given, the half that writeToBuffer fills.
THEOREM HandoffDisjoint == Spec => []HalvesDisjoint
<1>1. HandoffInv => HalvesDisjoint
  BY DEF HandoffInv, ControlInv
<1> QED  BY <1>1, HandoffInvariant, PTL

\* writerPost never overwrites a job that has not been done.
THEOREM HandoffSlotFree == Spec => []JobSlotFree
<1>1. HandoffInv => JobSlotFree
  BY DEF HandoffInv, ControlInv
<1> QED  BY <1>1, HandoffInvariant, PTL

\* By the time flush has taken its snapshot the writer has ended, so nothing can
\* reopen the file behind it.
THEOREM FlushAfterWriter == Spec => []WriterGoneAtFlush
<1>1. HandoffInv => WriterGoneAtFlush
  BY DEF HandoffInv, ControlInv, StartedMeansWriter, WriterGoneAtFlush
<1> QED  BY <1>1, HandoffInvariant, PTL

-----------------------------------------------------------------------------
(* What follows from the hand-over for the bytes, and the excess buffer. *)

\* A step that leaves the writer's half and its chunk alone leaves the contents.
LEMMA SameContents ==
  ASSUME src'[Writer] = src[Writer], mem'[src[Writer].buf] = mem[src[Writer].buf]
  PROVE  Contents(src[Writer])' = Contents(src[Writer])
BY DEF Contents

LEMMA StableStep ==
  ASSUME HandoffInv, [Next]_vars, WriterReads, WriterReads'
  PROVE  Contents(src[Writer])' = Contents(src[Writer])
<1> Writer \in Actors /\ Threads \subseteq Actors
  BY DEF Actors
<1> USE WriterAssumption DEF TypeOK, ActorTypeOK, BufferTypeOK
<1>1. /\ TypeOK
      /\ src[Writer].buf \in Halves /\ src[Writer].buf # m_bufferPtr
      /\ m_writeJobPtr # NONE /\ m_writerStarted
  BY DEF HandoffInv, ControlInv, WriterHasJob, HalvesDisjoint, JobTypeOK, WriterReads,
         StartedMeansWriter
<1>2. ASSUME NEW a \in Actors, CopyToBuffer(a), UNCHANGED src
      PROVE  Contents(src[Writer])' = Contents(src[Writer])
  BY <1>1, <1>2, SameContents DEF CopyToBuffer
<1>3. ASSUME NEW t \in Threads, Call(t) \/ RecordStep(t)
      PROVE  Contents(src[Writer])' = Contents(src[Writer])
  <2> t # Writer /\ t \in Actors
    OBVIOUS
  <2>1. CASE AppendRecord(t)
    BY <1>2, <2>1 DEF AppendRecord
  <2>2. CASE FillBuffer(t)
    BY <1>1, <2>2, SameContents DEF FillBuffer, CopyToBuffer
  <2>3. CASE OverflowBuffer(t)
    BY <2>3, SameContents DEF OverflowBuffer, bufferVars
  <2>4. CASE SwapFull(t)
    BY <2>4, SameContents DEF SwapFull, doubleBuffer
  <2>5. CASE SwapPartial(t)
    \* No thread is about to swap while the writer reads.
    BY <1>1, <2>5 DEF SwapPartial, HandoffInv, ControlInv, SlotSeenFree
  <2>6. CASE Call(t) \/ WaitIdle(t) \/ TestIdle(t) \/ Post(t) \/ PostJob(t) \/ UnlockB(t)
    BY <2>6, SameContents DEF Call, WaitIdle, TestIdle, Post, PostJob, UnlockB, bufferVars
  <2> QED  BY <1>3, <2>1, <2>2, <2>3, <2>4, <2>5, <2>6 DEF RecordStep
<1>4. ASSUME NEW a \in Actors, FileStep(a) \/ NestedCall(a) \/ SpuriousWake(a)
      PROVE  Contents(src[Writer])' = Contents(src[Writer])
  <2>1. CASE NestedRecord(a)
    BY <1>2, <2>1 DEF NestedRecord
  <2>2. CASE LockFile(a) \/ Fopen(a) \/ WriteToFile(a) \/ NestedCall(a) \/ SpuriousWake(a)
    BY <2>2, SameContents
    DEF LockFile, Fopen, WriteToFile, NestedCall, SpuriousWake, bufferVars
  <2> QED  BY <1>4, <2>1, <2>2 DEF FileStep
<1>5. CASE WriterStep
  <2>1. ~TakeJob
    BY DEF TakeJob, WriterReads
  <2> QED
    BY <1>5, <2>1, SameContents DEF WriterStep, NoJob, JobDone, bufferVars
<1>6. CASE ShutdownStep \/ rmemShutDown
  <2> Main # Writer
    BY MainAssumption
  <2>1. CASE flushSnapshot
    BY <1>1, <2>1, SameContents DEF flushSnapshot
  <2>2. CASE \/ rmemShutDown \/ writerStop \/ writerJoin
             \/ flushClose \/ destroyLocks \/ unhook
    BY <2>2, SameContents
    DEF rmemShutDown, writerStop, writerJoin, flushClose, destroyLocks, unhook, bufferVars
  <2> QED  BY <1>6, <2>1, <2>2 DEF ShutdownStep
<1>7. CASE UNCHANGED vars
  BY <1>7, SameContents DEF vars, bufferVars
<1> QED  BY <1>3, <1>4, <1>5, <1>6, <1>7 DEF Next, Ended

\* No step changes the bytes that the writer is compressing and writing, although
\* it reads them without the buffer lock.
THEOREM StableChunks == Spec => ChunkStable
<1>1. HandoffInv /\ [Next]_vars =>
        [(WriterReads /\ WriterReads') =>
           Contents(src[Writer])' = Contents(src[Writer])]_vars
  BY StableStep
<1> QED  BY <1>1, HandoffInvariant, PTL DEF Spec, ChunkStable

LEMMA ExcessStep ==
  ASSUME HandoffInv, ExcessWithinBuffer, [Next]_vars
  PROVE  ExcessWithinBuffer'
<1>1. CASE UNCHANGED <<m_excessBufferPtr, excess>>
  BY <1>1 DEF ExcessWithinBuffer
<1>2. ASSUME NEW a \in Actors, WriteToFile(a)
      PROVE  ExcessWithinBuffer'
  <2> DEFINE bytes == Contents(src[a])
  <2>1. bytes \in Seq(Bytes) /\ excess \in Seq(Bytes)
    BY ContentsType DEF HandoffInv, TypeOK, ActorTypeOK, FileTypeOK
  <2>2. WriteChunk(bytes, m_file)
    BY <1>2 DEF WriteToFile
  <2> HIDE DEF bytes
  <2>3. CASE WriteThrough(bytes)
    BY <2>3, BufferSizeAssumption DEF WriteThrough, ExcessWithinBuffer
  <2>4. CASE ExcessFits(bytes) /\ KeepExcess(bytes)
    BY <2>1, <2>4, ConcatProperties DEF ExcessFits, KeepExcess, ExcessWithinBuffer
  <2>5. CASE DropChunk(bytes)
    BY <2>5 DEF DropChunk, ExcessWithinBuffer
  <2> QED  BY <2>2, <2>3, <2>4, <2>5 DEF WriteChunk
<1>3. CASE \E a \in Actors : FileStep(a) /\ ~WriteToFile(a)
  BY <1>1, <1>3 DEF FileStep, LockFile, Fopen, NestedRecord, fileVars
<1>4. CASE \E t \in Threads : Call(t) \/ RecordStep(t)
  BY <1>1, <1>4
  DEF Call, RecordStep, AppendRecord, FillBuffer, OverflowBuffer, WaitIdle, TestIdle,
      SwapFull, SwapPartial, Post, PostJob, UnlockB, fileVars
<1>5. CASE \E a \in Actors : NestedCall(a) \/ SpuriousWake(a)
  BY <1>1, <1>5 DEF NestedCall, SpuriousWake, fileVars
<1>6. CASE WriterStep
  BY <1>1, <1>6 DEF WriterStep, TakeJob, NoJob, JobDone, fileVars
<1>7. CASE ShutdownStep \/ rmemShutDown
  BY <1>1, <1>7
  DEF ShutdownStep, rmemShutDown, writerStop, writerJoin, flushSnapshot, flushClose,
      CloseFile, destroyLocks, unhook, fileVars
<1>8. CASE UNCHANGED vars
  BY <1>1, <1>8 DEF vars, fileVars
<1> QED  BY <1>2, <1>3, <1>4, <1>5, <1>6, <1>7, <1>8 DEF Next, Ended

\* writeToFile never writes past the end of the excess buffer, however long the
\* file cannot be opened.
THEOREM ExcessBounded == Spec => []ExcessWithinBuffer
<1>1. Init => ExcessWithinBuffer
  BY BufferSizeAssumption DEF Init, FileInit, ExcessWithinBuffer
<1>2. HandoffInv /\ ExcessWithinBuffer /\ [Next]_vars => ExcessWithinBuffer'
  BY ExcessStep
<1> QED  BY <1>1, <1>2, HandoffInvariant, PTL DEF Spec

-----------------------------------------------------------------------------
(* The bytes of the capture: with the other threads at rest during the shutdown, *)
(* everything inserted reaches the file once, in lock order and by whole        *)
(* records, and the recording core implements a log.                            *)

(* Who may be where: QuietInv. *)

LEMMA QuietInit == Init => QuietInv
BY SMTT(30), MainAssumption, WriterAssumption, NoneAssumption
DEF Init, QuietInv, OthersAtRest, StopMeansShutdown, ExitMeansNoJob, WritesWithoutWriter,
    InsideOwnLock, ReliesOnWriter, ShuttingDown, FileLabels, SwapLabels, Actors, Chunk,
    Flushing

LEMMA QuietRecordStep ==
  ASSUME Quiet, HandoffInv, QuietInv, NEW t \in Threads, Call(t) \/ RecordStep(t)
  PROVE  QuietInv'
<1> USE MainAssumption, WriterAssumption, NoneAssumption
    DEF HandoffInv, TypeOK, LockTypeOK, BufferTypeOK, JobTypeOK, FlagTypeOK, ActorTypeOK, Actors,
    ControlInv, OwnLabels, OnlyMainFlushes, FlushStages, OtherHalfInHand,
    StartedMeansWriter, Flushing, SwapLabels, ThreadLabels, WriterLabels,
    QuietInv, OthersAtRest, StopMeansShutdown, ExitMeansNoJob, WritesWithoutWriter,
    InsideOwnLock, ReliesOnWriter, ShuttingDown, FileLabels,
    fileVars, lockVars, bufferVars, jobVars, flagVars, lifeVars, callVars
<1>1. CASE Call(t)
  BY <1>1 DEF Call
<1>2. CASE AppendRecord(t)
  BY <1>2 DEF AppendRecord
<1>3. CASE FillBuffer(t)
  <2>1. ~destroyed
    BY <1>3 DEF FillBuffer
  <2>2. m_mutexInternalBufferPtrs = NONE
    BY <1>3, <2>1 DEF FillBuffer, LockFree
  <2>3. \A u \in Threads : ~(pc[u] \in SwapLabels \cup FileLabels \cup {"unlockB"} /\ ~Flushing(u))
    BY <2>2
  <2>4. InsideOwnLock'
    BY <1>3, <2>3 DEF FillBuffer, Chunk
  <2>5. OthersAtRest' /\ StopMeansShutdown' /\ ExitMeansNoJob' /\ WritesWithoutWriter' /\ ReliesOnWriter'
    BY <1>3 DEF FillBuffer, Chunk
  <2> QED  BY <2>4, <2>5
<1>4. CASE OverflowBuffer(t)
  <2>1. ~destroyed
    BY <1>4 DEF OverflowBuffer
  <2>2. m_mutexInternalBufferPtrs = NONE
    BY <1>4, <2>1 DEF OverflowBuffer, LockFree
  <2>3. \A u \in Threads : ~(pc[u] \in SwapLabels \cup FileLabels \cup {"unlockB"} /\ ~Flushing(u))
    BY <2>2
  <2>4. InsideOwnLock'
    BY <1>4, <2>3 DEF OverflowBuffer, Chunk
  <2>5. OthersAtRest' /\ StopMeansShutdown' /\ ExitMeansNoJob' /\ WritesWithoutWriter' /\ ReliesOnWriter'
    BY SMTT(30), <1>4 DEF OverflowBuffer, Chunk
  <2> QED  BY <2>4, <2>5
<1>5. CASE WaitIdle(t)
  BY <1>5 DEF WaitIdle, AfterIdle
<1>6. CASE TestIdle(t)
  BY <1>6 DEF TestIdle, AfterIdle, JobPending
<1>7. CASE SwapFull(t)
  BY SMTT(30), <1>7 DEF SwapFull, doubleBuffer, Chunk
<1>8. CASE SwapPartial(t)
  BY SMTT(60), <1>8 DEF SwapPartial, doubleBuffer, Chunk
<1>9. CASE Post(t)
  BY <1>9 DEF Post
<1>10. CASE PostJob(t)
  BY SMTT(30), <1>10 DEF PostJob, WithWriterWoken
<1>11. CASE UnlockB(t)
  BY SMTT(30), <1>11 DEF UnlockB, Released
<1> QED  BY <1>1, <1>2, <1>3, <1>4, <1>5, <1>6, <1>7, <1>8, <1>9, <1>10, <1>11 DEF RecordStep

LEMMA QuietFileStep ==
  ASSUME Quiet, HandoffInv, QuietInv,
         NEW a \in Actors, FileStep(a) \/ NestedCall(a) \/ SpuriousWake(a)
  PROVE  QuietInv'
<1> USE MainAssumption, WriterAssumption, NoneAssumption
    DEF HandoffInv, TypeOK, LockTypeOK, BufferTypeOK, JobTypeOK, FlagTypeOK, ActorTypeOK, Actors,
    ControlInv, OwnLabels, OnlyMainFlushes, FlushStages, OtherHalfInHand,
    StartedMeansWriter, Flushing, SwapLabels, ThreadLabels, WriterLabels,
    QuietInv, OthersAtRest, StopMeansShutdown, ExitMeansNoJob, WritesWithoutWriter,
    InsideOwnLock, ReliesOnWriter, ShuttingDown, FileLabels,
    fileVars, lockVars, bufferVars, jobVars, flagVars, lifeVars, callVars
<1>1. CASE LockFile(a)
  BY <1>1 DEF LockFile, LockFree
<1>2. CASE Fopen(a)
  BY <1>2 DEF Fopen
<1>3. CASE WriteToFile(a)
  BY <1>3 DEF WriteToFile, AfterWrite, Released
<1>4. CASE NestedRecord(a)
  BY <1>4 DEF NestedRecord
<1>5. CASE NestedCall(a)
  BY SMTT(30), <1>5 DEF NestedCall, Suppressed
<1>6. CASE SpuriousWake(a)
  BY SMTT(30), <1>6 DEF SpuriousWake, AfterWake
<1> QED  BY <1>1, <1>2, <1>3, <1>4, <1>5, <1>6 DEF FileStep

LEMMA QuietOtherStep ==
  ASSUME Quiet, HandoffInv, QuietInv, WriterStep \/ ShutdownStep \/ rmemShutDown
  PROVE  QuietInv'
<1> USE MainAssumption, WriterAssumption, NoneAssumption
    DEF HandoffInv, TypeOK, LockTypeOK, BufferTypeOK, JobTypeOK, FlagTypeOK, ActorTypeOK, Actors,
    ControlInv, OwnLabels, OnlyMainFlushes, FlushStages, OtherHalfInHand,
    StartedMeansWriter, Flushing, SwapLabels, ThreadLabels, WriterLabels,
    QuietInv, OthersAtRest, StopMeansShutdown, ExitMeansNoJob, WritesWithoutWriter,
    InsideOwnLock, ReliesOnWriter, ShuttingDown, FileLabels,
    fileVars, lockVars, bufferVars, jobVars, flagVars, lifeVars, callVars
<1>1. CASE TakeJob
  BY <1>1 DEF TakeJob, Chunk
<1>2. CASE NoJob
  BY <1>2 DEF NoJob, WriterExits, WriterSleeps
<1>3. CASE JobDone
  BY SMTT(30), <1>3 DEF JobDone, WithOneWoken, AfterWake
<1>4. CASE rmemShutDown
  BY <1>4 DEF rmemShutDown, FirstStep
<1>5. CASE writerStop
  BY <1>5 DEF writerStop, WithWriterWoken
<1>6. CASE writerJoin
  BY <1>6 DEF writerJoin, WriterJoined
<1>7. CASE flushSnapshot
  BY <1>7 DEF flushSnapshot, Chunk
<1>8. CASE flushClose
  BY <1>8 DEF flushClose
<1>9. CASE destroyLocks
  BY <1>9 DEF destroyLocks
<1>10. CASE unhook
  BY <1>10 DEF unhook
<1> QED
  BY <1>1, <1>2, <1>3, <1>4, <1>5, <1>6, <1>7, <1>8, <1>9, <1>10 DEF WriterStep, ShutdownStep

LEMMA QuietStep ==
  ASSUME Quiet, HandoffInv, QuietInv, [Next]_vars
  PROVE  QuietInv'
<1>1. CASE \E t \in Threads : Call(t) \/ RecordStep(t)
  BY <1>1, QuietRecordStep
<1>2. CASE \E a \in Actors : FileStep(a) \/ NestedCall(a) \/ SpuriousWake(a)
  BY <1>2, QuietFileStep
<1>3. CASE WriterStep \/ ShutdownStep \/ rmemShutDown
  BY <1>3, QuietOtherStep
<1>4. CASE UNCHANGED vars
  BY <1>4
  DEF QuietInv, OthersAtRest, StopMeansShutdown, ExitMeansNoJob, WritesWithoutWriter,
      InsideOwnLock, ReliesOnWriter, ShuttingDown, Flushing, vars, lockVars, jobVars,
      flagVars
<1> QED  BY <1>1, <1>2, <1>3, <1>4 DEF Next, Ended

\* QuietInv is inductive together with HandoffInv.
LEMMA QuietInvariant ==
  ASSUME Quiet
  PROVE  Spec => [](HandoffInv /\ QuietInv)
<1>1. Init => QuietInv
  BY QuietInit
<1>2. HandoffInv /\ QuietInv /\ [Next]_vars => QuietInv'
  BY QuietStep
<1> QED  BY <1>1, <1>2, HandoffInvariant, PTL DEF Spec

\* Once flush has closed the file nothing opens it or adds to it again: the writer
\* has ended and no thread is inside writeToFile.
THEOREM FileClosedForGood ==
  ASSUME Quiet
  PROVE  Spec => ClosedForGood
<1>1. HandoffInv /\ QuietInv /\ [Next]_vars =>
        [pc[Main] \in {"destroy", "unhook"} => UNCHANGED <<m_file, disk>>]_vars
  <2> SUFFICES ASSUME HandoffInv, QuietInv, Next, pc[Main] \in {"destroy", "unhook"}
               PROVE  UNCHANGED <<m_file, disk>>
    BY DEF vars, fileVars
  <2>1. \A a \in Actors : pc[a] \notin {"open", "write"}
    BY MainAssumption
    DEF HandoffInv, ControlInv, FlushStages, OwnLabels, StartedMeansWriter,
        QuietInv, OthersAtRest, ShuttingDown, Actors
  <2>2. ASSUME NEW t \in Threads, Call(t) \/ RecordStep(t)
        PROVE  UNCHANGED <<m_file, disk>>
    BY <2>2
    DEF Call, RecordStep, AppendRecord, FillBuffer, OverflowBuffer, WaitIdle, TestIdle,
        SwapFull, SwapPartial, Post, PostJob, UnlockB, fileVars
  <2>3. ASSUME NEW a \in Actors, FileStep(a) \/ NestedCall(a) \/ SpuriousWake(a)
        PROVE  UNCHANGED <<m_file, disk>>
    BY <2>1, <2>3
    DEF FileStep, LockFile, Fopen, WriteToFile, NestedRecord, NestedCall, SpuriousWake,
        fileVars
  <2>4. CASE WriterStep
    BY <2>4 DEF WriterStep, TakeJob, NoJob, JobDone, fileVars
  <2>5. CASE ShutdownStep \/ rmemShutDown
    BY <2>5
    DEF ShutdownStep, rmemShutDown, writerStop, writerJoin, flushSnapshot, flushClose,
        destroyLocks, unhook, fileVars
  <2>6. CASE UNCHANGED vars
    BY <2>6 DEF vars, fileVars
  <2> QED  BY <2>2, <2>3, <2>4, <2>5, <2>6 DEF Next, Ended
<1> QED  BY <1>1, QuietInvariant, PTL DEF Spec, ClosedForGood

-----------------------------------------------------------------------------
(* Lemmas about bytes. *)

\* The bytes of the records that are not in D.
Keep(D) == {b \in Bytes : b.rec \notin D}

LEMMA RecordsInEmpty == RecordsIn(<< >>) = {}
BY DEF RecordsIn

LEMMA RecordsInConcat ==
  ASSUME NEW a \in Seq(Bytes), NEW b \in Seq(Bytes)
  PROVE  RecordsIn(a \o b) = RecordsIn(a) \cup RecordsIn(b)
<1> DEFINE c == a \o b
<1>1. /\ DOMAIN a = 1..Len(a) /\ DOMAIN b = 1..Len(b) /\ DOMAIN c = 1..(Len(a) + Len(b))
      /\ Len(a) \in Nat /\ Len(b) \in Nat
  BY ConcatProperties, LenProperties
<1>2. \A i \in 1..Len(a) : i \in DOMAIN c /\ c[i] = a[i]
  BY <1>1, ConcatProperties
<1>3. \A i \in 1..Len(b) : Len(a) + i \in DOMAIN c /\ c[Len(a) + i] = b[i]
  BY <1>1, ConcatProperties
<1>4. \A i \in DOMAIN c : \/ i \in DOMAIN a /\ c[i] = a[i]
                          \/ i - Len(a) \in DOMAIN b /\ c[i] = b[i - Len(a)]
  BY <1>1, ConcatProperties
<1> HIDE DEF c
<1>5. RecordsIn(c) \subseteq RecordsIn(a) \cup RecordsIn(b)
  BY <1>4 DEF RecordsIn
<1>6. RecordsIn(a) \subseteq RecordsIn(c)
  BY <1>1, <1>2 DEF RecordsIn
<1>7. RecordsIn(b) \subseteq RecordsIn(c)
  <2>1. \A i \in DOMAIN b : \E j \in DOMAIN c : b[i] = c[j]
    BY <1>1, <1>3
  <2> QED  BY <2>1 DEF RecordsIn
<1> QED  BY <1>5, <1>6, <1>7 DEF c

LEMMA RecordsInRecord ==
  ASSUME NEW rec \in Nat, NEW n \in Nat \ {0}
  PROVE  RecordsIn(RecordBytes(rec, n)) = {rec}
<1>1. DOMAIN RecordBytes(rec, n) = 1..n /\ 1 \in 1..n
  BY DEF RecordBytes
<1>2. \A i \in 1..n : RecordBytes(rec, n)[i].rec = rec
  BY DEF RecordBytes, Byte
<1> QED  BY <1>1, <1>2 DEF RecordsIn

\* Every byte is kept, or none is.
LEMMA KeepAll ==
  ASSUME NEW bytes \in Seq(Bytes), NEW D, RecordsIn(bytes) \cap D = {}
  PROVE  Sift(bytes, Keep(D)) = bytes
<1>1. \A i \in DOMAIN bytes : bytes[i] \in Bytes /\ bytes[i].rec \in RecordsIn(bytes)
  BY ElementOfSeq, LenProperties DEF RecordsIn
<1>2. \A i \in DOMAIN bytes : bytes[i] \in Keep(D)
  BY <1>1 DEF Keep
<1> QED  BY <1>2, SiftAll

LEMMA KeepNone ==
  ASSUME NEW bytes \in Seq(Bytes), NEW D, RecordsIn(bytes) \subseteq D
  PROVE  Sift(bytes, Keep(D)) = << >>
<1>1. \A i \in DOMAIN bytes : bytes[i].rec \in RecordsIn(bytes)
  BY DEF RecordsIn
<1>2. \A i \in DOMAIN bytes : bytes[i] \notin Keep(D)
  BY <1>1 DEF Keep
<1> QED  BY <1>2, SiftNone

\* Dropping records twice is dropping both.
LEMMA KeepTwice ==
  ASSUME NEW bytes \in Seq(Bytes), NEW D, NEW E
  PROVE  Sift(Sift(bytes, Keep(D)), Keep(E)) = Sift(bytes, Keep(D \cup E))
<1> DEFINE K == Keep(D)
           L == Keep(E)
<1>1. K \cap L = Keep(D \cup E)
  BY DEF Keep
<1> HIDE DEF K, L
<1>2. Sift(Sift(bytes, K), L) = Sift(bytes, K \cap L)
  BY SiftTwice
<1> QED  BY <1>1, <1>2 DEF K, L

LEMMA SiftRecords ==
  ASSUME NEW bytes \in Seq(Bytes), NEW S
  PROVE  \A r \in RecordsIn(Sift(bytes, S)) :
           \E i \in DOMAIN bytes : bytes[i].rec = r /\ bytes[i] \in S
<1> DEFINE kept == Sift(bytes, S)
<1>1. Range(kept) = Range(bytes) \cap S
  BY SiftRange
<1> HIDE DEF kept
<1>2. \A i \in DOMAIN kept : kept[i] \in Range(bytes) /\ kept[i] \in S
  BY <1>1 DEF Range
<1> QED  BY <1>2 DEF RecordsIn, Range, kept

LEMMA KeepRecords ==
  ASSUME NEW bytes \in Seq(Bytes), NEW D
  PROVE  RecordsIn(Sift(bytes, Keep(D))) = RecordsIn(bytes) \ D
<1> DEFINE kept == Sift(bytes, Keep(D))
<1>1. Range(kept) = Range(bytes) \cap Keep(D)
  BY SiftRange
<1>2. \A i \in DOMAIN bytes : bytes[i] \in Bytes
  BY ElementOfSeq, LenProperties
<1> HIDE DEF kept
<1>3. RecordsIn(kept) = {b.rec : b \in Range(kept)}
  BY DEF RecordsIn, Range
<1>4. RecordsIn(bytes) = {b.rec : b \in Range(bytes)}
  BY DEF RecordsIn, Range
<1>5. \A b \in Range(bytes) : b \in Keep(D) <=> b.rec \notin D
  BY <1>2 DEF Keep, Range
<1>6. RecordsIn(kept) = RecordsIn(bytes) \ D
  BY <1>1, <1>3, <1>4, <1>5
<1> QED  BY <1>6 DEF kept

\* A record ends once.
LEMMA LastOfRecord ==
  ASSUME NEW rec \in Nat, NEW n \in Nat \ {0}
  PROVE  Sift(RecordBytes(rec, n), LastBytes) = <<Byte(rec, TRUE)>>
<1> DEFINE r == RecordBytes(rec, n)
<1>1. r \in Seq(Bytes) /\ Len(r) = n /\ r # << >>
  BY RecordBytesType
<1>2. \A i \in 1..n : r[i] \in LastBytes <=> i = n
  BY DEF RecordBytes, LastBytes, Bytes, Byte
<1>3. r[n] = Byte(rec, TRUE)
  <2>1. n \in 1..n /\ (n = n) = TRUE
    OBVIOUS
  <2> QED  BY <2>1 DEF RecordBytes, Byte
<1> HIDE DEF r
<1>4. Sift(r, LastBytes) = <<r[n]>>
  BY <1>1, <1>2, SiftLast
<1> QED  BY <1>3, <1>4 DEF r

\* A memcpy behind the first bytes of a buffer adds to them, and changes nothing
\* before them.
LEMMA CopiedBehind ==
  ASSUME NEW buffer \in [1..BufferSize -> Bytes], NEW at \in Nat,
         NEW bytes \in Seq(Bytes), at + Len(bytes) <= BufferSize
  PROVE  /\ SubSeq(Copied(buffer, at, bytes), 1, at + Len(bytes)) =
              SubSeq(buffer, 1, at) \o bytes
         /\ SubSeq(Copied(buffer, at, bytes), 1, at) = SubSeq(buffer, 1, at)
<1> DEFINE n == at + Len(bytes)
           c == Copied(buffer, at, bytes)
<1>1. c \in [1..BufferSize -> Bytes] /\ n \in Nat /\ Len(bytes) \in Nat
  BY CopiedType, LenProperties
<1>2. /\ \A i \in 1..at : c[i] = buffer[i]
      /\ \A i \in (at + 1)..n : c[i] = bytes[i - at]
  BY BufferSizeAssumption, <1>1 DEF Copied
<1> HIDE DEF c
<1>3. /\ SubSeq(c, 1, n) \in Seq(Bytes) /\ Len(SubSeq(c, 1, n)) = n
      /\ \A i \in 1..n : SubSeq(c, 1, n)[i] = c[i]
  <2>1. \A i \in 1..n : c[i] \in Bytes
    BY <1>1, BufferSizeAssumption
  <2> QED  BY <1>1, <2>1, SubSeqProperties
<1>4. /\ SubSeq(buffer, 1, at) \in Seq(Bytes) /\ Len(SubSeq(buffer, 1, at)) = at
      /\ \A i \in 1..at : SubSeq(buffer, 1, at)[i] = buffer[i]
  <2>1. \A i \in 1..at : buffer[i] \in Bytes
    BY <1>1, BufferSizeAssumption
  <2> QED  BY <1>1, <2>1, SubSeqProperties
<1>5. /\ SubSeq(c, 1, at) \in Seq(Bytes) /\ Len(SubSeq(c, 1, at)) = at
      /\ \A i \in 1..at : SubSeq(c, 1, at)[i] = c[i]
  <2>1. \A i \in 1..at : c[i] \in Bytes
    BY <1>1, BufferSizeAssumption
  <2> QED  BY <1>1, <2>1, SubSeqProperties
<1>6. SubSeq(c, 1, at) = SubSeq(buffer, 1, at)
  BY <1>2, <1>4, <1>5, SeqEqual
<1>7. SubSeq(c, 1, n) = SubSeq(buffer, 1, at) \o bytes
  <2> DEFINE s == SubSeq(buffer, 1, at)
             u == s \o bytes
             v == SubSeq(c, 1, n)
  <2>1. u \in Seq(Bytes) /\ Len(u) = n
        /\ \A i \in 1..n : u[i] = IF i <= at THEN s[i] ELSE bytes[i - at]
    <3>1. s \in Seq(Bytes) /\ Len(s) = at
      BY <1>4
    <3> HIDE DEF s
    <3> QED  BY <1>1, <3>1, ConcatProperties
  <2>2. \A i \in 1..n : v[i] = IF i <= at THEN buffer[i] ELSE bytes[i - at]
    BY <1>1, <1>2, <1>3
  <2>3. \A i \in 1..n : i <= at => s[i] = buffer[i]
    BY <1>1, <1>4
  <2> HIDE DEF s, u, v
  <2>4. \A i \in 1..n : u[i] = v[i]
    BY <1>1, <2>1, <2>2, <2>3
  <2>5. u = v
    BY <1>3, <2>1, <2>4, SeqEqual DEF v
  <2> QED  BY <2>5 DEF s, u, v
<1> QED  BY <1>6, <1>7 DEF c

-----------------------------------------------------------------------------
(***************************************************************************)
(* What a step does to the stream: the parts that StreamIntact puts        *)
(* together, what has been inserted and what has been dropped.             *)
(***************************************************************************)

Stays == UNCHANGED <<Saved, Posted, InHand, Active, log, dropped>>

\* x is appended to the active half.
Inserts(x) ==
  /\ Active' = Active \o x /\ log' = log \o x
  /\ UNCHANGED <<Saved, Posted, InHand, dropped>>

\* The active half is taken in hand, x goes with it or into the other half.  flush
\* never swaps.
Swaps(x) ==
  /\ InHand = << >> /\ ~Flushing(Main)
  /\ \/ InHand' = Active \o x /\ Active' = << >>
     \/ InHand' = Active /\ Active' = x
  /\ log' = log \o x
  /\ UNCHANGED <<Saved, Posted, dropped>>

\* flush takes what is in the active half.
Drains ==
  /\ ~Flushing(Main)
  /\ InHand = << >> /\ InHand' = Active /\ Active' = << >>
  /\ UNCHANGED <<Saved, Posted, log, dropped>>

Posts ==
  /\ Posted = << >> /\ Posted' = InHand /\ InHand' = << >>
  /\ UNCHANGED <<Saved, Active, log, dropped>>

\* The chunk c, posted or in hand, is written or dropped.
Leaves(c) ==
  \/ c = Posted /\ Posted' = << >> /\ UNCHANGED InHand
  \/ c = InHand /\ InHand' = << >> /\ Posted = << >> /\ Posted' = << >>
Saves(c) == Leaves(c) /\ Saved' = Saved \o c /\ UNCHANGED <<Active, log, dropped>>
Loses(c) ==
  /\ Leaves(c)
  /\ ~m_file /\ \E a \in Actors : At(a, "write")
  /\ dropped' = dropped \cup RecordsIn(c)
  /\ UNCHANGED <<Saved, Active, log>>

\* The parts of the stream are sequences of bytes.
LEMMA StreamTypes ==
  ASSUME TypeOK
  PROVE  /\ Saved \in Seq(Bytes) /\ Posted \in Seq(Bytes)
         /\ InHand \in Seq(Bytes) /\ Active \in Seq(Bytes)
         /\ log \in Seq(Bytes)
<1>1. Saved \in Seq(Bytes)
  BY FlattenType, ConcatProperties DEF TypeOK, FileTypeOK, Saved
<1>2. << >> \in Seq(Bytes)
  OBVIOUS
<1>3. Posted \in Seq(Bytes)
  <2>1. CASE m_writeJobPtr # NONE
    <3>1. Chunk(m_writeJobPtr, m_writeJobSize) \in [buf : {0, 1, Temp}, size : 0..BufferSize]
      BY <2>1 DEF TypeOK, JobTypeOK, Chunk
    <3> QED  BY <1>2, <3>1, ContentsType DEF Posted
  <2>2. CASE m_writeJobPtr = NONE
    BY <1>2, <2>2 DEF Posted
  <2> QED  BY <2>1, <2>2
<1>4. InHand \in Seq(Bytes)
  <2>1. CASE Holders # {}
    <3> DEFINE t == CHOOSE t \in Holders : TRUE
    <3>1. t \in Holders
      BY <2>1
    <3>2. t \in Threads
      BY <3>1 DEF Holders
    <3>3. src[t] \in [buf : {0, 1, Temp}, size : 0..BufferSize]
      BY <3>2 DEF TypeOK, ActorTypeOK, Actors
    <3>4. Contents(src[t]) \in Seq(Bytes)
      BY <3>3, ContentsType
    <3> QED  BY <2>1, <3>4 DEF InHand
  <2>2. CASE Holders = {}
    BY <1>2, <2>2 DEF InHand
  <2> QED  BY <2>1, <2>2
<1>5. Active \in Seq(Bytes) /\ log \in Seq(Bytes)
  <2>1. Chunk(m_bufferPtr, m_bufferBytesWritten) \in [buf : {0, 1, Temp}, size : 0..BufferSize]
    BY BufferSizeAssumption DEF TypeOK, BufferTypeOK, Chunk
  <2> QED  BY <2>1, ContentsType DEF Active, TypeOK, CallTypeOK
<1> QED  BY <1>1, <1>3, <1>4, <1>5

\* One thread at a time has a chunk in hand.
LEMMA OneHolder ==
  ASSUME HandoffInv, QuietInv, NEW t \in Holders
  PROVE  /\ t \in Threads
         /\ Holders = {t}
         /\ InHand = Contents(src[t])
<1>1. t \in Threads /\ HasChunk(t)
  BY DEF Holders
<1>2. ASSUME NEW u \in Holders PROVE u = t
  <2>1. u \in Threads /\ HasChunk(u)
    BY DEF Holders
  <2>2. CASE Flushing(t) \/ Flushing(u)
    <3>1. Flushing(Main)
      BY <1>1, <2>1, <2>2 DEF HandoffInv, ControlInv, OnlyMainFlushes
    <3>2. \A v \in Threads \ {Main} : pc[v] = "idle"
      BY <3>1 DEF QuietInv, OthersAtRest, ShuttingDown
    <3> QED  BY <1>1, <2>1, <3>2 DEF HasChunk
  <2>3. CASE ~Flushing(t) /\ ~Flushing(u)
    BY <1>1, <2>1, <2>3 DEF QuietInv, InsideOwnLock, HasChunk, FileLabels, SwapLabels
  <2> QED  BY <2>2, <2>3
<1>3. Holders = {t}
  BY <1>2
<1>4. InHand = Contents(src[t])
  <2>1. (CHOOSE u \in Holders : TRUE) = t
    BY <1>3
  <2> QED  BY <1>3, <2>1 DEF InHand
<1> QED  BY <1>1, <1>3, <1>4

\* With no chunk in hand there is nothing in hand.
LEMMA NoHolder ==
  ASSUME Holders = {}
  PROVE  InHand = << >>
BY DEF InHand

\* Where there is no writer nothing is posted.
LEMMA NothingPosted ==
  ASSUME HandoffInv, QuietInv, ~m_writerStarted
  PROVE  m_writeJobPtr = NONE /\ Posted = << >>
BY DEF HandoffInv, ControlInv, StartedMeansWriter, QuietInv, ExitMeansNoJob, Posted

\* A chunk in hand, and a posted chunk, change only with the memory they are in.
LEMMA InHandStays ==
  ASSUME \A t \in Threads : HasChunk(t)' <=> HasChunk(t),
         \A t \in Holders : src'[t] = src[t] /\ mem'[src[t].buf] = mem[src[t].buf]
  PROVE  InHand' = InHand
<1>1. Holders' = Holders
  BY DEF Holders
<1>2. CASE Holders = {}
  BY <1>1, <1>2 DEF InHand
<1>3. CASE Holders # {}
  <2> DEFINE t == CHOOSE t \in Holders : TRUE
  <2>1. t \in Holders
    BY <1>3
  <2>2. InHand = Contents(src[t])
    BY <1>3 DEF InHand
  <2>3. InHand' = SubSeq(mem'[src'[t].buf], 1, src'[t].size)
    BY <1>1, <1>3 DEF InHand, Contents
  <2> HIDE DEF t
  <2>4. SubSeq(mem'[src'[t].buf], 1, src'[t].size) = Contents(src[t])
    BY <2>1 DEF Contents
  <2> QED  BY <2>2, <2>3, <2>4
<1> QED  BY <1>2, <1>3

LEMMA PostedStays ==
  ASSUME UNCHANGED <<m_writeJobPtr, m_writeJobSize>>,
         At(Writer, "jobDone")' <=> At(Writer, "jobDone"),
         m_writeJobPtr # NONE => mem'[m_writeJobPtr] = mem[m_writeJobPtr]
  PROVE  Posted' = Posted
BY DEF Posted, Chunk, Contents

LEMMA SavedStays ==
  ASSUME UNCHANGED <<disk, excess>>
  PROVE  Saved' = Saved
BY DEF Saved

\* A step that leaves the memory and the chunks alone leaves the stream.
LEMMA StaysIf ==
  ASSUME UNCHANGED <<disk, excess, dropped, mem, m_bufferPtr, m_bufferBytesWritten, log>>,
         \A t \in Threads : /\ HasChunk(t)' <=> HasChunk(t)
                            /\ HasChunk(t) => src'[t] = src[t],
         UNCHANGED <<m_writeJobPtr, m_writeJobSize>>,
         At(Writer, "jobDone")' <=> At(Writer, "jobDone")
  PROVE  Stays
<1>1. InHand' = InHand
  BY InHandStays DEF Holders
<1>2. Posted' = Posted /\ Saved' = Saved
  BY PostedStays, SavedStays
<1>3. Active' = Active
  BY DEF Active, Chunk, Contents
<1> QED  BY <1>1, <1>2, <1>3 DEF Stays

\* What is posted and what is in hand are not in the half that is being filled.
LEMMA OtherHalf ==
  ASSUME HandoffInv, QuietInv, HandOff
  PROVE  /\ m_writeJobPtr # NONE => m_writeJobPtr \in Halves \ {m_bufferPtr}
         /\ \A t \in Holders : src[t].buf # m_bufferPtr
         /\ \A t \in Holders : ~Flushing(t) => src[t].buf \in Halves
         /\ m_bufferPtr \in Halves
<1>1. m_bufferPtr \in Halves /\ m_writeJobPtr \in Halves \cup {NONE}
  BY DEF HandoffInv, TypeOK, BufferTypeOK, JobTypeOK
<1>2. m_writeJobPtr # NONE => m_writeJobPtr # m_bufferPtr
  BY DEF HandoffInv, ControlInv, HalvesDisjoint, QuietInv, ExitMeansNoJob
<1>3. \A t \in Holders : ~Flushing(t) => src[t].buf \in Halves \ {m_bufferPtr}
  BY DEF HandOff
<1>4. \A t \in Holders : Flushing(t) => src[t].buf # m_bufferPtr
  BY <1>1 DEF Flushing
<1> QED  BY <1>1, <1>2, <1>3, <1>4

\* Steps that move no byte.
LEMMA EffectNone ==
  ASSUME HandoffInv, QuietInv, NEW t \in Threads, NEW a \in Actors,
         \/ Call(t) \/ OverflowBuffer(t) \/ WaitIdle(t) \/ TestIdle(t) \/ Post(t) \/ UnlockB(t)
         \/ LockFile(a) \/ Fopen(a) \/ NestedCall(a) \/ SpuriousWake(a)
         \/ TakeJob \/ NoJob \/ JobDone
         \/ rmemShutDown \/ writerStop \/ writerJoin \/ flushClose \/ destroyLocks \/ unhook
         \/ UNCHANGED vars
  PROVE  Stays
<1> USE MainAssumption, WriterAssumption
    DEF HandoffInv, TypeOK, ActorTypeOK, Actors, ControlInv, OwnLabels, ThreadLabels,
    WriterLabels, WriterHasJob, OnlyMainFlushes, FlushStages, HasChunk, Flushing,
    vars, fileVars, lockVars, bufferVars, jobVars, callVars
<1>1. CASE Call(t)
  BY <1>1, StaysIf DEF Call
<1>2. CASE OverflowBuffer(t)
  <2>1. src'[t].buf # Temp /\ \A u \in Threads \ {t} : src'[u] = src[u] /\ pc'[u] = pc[u]
    BY <1>2 DEF OverflowBuffer, Chunk, BufferTypeOK
  <2> QED  BY <1>2, <2>1, StaysIf DEF OverflowBuffer
<1>3. CASE WaitIdle(t)
  BY <1>3, StaysIf DEF WaitIdle, AfterIdle
<1>4. CASE TestIdle(t)
  BY <1>4, StaysIf DEF TestIdle, AfterIdle
<1>5. CASE Post(t) \/ UnlockB(t)
  BY <1>5, StaysIf DEF Post, UnlockB
<1>6. CASE LockFile(a) \/ Fopen(a)
  BY <1>6, StaysIf DEF LockFile, Fopen
<1>7. CASE NestedCall(a) \/ SpuriousWake(a)
  BY <1>7, StaysIf DEF NestedCall, SpuriousWake, AfterWake, Suppressed
<1>8. CASE TakeJob \/ NoJob
  BY <1>8, StaysIf DEF TakeJob, NoJob
<1>9. CASE JobDone
  <2>1. Posted = << >> /\ Posted' = << >>
    BY <1>9 DEF JobDone, Posted
  <2>2. \A u \in Threads : HasChunk(u)' <=> HasChunk(u)
    BY <1>9 DEF JobDone, WithOneWoken, AfterWake
  <2>3. InHand' = InHand
    BY <1>9, <2>2, InHandStays DEF JobDone
  <2>4. Active' = Active /\ Saved' = Saved /\ log' = log /\ dropped' = dropped
    BY <1>9, SavedStays DEF JobDone, Active, Chunk, Contents
  <2> QED  BY <2>1, <2>3, <2>4 DEF Stays
<1>10. CASE rmemShutDown \/ writerStop \/ writerJoin
  BY <1>10, StaysIf DEF rmemShutDown, writerStop, writerJoin, FirstStep, WithWriterWoken
<1>11. CASE flushClose \/ destroyLocks \/ unhook
  BY <1>11, StaysIf DEF flushClose, CloseFile, destroyLocks, unhook
<1>12. CASE UNCHANGED vars
  BY <1>12, StaysIf
<1> QED
  BY <1>1, <1>2, <1>3, <1>4, <1>5, <1>6, <1>7, <1>8, <1>9, <1>10, <1>11, <1>12

\* What is copied behind the active bytes lengthens them.
LEMMA ActiveGrows ==
  ASSUME TypeOK, NEW a \in Actors, CopyToBuffer(a), Needed(a) <= BufferSize
  PROVE  /\ SubSeq(mem'[m_bufferPtr], 1, Needed(a)) = Active \o op[a]
         /\ SubSeq(mem'[m_bufferPtr], 1, m_bufferBytesWritten) = Active
         /\ \A b : b # m_bufferPtr => mem'[b] = mem[b]
<1>1. /\ m_bufferPtr \in {0, 1, Temp} /\ m_bufferBytesWritten \in Nat
      /\ mem[m_bufferPtr] \in [1..BufferSize -> Bytes]
      /\ op[a] \in Seq(Bytes)
  <2>1. m_bufferPtr \in {0, 1, Temp} /\ m_bufferBytesWritten \in Nat
    BY BufferSizeAssumption DEF TypeOK, BufferTypeOK
  <2>2. mem[m_bufferPtr] \in [1..BufferSize -> Bytes]
    BY <2>1 DEF TypeOK, BufferTypeOK
  <2>3. op[a] \in Seq(Bytes)
    BY DEF TypeOK, CallTypeOK
  <2> QED  BY <2>1, <2>2, <2>3
<1> DEFINE c == Copied(mem[m_bufferPtr], m_bufferBytesWritten, op[a])
<1>2. mem' = [mem EXCEPT ![m_bufferPtr] = c]
  BY DEF CopyToBuffer
<1>3. mem \in [{0, 1, Temp} -> [1..BufferSize -> Bytes]]
  BY DEF TypeOK, BufferTypeOK
<1>4. /\ SubSeq(c, 1, Needed(a)) = SubSeq(mem[m_bufferPtr], 1, m_bufferBytesWritten) \o op[a]
      /\ SubSeq(c, 1, m_bufferBytesWritten) = SubSeq(mem[m_bufferPtr], 1, m_bufferBytesWritten)
  BY <1>1, CopiedBehind DEF Needed
<1> HIDE DEF c
<1>5. mem'[m_bufferPtr] = c /\ \A b : b # m_bufferPtr => mem'[b] = mem[b]
  BY <1>1, <1>2, <1>3
<1> QED  BY <1>4, <1>5 DEF Active, Chunk, Contents

LEMMA EffectAppend ==
  ASSUME HandoffInv, QuietInv, HandOff, NEW a \in Actors,
         (AppendRecord(a) /\ a \in Threads) \/ NestedRecord(a)
  PROVE  Inserts(op[a])
<1> USE DEF fileVars, lockVars, jobVars
<1>1. /\ CopyToBuffer(a) /\ Fits(a) /\ m_bufferBytesWritten' = Needed(a)
      /\ m_bufferPtr' = m_bufferPtr /\ log' = log \o op[a] /\ src' = src
      /\ UNCHANGED <<disk, excess, dropped, m_writeJobPtr, m_writeJobSize>>
  BY DEF AppendRecord, NestedRecord
<1>2. Needed(a) <= BufferSize
  BY <1>1, BufferSizeAssumption, LenProperties
  DEF Fits, Needed, HandoffInv, TypeOK, CallTypeOK, BufferTypeOK
<1>3. /\ SubSeq(mem'[m_bufferPtr], 1, Needed(a)) = Active \o op[a]
      /\ \A b : b # m_bufferPtr => mem'[b] = mem[b]
  BY <1>1, <1>2, ActiveGrows DEF HandoffInv
<1>4. Active' = Active \o op[a]
  BY <1>1, <1>3 DEF Active, Chunk, Contents
<1>5. Saved' = Saved
  BY <1>1, SavedStays
<1>6. /\ \A t \in Threads : HasChunk(t)' <=> HasChunk(t)
      /\ At(Writer, "jobDone")' <=> At(Writer, "jobDone")
  BY WriterAssumption DEF AppendRecord, NestedRecord, HasChunk, Flushing, HandoffInv, TypeOK,
     ActorTypeOK, Actors, ControlInv, OwnLabels, WriterLabels
<1>7. Posted' = Posted
  BY <1>1, <1>3, <1>6, OtherHalf, PostedStays
<1>8. InHand' = InHand
  BY <1>1, <1>3, <1>6, OtherHalf, InHandStays
<1> QED  BY <1>1, <1>4, <1>5, <1>7, <1>8 DEF Inserts

LEMMA EffectFill ==
  ASSUME HandoffInv, QuietInv, HandOff, NEW t \in Threads, FillBuffer(t)
  PROVE  /\ Stays
         /\ SubSeq(mem'[m_bufferPtr], 1, BufferSize) = Active \o op[t]
<1> USE DEF fileVars, jobVars, callVars
<1>1. /\ CopyToBuffer(t) /\ Needed(t) = BufferSize
      /\ UNCHANGED <<m_bufferPtr, m_bufferBytesWritten, log, disk, excess, dropped,
                     m_writeJobPtr, m_writeJobSize>>
  BY DEF FillBuffer
<1>2. t \in Actors /\ Needed(t) <= BufferSize
  BY <1>1, BufferSizeAssumption DEF Actors
<1>3. /\ SubSeq(mem'[m_bufferPtr], 1, BufferSize) = Active \o op[t]
      /\ SubSeq(mem'[m_bufferPtr], 1, m_bufferBytesWritten) = Active
      /\ \A b : b # m_bufferPtr => mem'[b] = mem[b]
  BY <1>1, <1>2, ActiveGrows DEF HandoffInv
<1>4. Active' = Active
  BY <1>1, <1>3 DEF Active, Chunk, Contents
<1>5. Saved' = Saved
  BY <1>1, SavedStays
<1>6. /\ src'[t].buf # Temp /\ pc'[t] = "waitIdle" /\ pc[t] = "lockB"
      /\ \A u \in Threads \ {t} : src'[u] = src[u] /\ pc'[u] = pc[u]
      /\ pc'[Writer] = pc[Writer]
  BY WriterAssumption DEF FillBuffer, Chunk, HandoffInv, TypeOK, BufferTypeOK, ActorTypeOK, Actors
<1>7. /\ \A u \in Threads : HasChunk(u)' <=> HasChunk(u)
      /\ \A u \in Holders : src'[u] = src[u]
  BY <1>6 DEF HasChunk, Flushing, Holders
<1>8. Posted' = Posted
  BY <1>1, <1>3, <1>6, OtherHalf, PostedStays
<1>9. InHand' = InHand
  BY <1>1, <1>3, <1>7, OtherHalf, InHandStays
<1> QED  BY <1>1, <1>3, <1>4, <1>5, <1>8, <1>9 DEF Stays

\* A thread about to swap is alone: nothing is in hand, nothing is posted.
LEMMA AloneAtSwap ==
  ASSUME HandoffInv, QuietInv, NEW t \in Threads, At(t, "swap")
  PROVE  /\ Holders = {} /\ InHand = << >> /\ ~Flushing(t) /\ ~Flushing(Main)
         /\ m_writeJobPtr = NONE
         /\ \A u \in Threads \ {t} : ~HasChunk(u)
<1>1. ~Flushing(t)
  BY DEF HandoffInv, ControlInv, OnlyMainFlushes, FlushStages
<1>2. ASSUME NEW u \in Threads, HasChunk(u) PROVE FALSE
  <2>1. u # t
    BY <1>2 DEF HasChunk
  <2>2. CASE Flushing(u)
    <3>1. u = Main /\ Flushing(Main)
      BY <2>2 DEF HandoffInv, ControlInv, OnlyMainFlushes
    <3> QED  BY <2>1, <3>1 DEF QuietInv, OthersAtRest, ShuttingDown
  <2>3. CASE ~Flushing(u)
    BY <1>1, <1>2, <2>1, <2>3 DEF QuietInv, InsideOwnLock, HasChunk, FileLabels, SwapLabels
  <2> QED  BY <2>2, <2>3
<1>3. Holders = {}
  BY <1>2 DEF Holders
<1>4. m_writeJobPtr = NONE
  BY NothingPosted DEF HandoffInv, ControlInv, SlotSeenFree
<1>5. ~Flushing(Main)
  BY <1>1 DEF QuietInv, OthersAtRest, ShuttingDown
<1> QED  BY <1>1, <1>2, <1>3, <1>4, <1>5, NoHolder

LEMMA EffectSwap ==
  ASSUME HandoffInv, QuietInv, FullHalf, NEW t \in Threads, SwapFull(t) \/ SwapPartial(t)
  PROVE  Swaps(op[t])
<1> USE DEF fileVars, lockVars, jobVars
<1>1. /\ At(t, "swap") /\ log' = log \o op[t]
      /\ UNCHANGED <<disk, excess, dropped, m_writeJobPtr, m_writeJobSize>>
  BY DEF SwapFull, SwapPartial
<1>2. /\ InHand = << >> /\ m_writeJobPtr = NONE /\ ~Flushing(Main)
      /\ \A u \in Threads \ {t} : ~HasChunk(u)
  BY <1>1, AloneAtSwap
<1>3. Posted' = Posted /\ Saved' = Saved
  BY <1>1, <1>2, SavedStays DEF Posted
<1>4. /\ t \in Actors /\ pc'[t] = "post"
      /\ \A u \in Threads \ {t} : src'[u] = src[u] /\ pc'[u] = pc[u]
  BY DEF SwapFull, SwapPartial, doubleBuffer, HandoffInv, TypeOK, ActorTypeOK, Actors
<1>5. Holders' = {t}
  <2>1. HasChunk(t)' /\ \A u \in Threads \ {t} : ~HasChunk(u)'
    BY <1>2, <1>4 DEF HasChunk, Flushing
  <2> QED  BY <2>1 DEF Holders
<1>6. InHand' = SubSeq(mem'[src'[t].buf], 1, src'[t].size)
  <2>1. (CHOOSE u \in {t} : TRUE) = t
    OBVIOUS
  <2> QED  BY <1>5, <2>1 DEF InHand, Contents
<1>7. /\ m_bufferPtr \in {0, 1} /\ 1 - m_bufferPtr \in {0, 1}
      /\ m_bufferPtr # 1 - m_bufferPtr
      /\ mem[1 - m_bufferPtr] \in [1..BufferSize -> Bytes]
      /\ mem \in [{0, 1, Temp} -> [1..BufferSize -> Bytes]]
      /\ op[t] \in Seq(Bytes) /\ Len(op[t]) \in 0..(BufferSize - 1)
      /\ src \in [Actors -> [buf : {0, 1, Temp}, size : 0..BufferSize]]
  BY <1>4, BufferSizeAssumption, LenProperties
  DEF HandoffInv, TypeOK, BufferTypeOK, CallTypeOK, ActorTypeOK
<1>8. CASE SwapFull(t)
  <2>1. /\ src'[t] = Chunk(m_bufferPtr, BufferSize) /\ mem' = mem
        /\ m_bufferPtr' = 1 - m_bufferPtr /\ m_bufferBytesWritten' = 0
        /\ src[t].size = BufferSize
    BY <1>4, <1>7, <1>8 DEF SwapFull, doubleBuffer
  <2>2. Contents(Chunk(m_bufferPtr, BufferSize)) = Active \o op[t]
    BY <1>1, <2>1, AloneAtSwap DEF FullHalf, BeforeSwap
  <2>3. InHand' = Active \o op[t]
    BY <1>6, <2>1, <2>2 DEF Chunk, Contents
  <2>4. Active' = << >>
    BY <2>1, SubSeqEmpty DEF Active, Chunk, Contents
  <2> QED  BY <1>1, <1>2, <1>3, <2>3, <2>4 DEF Swaps
<1>9. CASE SwapPartial(t)
  <2> DEFINE c == Copied(mem[1 - m_bufferPtr], 0, op[t])
  <2>1. /\ src'[t] = Chunk(m_bufferPtr, m_bufferBytesWritten)
        /\ mem' = [mem EXCEPT ![1 - m_bufferPtr] = c]
        /\ m_bufferPtr' = 1 - m_bufferPtr /\ m_bufferBytesWritten' = Len(op[t])
    BY <1>4, <1>7, <1>9 DEF SwapPartial, doubleBuffer
  <2>2. SubSeq(c, 1, Len(op[t])) = op[t]
    <3>1. 0 + Len(op[t]) = Len(op[t]) /\ 0 + Len(op[t]) <= BufferSize /\ 0 \in Nat
      BY <1>7, BufferSizeAssumption
    <3>2. SubSeq(c, 1, 0 + Len(op[t])) = SubSeq(mem[1 - m_bufferPtr], 1, 0) \o op[t]
      BY <1>7, <3>1, CopiedBehind
    <3>3. SubSeq(mem[1 - m_bufferPtr], 1, 0) = << >>
      BY SubSeqEmpty
    <3> HIDE DEF c
    <3> QED  BY <1>7, <3>1, <3>2, <3>3, ConcatEmptySeq
  <2> HIDE DEF c
  <2>3. mem'[m_bufferPtr] = mem[m_bufferPtr] /\ mem'[1 - m_bufferPtr] = c
    BY <1>7, <2>1
  <2>4. InHand' = Active
    <3>1. src'[t].buf = m_bufferPtr /\ src'[t].size = m_bufferBytesWritten
      BY <2>1 DEF Chunk
    <3>2. Active = SubSeq(mem[m_bufferPtr], 1, m_bufferBytesWritten)
      BY DEF Active, Chunk, Contents
    <3> QED  BY <1>6, <2>3, <3>1, <3>2
  <2>5. Active' = op[t]
    BY <2>1, <2>2, <2>3 DEF Active, Chunk, Contents
  <2> QED  BY <1>1, <1>2, <1>3, <2>4, <2>5 DEF Swaps
<1> QED  BY <1>8, <1>9

LEMMA EffectPost ==
  ASSUME HandoffInv, QuietInv, NEW t \in Threads, PostJob(t)
  PROVE  Posts
<1> USE DEF fileVars, lockVars, bufferVars, callVars
<1>1. /\ pc[t] = "postJob" /\ m_writeJobPtr = NONE /\ ~At(Writer, "jobDone")
      /\ t \in Actors /\ t # Writer /\ t \in Holders
  BY WriterAssumption
  DEF PostJob, HandoffInv, ControlInv, JobSlotFree, WriterHasJob, Actors, Holders, HasChunk
<1>2. Holders = {t} /\ InHand = Contents(src[t])
  BY <1>1, OneHolder
<1>3. /\ pc'[t] = "unlockB" /\ ~At(Writer, "jobDone")'
      /\ \A u \in Threads \ {t} : pc'[u] = pc[u]
      /\ src' = src /\ mem' = mem
      /\ m_writeJobPtr' = src[t].buf /\ m_writeJobSize' = src[t].size
  BY <1>1, WriterAssumption
  DEF PostJob, WithWriterWoken, HandoffInv, TypeOK, ActorTypeOK, Actors
<1>4. src[t].buf \in Halves
  BY <1>1 DEF HandoffInv, ControlInv, OtherHalfInHand
<1>5. Posted = << >> /\ Posted' = InHand
  <2>1. m_writeJobPtr' # NONE
    BY <1>3, <1>4, NoneAssumption
  <2> QED  BY <1>1, <1>2, <1>3, <2>1 DEF Posted, Chunk, Contents
<1>6. InHand' = << >>
  <2>1. \A u \in Threads : ~HasChunk(u)'
    BY <1>2, <1>3 DEF HasChunk, Flushing, Holders
  <2> QED  BY <2>1 DEF InHand, Holders
<1>7. UNCHANGED <<Saved, Active, log, dropped>>
  BY SavedStays DEF PostJob, Active, Chunk, Contents
<1> QED  BY <1>5, <1>6, <1>7 DEF Posts

\* What writeToFile adds to the file, or keeps for it, comes last.
LEMMA SavedGrows ==
  ASSUME TypeOK, ExcessWithinBuffer, NEW c \in Seq(Bytes), NEW open \in BOOLEAN,
         WriteChunk(c, open)
  PROVE  \/ Saved' = Saved \o c /\ dropped' = dropped
         \/ Saved' = Saved /\ dropped' = dropped \cup RecordsIn(c) /\ ~open
<1>1. disk \in Seq(Seq(Bytes)) /\ excess \in Seq(Bytes) /\ FlattenSeq(disk) \in Seq(Bytes)
  BY FlattenType DEF TypeOK, FileTypeOK
<1>2. CASE WriteThrough(c)
  <2> DEFINE full == Append(disk, excess)
  <2>1. /\ full \in Seq(Seq(Bytes))
        /\ FlattenSeq(full) = Saved
        /\ Saved \in Seq(Bytes)
    BY <1>1, FlattenAppend, ConcatProperties DEF Saved
  <2>2. FlattenSeq(disk') = Saved \o c
    <3>1. CASE m_excessBufferPtr
      <4>1. disk' = Append(full, c)
        <5>1. disk' = disk \o <<excess>> \o <<c>>
          BY <1>2, <3>1 DEF WriteThrough
        <5> QED  BY <1>1, <5>1, <2>1
      <4> HIDE DEF full
      <4> QED  BY <2>1, <4>1, FlattenAppend
    <3>2. CASE ~m_excessBufferPtr
      <4>1. excess = << >> /\ Saved = FlattenSeq(disk)
        BY <1>1, <3>2, ConcatEmptySeq DEF ExcessWithinBuffer, Saved
      <4>2. disk' = Append(disk, c)
        <5>1. disk' = disk \o << >> \o <<c>>
          BY <1>2, <3>2 DEF WriteThrough
        <5> QED  BY <1>1, <5>1
      <4> QED  BY <1>1, <4>1, <4>2, FlattenAppend
    <3> QED  BY <3>1, <3>2
  <2> HIDE DEF full
  <2>3. Saved \o c \in Seq(Bytes)
    BY <2>1, ConcatProperties
  <2>4. Saved' = Saved \o c
    BY <1>2, <2>2, <2>3, ConcatEmptySeq DEF WriteThrough, Saved
  <2> QED  BY <1>2, <2>4 DEF WriteThrough
<1>3. CASE KeepExcess(c)
  <2>1. Saved' = FlattenSeq(disk) \o (excess \o c)
    BY <1>3 DEF KeepExcess, Saved
  <2> QED  BY SMTT(30), <1>1, <1>3, <2>1, ConcatAssociative DEF KeepExcess, Saved
<1>4. CASE DropChunk(c) /\ ~open
  BY <1>4, SavedStays DEF DropChunk
<1> QED  BY <1>2, <1>3, <1>4 DEF WriteChunk

LEMMA EffectWrite ==
  ASSUME HandoffInv, QuietInv, WriterChunk, ExcessWithinBuffer,
         NEW a \in Actors, WriteToFile(a)
  PROVE  LET c == Contents(src[a])
         IN  c \in {Posted, InHand} /\ (Saves(c) \/ Loses(c))
<1> USE DEF lockVars, bufferVars, jobVars, callVars
<1> DEFINE c == Contents(src[a])
<1>1. /\ pc[a] = "write" /\ pc'[a] = AfterWrite(a)
      /\ \A b \in Actors \ {a} : pc'[b] = pc[b]
      /\ UNCHANGED <<src, mem, m_bufferPtr, m_bufferBytesWritten, log, m_writeJobPtr, m_writeJobSize>>
      /\ WriteChunk(c, m_file)
  BY DEF WriteToFile, HandoffInv, TypeOK, ActorTypeOK
<1>2. c \in Seq(Bytes) /\ m_file \in BOOLEAN
  BY ContentsType DEF HandoffInv, TypeOK, ActorTypeOK, FileTypeOK
<1>3. Active' = Active
  BY <1>1 DEF Active, Chunk, Contents
<1>4. Leaves(c) /\ c \in {Posted, InHand}
  <2>1. CASE a = Writer
    <3>1. m_writeJobPtr # NONE /\ src[Writer] = Chunk(m_writeJobPtr, m_writeJobSize)
      BY <1>1, <2>1
      DEF HandoffInv, ControlInv, WriterHasJob, WriterChunk, WriterReads
    <3>2. c = Posted
      BY <1>1, <2>1, <3>1 DEF Posted
    <3>3. Posted' = << >>
      BY <1>1, <2>1 DEF Posted, AfterWrite
    <3>4. \A t \in Threads : pc'[t] = pc[t]
      BY <1>1, <2>1, WriterAssumption DEF Actors
    <3>5. InHand' = InHand
      BY <1>1, <3>4, InHandStays DEF HasChunk, Flushing
    <3> QED  BY <3>2, <3>3, <3>5 DEF Leaves
  <2>2. CASE a # Writer
    <3>1. a \in Threads /\ a \in Holders /\ ~m_writerStarted
      BY <1>1, <2>2 DEF Actors, Holders, HasChunk, QuietInv, WritesWithoutWriter, FileLabels
    <3>2. Holders = {a} /\ InHand = c
      BY <3>1, OneHolder
    <3>3. m_writeJobPtr = NONE /\ Posted = << >>
      BY <3>1, NothingPosted
    <3>4. Posted' = << >>
      BY <1>1, <3>3 DEF Posted
    <3>5. pc'[a] \in {"close", "unlockB"} /\ \A t \in Threads \ {a} : pc'[t] = pc[t]
      BY <1>1, <2>2 DEF AfterWrite, Actors
    <3>6. \A t \in Threads : ~HasChunk(t)'
      BY <1>1, <3>2, <3>5 DEF HasChunk, Flushing, Holders
    <3>7. InHand' = << >>
      BY <3>6 DEF InHand, Holders
    <3> QED  BY <3>2, <3>3, <3>4, <3>7 DEF Leaves
  <2> QED  BY <2>1, <2>2
<1> HIDE DEF c
<1>5. Saves(c) \/ Loses(c)
  <2>1. \/ Saved' = Saved \o c /\ dropped' = dropped
        \/ Saved' = Saved /\ dropped' = dropped \cup RecordsIn(c) /\ ~m_file
    BY <1>1, <1>2, SavedGrows DEF HandoffInv
  <2> QED  BY <1>1, <1>3, <1>4, <2>1 DEF Saves, Loses
<1> QED  BY <1>4, <1>5 DEF c

LEMMA EffectSnapshot ==
  ASSUME HandoffInv, QuietInv, flushSnapshot
  PROVE  Drains
<1> USE DEF fileVars, jobVars, callVars
<1>1. /\ pc[Main] = "flushB" /\ Main \in Actors /\ Main \in Threads /\ Writer # Main
      /\ \A t \in Threads \ {Main} : pc[t] = "idle"
  BY MainAssumption, WriterAssumption
  DEF flushSnapshot, Actors, QuietInv, OthersAtRest, ShuttingDown
<1>2. /\ pc'[Main] = "waitIdle" /\ \A a \in Actors \ {Main} : pc'[a] = pc[a]
      /\ src'[Main].buf = Temp /\ src'[Main].size = m_bufferBytesWritten
  BY <1>1 DEF flushSnapshot, Chunk, HandoffInv, TypeOK, ActorTypeOK
<1>3. Holders = {}
  BY <1>1 DEF Holders, HasChunk
<1>4. Holders' = {Main}
  <2>1. HasChunk(Main)'
    BY <1>2 DEF HasChunk, Flushing
  <2>2. \A t \in Threads \ {Main} : ~HasChunk(t)'
    BY <1>1, <1>2 DEF HasChunk, Actors
  <2> QED  BY <1>1, <2>1, <2>2 DEF Holders
<1>5. InHand = << >> /\ InHand' = SubSeq(mem'[Temp], 1, m_bufferBytesWritten)
  <2>1. (CHOOSE t \in {Main} : TRUE) = Main
    OBVIOUS
  <2> QED  BY <1>2, <1>3, <1>4, <2>1 DEF InHand, Contents
<1>6. m_writeJobPtr = NONE
  BY <1>1, NothingPosted DEF HandoffInv, ControlInv, StartedMeansWriter
<1>7. UNCHANGED <<Saved, Posted, log, dropped>>
  BY <1>6, SavedStays DEF flushSnapshot, Posted
<1>8. Active' = << >>
  BY SubSeqEmpty DEF flushSnapshot, Active, Chunk, Contents
<1>9. SubSeq(mem'[Temp], 1, m_bufferBytesWritten) = Active
  <2>1. /\ mem \in [{0, 1, Temp} -> [1..BufferSize -> Bytes]]
        /\ m_bufferBytesWritten \in 0..(BufferSize - 1)
    BY DEF HandoffInv, TypeOK, BufferTypeOK
  <2>2. Active \in Seq(Bytes) /\ Len(Active) = m_bufferBytesWritten
        /\ Active = SubSeq(mem[m_bufferPtr], 1, m_bufferBytesWritten)
    <3>1. Chunk(m_bufferPtr, m_bufferBytesWritten) \in [buf : {0, 1, Temp}, size : 0..BufferSize]
      BY BufferSizeAssumption DEF HandoffInv, TypeOK, BufferTypeOK, Chunk
    <3>2. Contents(Chunk(m_bufferPtr, m_bufferBytesWritten)) \in Seq(Bytes)
          /\ Len(Contents(Chunk(m_bufferPtr, m_bufferBytesWritten))) =
               Chunk(m_bufferPtr, m_bufferBytesWritten).size
      BY <3>1, ContentsType DEF HandoffInv
    <3> QED  BY <3>2 DEF Active, Chunk, Contents
  <2> DEFINE c == Copied(mem[Temp], 0, Active)
  <2>3. mem'[Temp] = c
    BY <2>1, <2>2 DEF flushSnapshot
  <2>4. SubSeq(c, 1, 0 + Len(Active)) = SubSeq(mem[Temp], 1, 0) \o Active
    <3>1. 0 + Len(Active) <= BufferSize
      BY <2>1, <2>2, BufferSizeAssumption
    <3>2. mem[Temp] \in [1..BufferSize -> Bytes]
      BY <2>1
    <3> QED  BY <2>2, <3>1, <3>2, CopiedBehind
  <2>5. SubSeq(mem[Temp], 1, 0) = << >>
    BY SubSeqEmpty
  <2>6. 0 + Len(Active) = m_bufferBytesWritten
    BY <2>1, <2>2
  <2> HIDE DEF c
  <2>7. << >> \o Active = Active
    BY <2>2, ConcatEmptySeq
  <2> QED  BY <2>3, <2>4, <2>5, <2>6, <2>7
<1>10. ~Flushing(Main)
  BY <1>1 DEF HandoffInv, ControlInv, FlushStages
<1> QED  BY <1>5, <1>7, <1>8, <1>9, <1>10 DEF Drains


-----------------------------------------------------------------------------
(* Each step has one of these effects, and each of them keeps the stream. *)

\* The record in op[a] goes into the stream, the first time.
Records(a) ==
  /\ OneRecord(op[a])
  /\ Inserts(op[a]) \/ Swaps(op[a])

LEMMA EveryStep ==
  ASSUME StreamInv, [Next]_vars
  PROVE  \/ Stays
         \/ \E a \in Actors : Records(a)
         \/ Posts
         \/ Drains
         \/ \E c \in {Posted, InHand} : Saves(c) \/ Loses(c)
<1> HandoffInv /\ QuietInv /\ HandOff /\ WriterChunk /\ FullHalf /\ ExcessWithinBuffer
  BY DEF StreamInv
<1>1. ASSUME NEW t \in Threads, Call(t) \/ RecordStep(t)
      PROVE  Stays \/ Posts \/ \E a \in Actors : Records(a)
  <2> t \in Actors
    BY DEF Actors
  <2>1. CASE AppendRecord(t)
    <3>1. OneRecord(op[t])
      BY <2>1 DEF AppendRecord, StreamInv, NewRecords, Recording
    <3> QED  BY <2>1, <3>1, EffectAppend DEF Records
  <2>2. CASE FillBuffer(t)
    BY <2>2, EffectFill
  <2>3. CASE SwapFull(t) \/ SwapPartial(t)
    <3>1. At(t, "swap")
      BY <2>3 DEF SwapFull, SwapPartial
    <3>2. OneRecord(op[t])
      BY <3>1, AloneAtSwap DEF StreamInv, NewRecords, Recording, BeforeSwap
    <3> QED  BY <2>3, <3>2, EffectSwap DEF Records
  <2>4. CASE PostJob(t)
    BY <2>4, EffectPost
  <2>5. CASE Call(t) \/ OverflowBuffer(t) \/ WaitIdle(t) \/ TestIdle(t) \/ Post(t) \/ UnlockB(t)
    BY <2>5, EffectNone
  <2> QED  BY <1>1, <2>1, <2>2, <2>3, <2>4, <2>5 DEF RecordStep
<1>2. ASSUME NEW a \in Actors, FileStep(a) \/ NestedCall(a) \/ SpuriousWake(a)
      PROVE  Stays \/ Records(a) \/ \E c \in {Posted, InHand} : Saves(c) \/ Loses(c)
  <2>1. CASE WriteToFile(a)
    BY <2>1, EffectWrite
  <2>2. CASE NestedRecord(a)
    <3>1. a \in Threads
      BY <2>2 DEF NestedRecord, Actors, HandoffInv, ControlInv, OwnLabels, WriterLabels
    <3>2. OneRecord(op[a])
      BY <2>2, <3>1 DEF NestedRecord, StreamInv, NewRecords, Recording
    <3> QED  BY <2>2, <3>2, EffectAppend DEF Records
  <2>3. CASE LockFile(a) \/ Fopen(a) \/ NestedCall(a) \/ SpuriousWake(a)
    BY <2>3, EffectNone, MainAssumption
  <2> QED  BY <1>2, <2>1, <2>2, <2>3 DEF FileStep
<1>3. CASE WriterStep \/ ShutdownStep \/ rmemShutDown \/ UNCHANGED vars
  <2>1. CASE flushSnapshot
    BY <2>1, EffectSnapshot
  <2>2. CASE ~flushSnapshot
    <3>1. Main \in Threads /\ Main \in Actors
      BY MainAssumption DEF Actors
    <3> QED  BY <1>3, <2>2, <3>1, EffectNone DEF WriterStep, ShutdownStep
  <2> QED  BY <2>1, <2>2
<1> QED  BY <1>1, <1>2, <1>3 DEF Next, Ended

\* The records of the stream are those that have been inserted and not dropped.
LEMMA StreamRecords ==
  ASSUME TypeOK, StreamIntact
  PROVE  /\ RecordsIn(Saved) \cup RecordsIn(Posted) \cup RecordsIn(InHand) \cup RecordsIn(Active)
              = RecordsIn(log) \ dropped
<1>1. /\ Saved \in Seq(Bytes) /\ Posted \in Seq(Bytes) /\ InHand \in Seq(Bytes)
      /\ Active \in Seq(Bytes) /\ log \in Seq(Bytes)
  BY StreamTypes
<1>2. Sift(log, Keep(dropped)) = Saved \o Posted \o InHand \o Active
  BY DEF StreamIntact, Kept, Keep
<1>3. RecordsIn(Sift(log, Keep(dropped))) = RecordsIn(log) \ dropped
  BY <1>1, KeepRecords
<1>4. Saved \o Posted \in Seq(Bytes) /\ Saved \o Posted \o InHand \in Seq(Bytes)
  BY <1>1, ConcatProperties
<1>5. RecordsIn(Saved \o Posted) = RecordsIn(Saved) \cup RecordsIn(Posted)
  BY <1>1, RecordsInConcat
<1>6. RecordsIn(Saved \o Posted \o InHand) = RecordsIn(Saved \o Posted) \cup RecordsIn(InHand)
  BY <1>1, <1>4, RecordsInConcat
<1>7. RecordsIn(Saved \o Posted \o InHand \o Active)
        = RecordsIn(Saved \o Posted \o InHand) \cup RecordsIn(Active)
  BY <1>1, <1>4, RecordsInConcat
<1> QED  BY <1>2, <1>3, <1>5, <1>6, <1>7

\* A record on its way is one record of at least one byte, and new.
LEMMA OneRecordFacts ==
  ASSUME TypeOK, NEW x, OneRecord(x)
  PROVE  /\ x \in Seq(Bytes)
         /\ \E rec \in 1..calls : RecordsIn(x) = {rec} /\ rec \notin RecordsIn(log)
         /\ RecordsIn(x) \cap RecordsIn(log) = {}
<1>1. PICK rec \in 1..calls, n \in 1..(BufferSize - 1) :
        x = RecordBytes(rec, n) /\ rec \notin RecordsIn(log)
  BY DEF OneRecord
<1>2. rec \in Nat /\ n \in Nat \ {0} /\ n \in Nat
  BY BufferSizeAssumption DEF TypeOK, CallTypeOK
<1>3. x \in Seq(Bytes) /\ RecordsIn(x) = {rec}
  BY <1>1, <1>2, RecordBytesType, RecordsInRecord
<1> QED  BY <1>1, <1>3

\* A step that changes no record on its way and inserts none keeps NewRecords.
LEMMA NewRecordsStay ==
  ASSUME NewRecords, UNCHANGED <<op, calls, log>>, dropped' \subseteq RecordsIn(log),
         \A t \in Threads : Recording(t)' => Recording(t)
  PROVE  NewRecords'
BY DEF NewRecords, OneRecord


LEMMA Apart ==
  NoRecordTwice <=>
    /\ RecordsIn(Saved) \cap RecordsIn(Posted) = {}
    /\ RecordsIn(Saved) \cap RecordsIn(InHand) = {}
    /\ RecordsIn(Saved) \cap RecordsIn(Active) = {}
    /\ RecordsIn(Posted) \cap RecordsIn(InHand) = {}
    /\ RecordsIn(Posted) \cap RecordsIn(Active) = {}
    /\ RecordsIn(InHand) \cap RecordsIn(Active) = {}
<1> DEFINE pieces == <<Saved, Posted, InHand, Active>>
<1>1. NoRecordTwice <=>
        \A i, j \in 1..4 : i # j => RecordsIn(pieces[i]) \cap RecordsIn(pieces[j]) = {}
  BY DEF NoRecordTwice
<1>2. pieces[1] = Saved /\ pieces[2] = Posted /\ pieces[3] = InHand /\ pieces[4] = Active
  OBVIOUS
<1> HIDE DEF pieces
<1>3. 1..4 = {1, 2, 3, 4}
  OBVIOUS
<1> QED  BY <1>1, <1>2, <1>3

\* The same of the next state.
LEMMA ApartNext ==
  (/\ RecordsIn(Saved') \cap RecordsIn(Posted') = {}
   /\ RecordsIn(Saved') \cap RecordsIn(InHand') = {}
   /\ RecordsIn(Saved') \cap RecordsIn(Active') = {}
   /\ RecordsIn(Posted') \cap RecordsIn(InHand') = {}
   /\ RecordsIn(Posted') \cap RecordsIn(Active') = {}
   /\ RecordsIn(InHand') \cap RecordsIn(Active') = {})
  => NoRecordTwice'
<1> DEFINE pieces == <<Saved', Posted', InHand', Active'>>
<1>1. NoRecordTwice' <=>
        \A i, j \in 1..4 : i # j => RecordsIn(pieces[i]) \cap RecordsIn(pieces[j]) = {}
  BY DEF NoRecordTwice, RecordsIn
<1>2. pieces[1] = Saved' /\ pieces[2] = Posted' /\ pieces[3] = InHand' /\ pieces[4] = Active'
  OBVIOUS
<1> HIDE DEF pieces
<1>3. 1..4 = {1, 2, 3, 4}
  OBVIOUS
<1> QED  BY <1>1, <1>2, <1>3

LEMMA IntactRecords ==
  ASSUME TypeOK, StreamIntact, NoRecordTwice, NewRecords, NEW a \in Actors, Records(a)
  PROVE  StreamIntact' /\ NoRecordTwice'
<1> DEFINE x == op[a]
           ab == Saved \o Posted
           whole == ab \o InHand \o Active
<1>1. x \in Seq(Bytes) /\ RecordsIn(x) \cap RecordsIn(log) = {}
  BY OneRecordFacts DEF Records
<1>2. Inserts(x) \/ Swaps(x)
  BY DEF Records
<1> HIDE DEF x
<1>3. /\ Saved \in Seq(Bytes) /\ Posted \in Seq(Bytes) /\ InHand \in Seq(Bytes)
      /\ Active \in Seq(Bytes) /\ log \in Seq(Bytes)
  BY StreamTypes
<1>4. ab \in Seq(Bytes) /\ ab \o InHand \in Seq(Bytes) /\ whole \in Seq(Bytes)
  BY <1>3, ConcatProperties
<1>5. dropped' = dropped /\ log' = log \o x
  BY <1>2 DEF Inserts, Swaps
<1>6. Sift(log', Keep(dropped)) = whole \o x
  <2> DEFINE K == Keep(dropped)
  <2>1. Sift(x, K) = x
    BY <1>1, KeepAll DEF NewRecords
  <2>2. Sift(log, K) = whole
    BY DEF StreamIntact, Kept, Keep
  <2> HIDE DEF K
  <2>3. Sift(log \o x, K) = Sift(log, K) \o Sift(x, K)
    <3>1. x \in Seq(Bytes) /\ log \in Seq(Bytes)
      BY <1>1, <1>3
    <3> QED  BY <3>1, SiftConcat
  <2> QED  BY <1>5, <2>1, <2>2, <2>3 DEF K
<1>7. Saved' \o Posted' \o InHand' \o Active' = whole \o x
  <2>1. Saved' = Saved /\ Posted' = Posted
    BY <1>2 DEF Inserts, Swaps
  <2>2. CASE Inserts(x)
    <3>1. InHand' = InHand /\ Active' = Active \o x
      BY <2>2 DEF Inserts
    <3>2. (ab \o InHand) \o (Active \o x) = ((ab \o InHand) \o Active) \o x
      <4> DEFINE front == ab \o InHand
      <4>1. front \in Seq(Bytes) /\ Active \in Seq(Bytes) /\ x \in Seq(Bytes)
        BY <1>1, <1>3, <1>4
      <4> HIDE DEF front
      <4>2. front \o (Active \o x) = (front \o Active) \o x
        BY SMTT(30), <4>1, ConcatAssociative
      <4> QED  BY <4>2 DEF front
    <3> QED  BY <2>1, <3>1, <3>2
  <2>3. CASE Swaps(x)
    <3>1. whole = ab \o Active
      BY <1>4, <2>3, ConcatEmptySeq DEF Swaps
    <3>2. CASE InHand' = Active \o x /\ Active' = << >>
      <4>1. Active \o x \in Seq(Bytes) /\ ab \o (Active \o x) \in Seq(Bytes)
        BY <1>1, <1>3, <1>4, ConcatProperties
      <4>2. ab \o (Active \o x) \o << >> = ab \o (Active \o x)
        BY <4>1, ConcatEmptySeq
      <4>3. ab \o (Active \o x) = (ab \o Active) \o x
        <5>1. ab \in Seq(Bytes) /\ Active \in Seq(Bytes) /\ x \in Seq(Bytes)
          BY <1>1, <1>3, <1>4
        <5> HIDE DEF ab
        <5> QED  BY <5>1, ConcatAssociative
      <4> QED  BY <2>1, <3>1, <3>2, <4>2, <4>3
    <3>3. CASE InHand' = Active /\ Active' = x
      <4>1. Saved' \o Posted' \o InHand' \o Active' = ab \o InHand' \o Active'
        BY <2>1
      <4>2. ab \o InHand' \o Active' = ab \o Active \o x
        BY <3>3
      <4> QED  BY <3>1, <4>1, <4>2
    <3> QED  BY <2>3, <3>2, <3>3 DEF Swaps
  <2> QED  BY <1>2, <2>2, <2>3
<1>8. StreamIntact'
  <2>1. Kept' = Keep(dropped)
    BY <1>5 DEF Kept, Keep
  <2> QED  BY <1>6, <1>7, <2>1 DEF StreamIntact
<1>9. NoRecordTwice'
  <2>1. RecordsIn(Active \o x) = RecordsIn(Active) \cup RecordsIn(x)
    BY <1>1, <1>3, RecordsInConcat
  <2>2. /\ RecordsIn(x) \cap RecordsIn(Saved) = {} /\ RecordsIn(x) \cap RecordsIn(Posted) = {}
        /\ RecordsIn(x) \cap RecordsIn(InHand) = {} /\ RecordsIn(x) \cap RecordsIn(Active) = {}
    BY <1>1, StreamRecords
  <2>3. CASE Inserts(x)
    <3>1. /\ Saved' = Saved /\ Posted' = Posted /\ InHand' = InHand /\ Active' = Active \o x
      BY <2>3 DEF Inserts
    <3> QED  BY <2>1, <2>2, <3>1, Apart, ApartNext
  <2>4. CASE Swaps(x)
    <3>1. Saved' = Saved /\ Posted' = Posted
      BY <2>4 DEF Swaps
    <3>2. CASE InHand' = Active \o x /\ Active' = << >>
      BY <2>1, <2>2, <3>1, <3>2, Apart, ApartNext, RecordsInEmpty
    <3>3. CASE InHand' = Active /\ Active' = x
      BY <2>2, <3>1, <3>3, Apart, ApartNext
    <3> QED  BY <2>4, <3>2, <3>3 DEF Swaps
  <2> QED  BY <1>2, <2>3, <2>4
<1> QED  BY <1>8, <1>9

LEMMA IntactMoves ==
  ASSUME TypeOK, StreamIntact, NoRecordTwice,
         Stays \/ Posts \/ Drains \/ \E c \in {Posted, InHand} : Saves(c)
  PROVE  StreamIntact' /\ NoRecordTwice'
<1> DEFINE ab == Saved \o Posted
<1>1. /\ Saved \in Seq(Bytes) /\ Posted \in Seq(Bytes) /\ InHand \in Seq(Bytes)
      /\ Active \in Seq(Bytes) /\ log \in Seq(Bytes)
  BY StreamTypes
<1>2. ab \in Seq(Bytes) /\ ab \o InHand \in Seq(Bytes) /\ Saved \o InHand \in Seq(Bytes)
  BY <1>1, ConcatProperties
<1>3. /\ Saved \o << >> = Saved /\ ab \o << >> = ab /\ ab \o InHand \o << >> = ab \o InHand
      /\ Saved \o InHand \o << >> = Saved \o InHand
  BY <1>1, <1>2, ConcatEmptySeq
<1>4. log' = log /\ dropped' = dropped
  BY DEF Stays, Posts, Drains, Saves
<1>5. StreamIntact' <=> Saved' \o Posted' \o InHand' \o Active' = ab \o InHand \o Active
  BY <1>4 DEF StreamIntact, Kept
<1>6. CASE Stays
  <2>1. NoRecordTwice'
    BY <1>6, Apart, ApartNext DEF Stays
  <2> QED  BY <1>5, <1>6, <2>1 DEF Stays
<1>7. CASE Posts
  <2>1. Saved' \o Posted' \o InHand' \o Active' = ab \o InHand \o Active
    <3>1. ab = Saved
      BY <1>3, <1>7 DEF Posts
    <3>2. Saved' = Saved /\ Posted' = InHand /\ InHand' = << >> /\ Active' = Active
      BY <1>7 DEF Posts
    <3> HIDE DEF ab
    <3> QED  BY <1>3, <3>1, <3>2
  <2>2. NoRecordTwice'
    BY <1>7, Apart, ApartNext, RecordsInEmpty DEF Posts
  <2> QED  BY <1>5, <2>1, <2>2
<1>8. CASE Drains
  <2>1. Saved' \o Posted' \o InHand' \o Active' = ab \o InHand \o Active
    <3>1. /\ Saved' = Saved /\ Posted' = Posted /\ InHand = << >> /\ InHand' = Active
          /\ Active' = << >>
      BY <1>8 DEF Drains
    <3>2. ab \o Active \o << >> = ab \o Active
      <4>1. ab \o Active \in Seq(Bytes)
        BY <1>1, <1>2, ConcatProperties
      <4> QED  BY <4>1, ConcatEmptySeq
    <3> QED  BY <1>3, <3>1, <3>2
  <2>2. NoRecordTwice'
    BY <1>8, Apart, ApartNext, RecordsInEmpty DEF Drains
  <2> QED  BY <1>5, <2>1, <2>2
<1>9. ASSUME NEW c \in {Posted, InHand}, Saves(c) PROVE StreamIntact' /\ NoRecordTwice'
  <2>1. Saved' = Saved \o c /\ Active' = Active /\ Leaves(c)
    BY <1>9 DEF Saves
  <2>2. RecordsIn(Saved \o c) = RecordsIn(Saved) \cup RecordsIn(c)
    BY <1>1, RecordsInConcat
  <2>3. CASE c = Posted /\ Posted' = << >> /\ UNCHANGED InHand
    <3>1. ab \o << >> \o InHand \o Active = ab \o InHand \o Active
      BY <1>3
    <3>2. NoRecordTwice'
      BY <2>1, <2>2, <2>3, Apart, ApartNext, RecordsInEmpty
    <3> QED  BY <1>5, <2>1, <2>3, <3>1, <3>2
  <2>4. CASE c = InHand /\ InHand' = << >> /\ Posted = << >> /\ Posted' = << >>
    <3>1. Saved' \o Posted' \o InHand' \o Active' = ab \o InHand \o Active
      <4>1. Saved' = Saved \o InHand
        BY <2>1, <2>4
      <4>2. ab = Saved
        BY <1>3, <2>4
      <4> HIDE DEF ab
      <4> QED  BY <1>3, <2>1, <2>4, <4>1, <4>2
    <3>2. NoRecordTwice'
      BY <2>1, <2>2, <2>4, Apart, ApartNext, RecordsInEmpty
    <3> QED  BY <1>5, <3>1, <3>2
  <2> QED  BY <2>1, <2>3, <2>4 DEF Leaves
<1> QED  BY <1>6, <1>7, <1>8, <1>9


LEMMA IntactLoses ==
  ASSUME TypeOK, StreamIntact, NoRecordTwice,
         NEW c \in {Posted, InHand}, Loses(c)
  PROVE  StreamIntact' /\ NoRecordTwice'
<1> DEFINE D == RecordsIn(c)
           K == Keep(D)
<1>1. /\ Saved \in Seq(Bytes) /\ Posted \in Seq(Bytes) /\ InHand \in Seq(Bytes)
      /\ Active \in Seq(Bytes) /\ log \in Seq(Bytes)
  BY StreamTypes
<1>3. /\ Saved' = Saved /\ Active' = Active /\ log' = log /\ dropped' = dropped \cup D
      /\ Leaves(c)
  BY DEF Loses
<1>4. Sift(log', Kept') = Sift(Saved, K) \o Sift(Posted, K) \o Sift(InHand, K) \o Sift(Active, K)
  <2>1. Sift(log', Kept') = Sift(Sift(log, Keep(dropped)), K)
    <3>1. Kept' = Keep(dropped \cup D)
      BY <1>3 DEF Kept, Keep
    <3> HIDE DEF D
    <3> QED  BY <1>1, <1>3, <3>1, KeepTwice
  <2>2. Sift(log, Keep(dropped)) = Saved \o Posted \o InHand \o Active
    BY DEF StreamIntact, Kept, Keep
  <2> HIDE DEF K
  <2>3. Sift(Saved \o Posted \o InHand \o Active, K)
          = Sift(Saved, K) \o Sift(Posted, K) \o Sift(InHand, K) \o Sift(Active, K)
    <3>1. \A s, r \in Seq(Bytes) :
            s \o r \in Seq(Bytes) /\ Sift(s \o r, K) = Sift(s, K) \o Sift(r, K)
      BY SiftConcats
    <3>2. Saved \in Seq(Bytes) /\ Posted \in Seq(Bytes) /\ InHand \in Seq(Bytes) /\ Active \in Seq(Bytes)
      BY <1>1
    <3>3. Saved \o Posted \in Seq(Bytes) /\ Sift(Saved \o Posted, K) = Sift(Saved, K) \o Sift(Posted, K)
      BY <3>1, <3>2, Zenon
    <3>4. /\ Saved \o Posted \o InHand \in Seq(Bytes)
          /\ Sift(Saved \o Posted \o InHand, K) = Sift(Saved \o Posted, K) \o Sift(InHand, K)
      BY <3>1, <3>2, <3>3, Zenon
    <3>5. Sift(Saved \o Posted \o InHand \o Active, K)
            = Sift(Saved \o Posted \o InHand, K) \o Sift(Active, K)
      BY <3>1, <3>2, <3>4, Zenon
    <3> QED  BY <3>3, <3>4, <3>5, Zenon
  <2> QED  BY <2>1, <2>2, <2>3, Zenon
<1>5. Sift(c, K) = << >>
  BY <1>1, KeepNone
<1>6. Sift(Saved, K) = Saved /\ Sift(Active, K) = Active
  BY <1>1, KeepAll, Apart
<1>7. CASE c = Posted /\ Posted' = << >> /\ UNCHANGED InHand
  <2>1. Sift(InHand, K) = InHand
    BY <1>1, <1>7, KeepAll, Apart
  <2>2. NoRecordTwice'
    BY <1>3, <1>7, Apart, ApartNext, RecordsInEmpty
  <2>3. Sift(Posted, K) = << >>
    BY <1>5, <1>7
  <2> HIDE DEF K
  <2> QED  BY <1>3, <1>4, <1>6, <1>7, <2>1, <2>2, <2>3 DEF StreamIntact
<1>8. CASE c = InHand /\ InHand' = << >> /\ Posted = << >> /\ Posted' = << >>
  <2>1. Sift(Posted, K) = << >>
    BY <1>8, SiftEmpty
  <2>2. NoRecordTwice'
    BY <1>3, <1>8, Apart, ApartNext, RecordsInEmpty
  <2>3. Sift(InHand, K) = << >>
    BY <1>5, <1>8
  <2> HIDE DEF K
  <2> QED  BY <1>3, <1>4, <1>6, <1>8, <2>1, <2>2, <2>3 DEF StreamIntact
<1> QED  BY <1>3, <1>7, <1>8 DEF Leaves

LEMMA IntactStep ==
  ASSUME StreamInv, [Next]_vars
  PROVE  StreamIntact' /\ NoRecordTwice'
<1> TypeOK /\ StreamIntact /\ NoRecordTwice /\ NewRecords
  BY DEF StreamInv, HandoffInv
<1> QED  BY EveryStep, IntactRecords, IntactMoves, IntactLoses
-----------------------------------------------------------------------------
(* The other parts of StreamInv are kept too. *)

\* A thread at a swap, or about to write to the active half, is alone there.
LEMMA OneSwapper ==
  ASSUME HandoffInv, QuietInv, NEW t \in Threads,
         \/ pc[t] = "lockB" /\ LockFree(m_mutexInternalBufferPtrs)
         \/ pc[t] \in {"nestedB", "swap"}
  PROVE  /\ \A u \in Threads \ {t} : ~BeforeSwap(u)
         /\ pc[t] # "swap" => ~BeforeSwap(t)
<1>1. CASE pc[t] = "lockB" /\ LockFree(m_mutexInternalBufferPtrs)
  <2>1. ~destroyed
    BY <1>1 DEF HandoffInv, ControlInv, FlushStages, QuietInv, OthersAtRest, ShuttingDown
  <2>2. m_mutexInternalBufferPtrs = NONE
    BY <1>1, <2>1 DEF LockFree
  <2> QED
    BY <1>1, <2>2, NoneAssumption DEF QuietInv, InsideOwnLock, BeforeSwap, SwapLabels
<1>2. CASE pc[t] \in {"nestedB", "swap"}
  <2>1. CASE Flushing(t)
    <3>1. t = Main /\ \A u \in Threads \ {Main} : pc[u] = "idle"
      BY <2>1 DEF HandoffInv, ControlInv, OnlyMainFlushes, QuietInv, OthersAtRest, ShuttingDown
    <3> QED  BY <1>2, <3>1 DEF BeforeSwap
  <2>2. CASE ~Flushing(t)
    <3>1. m_mutexInternalBufferPtrs = t
      BY <1>2, <2>2 DEF QuietInv, InsideOwnLock, SwapLabels, FileLabels
    <3> QED  BY <1>2, <3>1 DEF QuietInv, InsideOwnLock, BeforeSwap, SwapLabels
  <2> QED  BY <2>1, <2>2
<1> QED  BY <1>1, <1>2

LEMMA HandOffStays ==
  ASSUME HandOff, m_bufferPtr' = m_bufferPtr,
         \A t \in Threads : HasChunk(t)' /\ ~Flushing(t)' => HasChunk(t) /\ src'[t] = src[t]
  PROVE  HandOff'
BY DEF HandOff, Holders, Flushing

LEMMA FullHalfStays ==
  ASSUME FullHalf, UNCHANGED <<mem, m_bufferPtr, m_bufferBytesWritten>>,
         \A t \in Threads : BeforeSwap(t)' /\ src'[t].size = BufferSize =>
                              BeforeSwap(t) /\ src'[t] = src[t] /\ op'[t] = op[t]
  PROVE  FullHalf'
<1>1. Active' = Active
  BY DEF Active, Chunk, Contents
<1>2. \A t \in Threads : BeforeSwap(t) /\ src[t].size = BufferSize =>
        SubSeq(mem[m_bufferPtr], 1, BufferSize) = Active \o op[t]
  BY DEF FullHalf, Chunk, Contents
<1>3. \A t \in Threads : BeforeSwap(t)' /\ src'[t].size = BufferSize =>
        SubSeq(mem'[m_bufferPtr'], 1, BufferSize) = Active' \o op'[t]
  BY <1>1, <1>2
<1> QED  BY <1>3 DEF FullHalf, Chunk, Contents

\* Where nobody is about to swap there is nothing to say.
LEMMA FullHalfNobody ==
  ASSUME \A t \in Threads : ~BeforeSwap(t)'
  PROVE  FullHalf'
BY DEF FullHalf

\* The steps of a recording thread.
LEMMA PartsRecordStep ==
  ASSUME StreamInv, NEW t \in Threads, Call(t) \/ RecordStep(t)
  PROVE  HandOff' /\ WriterChunk' /\ FullHalf'
<1> HandoffInv /\ QuietInv /\ HandOff /\ WriterChunk /\ FullHalf
  BY DEF StreamInv
<1> USE WriterAssumption
    DEF ActorTypeOK, Actors, Flushing, HasChunk, BeforeSwap, WriterReads,
        fileVars, lockVars, bufferVars, jobVars, callVars
<1>0. /\ t \in Actors /\ t # Writer /\ m_bufferPtr \in {0, 1}
      /\ m_bufferBytesWritten < BufferSize /\ m_bufferBytesWritten # BufferSize
      /\ pc \in [Actors -> ThreadLabels \cup WriterLabels]
      /\ src \in [Actors -> [buf : {0, 1, Temp}, size : 0..BufferSize]]
      /\ op \in [Actors -> {bytes \in Seq(Bytes) : Len(bytes) < BufferSize}]
  BY BufferSizeAssumption DEF HandoffInv, TypeOK, BufferTypeOK, CallTypeOK
<1>1. CASE Call(t)
  BY <1>0, <1>1, HandOffStays, FullHalfStays DEF Call, WriterChunk
<1>2. CASE AppendRecord(t)
  <2>1. \A u \in Threads : ~BeforeSwap(u)
    BY <1>2, OneSwapper DEF AppendRecord
  <2>2. \A u \in Threads : ~BeforeSwap(u)'
    BY <1>0, <1>2, <2>1 DEF AppendRecord
  <2> QED  BY <1>0, <1>2, <2>2, HandOffStays, FullHalfNobody DEF AppendRecord, WriterChunk
<1>3. CASE FillBuffer(t)
  <2>1. \A u \in Threads : ~BeforeSwap(u)
    BY <1>3, OneSwapper DEF FillBuffer
  <2>2. /\ src'[t] = Chunk(m_bufferPtr, BufferSize) /\ pc'[t] = "waitIdle"
        /\ \A a \in Actors \ {t} : src'[a] = src[a] /\ pc'[a] = pc[a]
        /\ UNCHANGED <<m_bufferPtr, m_bufferBytesWritten, m_writeJobPtr, m_writeJobSize, op>>
    BY <1>0, <1>3 DEF FillBuffer
  <2>3. src'[t].buf # Temp
    BY <1>0, <2>2 DEF Chunk
  <2>4. \A u \in Threads \ {t} : ~BeforeSwap(u)'
    BY <2>1, <2>2
  <2>5. SubSeq(mem'[m_bufferPtr'], 1, BufferSize) = Active' \o op'[t]
    BY <1>3, <2>2, EffectFill DEF Stays
  <2>6. FullHalf'
    BY <2>4, <2>5 DEF FullHalf, Chunk, Contents
  <2>7. HandOff'
    BY <2>2, <2>3, HandOffStays
  <2>8. WriterChunk'
    BY <1>0, <2>2 DEF WriterChunk, Chunk
  <2> QED  BY <2>6, <2>7, <2>8
<1>4. CASE OverflowBuffer(t)
  <2>1. /\ src'[t] = Chunk(m_bufferPtr, m_bufferBytesWritten) /\ pc'[t] = "waitIdle"
        /\ \A a \in Actors \ {t} : src'[a] = src[a] /\ pc'[a] = pc[a]
        /\ UNCHANGED <<m_bufferPtr, m_bufferBytesWritten, mem, m_writeJobPtr, m_writeJobSize, op>>
    BY <1>0, <1>4 DEF OverflowBuffer
  <2>2. src'[t].buf # Temp /\ src'[t].size # BufferSize
    BY <1>0, <2>1 DEF Chunk
  <2>3. FullHalf'
    BY <2>1, <2>2, FullHalfStays
  <2>4. HandOff'
    BY <2>1, <2>2, HandOffStays
  <2>5. WriterChunk'
    BY <1>0, <2>1 DEF WriterChunk, Chunk
  <2> QED  BY <2>3, <2>4, <2>5
<1>5. CASE WaitIdle(t) \/ TestIdle(t)
  BY <1>0, <1>5, HandOffStays, FullHalfStays DEF WaitIdle, TestIdle, AfterIdle, WriterChunk
<1>6. CASE SwapFull(t) \/ SwapPartial(t)
  <2>1. /\ pc[t] = "swap" /\ pc'[t] = "post" /\ m_bufferPtr' = 1 - m_bufferPtr
        /\ src'[t].buf = m_bufferPtr
        /\ \A a \in Actors \ {t} : src'[a] = src[a] /\ pc'[a] = pc[a]
        /\ UNCHANGED <<m_writeJobPtr, m_writeJobSize>>
    BY <1>0, <1>6 DEF SwapFull, SwapPartial, doubleBuffer, Chunk
  <2>2. \A u \in Threads \ {t} : ~BeforeSwap(u) /\ ~HasChunk(u)
    BY <2>1, OneSwapper, AloneAtSwap
  <2>3. \A u \in Threads : ~BeforeSwap(u)'
    BY <2>1, <2>2
  <2>4. HandOff'
    <3>1. \A u \in Threads : HasChunk(u)' => u = t
      BY <2>1, <2>2
    <3>2. src'[t].buf \in Halves \ {m_bufferPtr'}
      BY <1>0, <2>1
    <3> HIDE DEF HasChunk, Flushing
    <3> QED  BY <3>1, <3>2 DEF HandOff, Holders
  <2>5. WriterChunk'
    BY <1>0, <2>1 DEF WriterChunk, Chunk
  <2> QED  BY <2>3, <2>4, <2>5, FullHalfNobody
<1>7. CASE Post(t) \/ UnlockB(t)
  BY <1>0, <1>7, HandOffStays, FullHalfStays DEF Post, UnlockB, WriterChunk
<1>8. CASE PostJob(t)
  <2>1. /\ pc[t] = "postJob" /\ pc'[t] = "unlockB" /\ \A u \in Threads \ {t} : pc'[u] = pc[u]
        /\ pc'[Writer] \in {pc[Writer], "testJob"}
        /\ UNCHANGED <<m_bufferPtr, m_bufferBytesWritten, mem, op, src>>
    BY <1>0, <1>8 DEF PostJob, WithWriterWoken
  <2>2. ~WriterReads
    BY <2>1 DEF HandoffInv, ControlInv, JobSlotFree, WriterHasJob
  <2>3. WriterChunk'
    BY <2>1, <2>2 DEF WriterChunk
  <2> QED  BY <2>1, <2>3, HandOffStays, FullHalfStays
<1> QED  BY <1>1, <1>2, <1>3, <1>4, <1>5, <1>6, <1>7, <1>8 DEF RecordStep

LEMMA PartsFileStep ==
  ASSUME StreamInv, NEW a \in Actors, FileStep(a) \/ NestedCall(a) \/ SpuriousWake(a)
  PROVE  HandOff' /\ WriterChunk' /\ FullHalf'
<1> HandoffInv /\ QuietInv /\ HandOff /\ WriterChunk /\ FullHalf
  BY DEF StreamInv
<1> USE WriterAssumption
    DEF ActorTypeOK, Actors, Flushing, HasChunk, BeforeSwap, WriterReads,
        fileVars, lockVars, bufferVars, jobVars, callVars
<1>0. /\ pc \in [Actors -> ThreadLabels \cup WriterLabels]
      /\ op \in [Actors -> {bytes \in Seq(Bytes) : Len(bytes) < BufferSize}]
      /\ pc[Writer] \in WriterLabels /\ \A t \in Threads : pc[t] \in ThreadLabels
  BY DEF HandoffInv, TypeOK, CallTypeOK, ControlInv, OwnLabels
<1>1. CASE LockFile(a) \/ Fopen(a)
  BY <1>0, <1>1, HandOffStays, FullHalfStays DEF LockFile, Fopen, WriterChunk
<1>2. CASE WriteToFile(a)
  BY <1>0, <1>2, HandOffStays, FullHalfStays DEF WriteToFile, AfterWrite, WriterChunk
<1>3. CASE NestedRecord(a)
  <2>1. a \in Threads
    BY <1>0, <1>3 DEF NestedRecord, WriterLabels
  <2>2. \A u \in Threads : ~BeforeSwap(u)
    BY <1>3, <2>1, OneSwapper DEF NestedRecord
  <2>3. \A u \in Threads : ~BeforeSwap(u)'
    BY <1>0, <1>3, <2>2 DEF NestedRecord
  <2> QED  BY <1>0, <1>3, <2>1, <2>3, HandOffStays, FullHalfNobody DEF NestedRecord, WriterChunk
<1>4. CASE NestedCall(a)
  BY <1>0, <1>4, HandOffStays, FullHalfStays DEF NestedCall, Suppressed, WriterChunk
<1>5. CASE SpuriousWake(a)
  BY <1>0, <1>5, HandOffStays, FullHalfStays DEF SpuriousWake, AfterWake, WriterChunk
<1> QED  BY <1>1, <1>2, <1>3, <1>4, <1>5 DEF FileStep

LEMMA PartsOtherStep ==
  ASSUME StreamInv, WriterStep \/ ShutdownStep \/ rmemShutDown \/ UNCHANGED vars
  PROVE  HandOff' /\ WriterChunk' /\ FullHalf'
<1> HandoffInv /\ QuietInv /\ HandOff /\ WriterChunk /\ FullHalf
  BY DEF StreamInv
<1> USE WriterAssumption, MainAssumption
    DEF ActorTypeOK, Actors, Flushing, HasChunk, BeforeSwap, WriterReads,
        fileVars, lockVars, bufferVars, jobVars, callVars
<1>0. /\ pc \in [Actors -> ThreadLabels \cup WriterLabels]
      /\ src \in [Actors -> [buf : {0, 1, Temp}, size : 0..BufferSize]]
  BY DEF HandoffInv, TypeOK
<1>1. CASE TakeJob \/ NoJob
  BY <1>0, <1>1, HandOffStays, FullHalfStays DEF TakeJob, NoJob, WriterChunk
<1>2. CASE JobDone
  BY <1>0, <1>2, HandOffStays, FullHalfStays DEF JobDone, WithOneWoken, AfterWake, WriterChunk
<1>3. CASE rmemShutDown \/ writerStop \/ writerJoin
  BY <1>0, <1>3, HandOffStays, FullHalfStays
  DEF rmemShutDown, FirstStep, writerStop, WithWriterWoken, writerJoin, WriterChunk
<1>4. CASE flushSnapshot
  <2>1. /\ pc[Main] = "flushB" /\ pc'[Main] = "waitIdle" /\ src'[Main].buf = Temp
        /\ \A a \in Actors \ {Main} : src'[a] = src[a] /\ pc'[a] = pc[a]
        /\ UNCHANGED <<m_bufferPtr, m_writeJobPtr, m_writeJobSize>>
    BY <1>0, <1>4 DEF flushSnapshot, Chunk
  <2>2. \A u \in Threads \ {Main} : pc[u] = "idle"
    BY <2>1 DEF QuietInv, OthersAtRest, ShuttingDown
  <2>3. \A u \in Threads : ~BeforeSwap(u)'
    BY <2>1, <2>2
  <2>4. HandOff'
    BY <2>1, HandOffStays
  <2>5. WriterChunk'
    BY <2>1 DEF WriterChunk, Chunk
  <2> QED  BY <2>3, <2>4, <2>5, FullHalfNobody
<1>5. CASE flushClose \/ destroyLocks \/ unhook
  BY <1>0, <1>5, HandOffStays, FullHalfStays DEF flushClose, destroyLocks, unhook, WriterChunk
<1>6. CASE UNCHANGED vars
  BY <1>6, HandOffStays, FullHalfStays DEF vars, WriterChunk
<1> QED  BY <1>1, <1>2, <1>3, <1>4, <1>5, <1>6 DEF WriterStep, ShutdownStep

LEMMA PartsStep ==
  ASSUME StreamInv, [Next]_vars
  PROVE  HandOff' /\ WriterChunk' /\ FullHalf'
BY PartsRecordStep, PartsFileStep, PartsOtherStep DEF Next, Ended

\* Records on their way stay new: a new call takes the next number, and a record
\* that goes into the stream is no longer on its way.
LEMMA NewRecordsCall ==
  ASSUME TypeOK, NewRecords, NEW t \in Threads, NEW n \in 1..(BufferSize - 1),
         calls' = calls + 1, op' = [op EXCEPT ![t] = RecordBytes(calls + 1, n)],
         UNCHANGED <<log, dropped>>, \A u \in Threads \ {t} : Recording(u)' => Recording(u)
  PROVE  NewRecords'
<1> DEFINE x == RecordBytes(calls + 1, n)
<1>1. /\ calls \in Nat /\ calls + 1 \in 1..(calls + 1) /\ calls + 1 \in Nat
      /\ 1..calls \subseteq 1..(calls + 1) /\ 0..calls \subseteq 0..(calls + 1)
      /\ calls + 1 \notin 0..calls /\ calls + 1 \notin 1..calls
      /\ n \in Nat /\ n \in Nat \ {0}
  BY BufferSizeAssumption DEF TypeOK, CallTypeOK
<1>2. op'[t] = x /\ \A u \in Threads \ {t} : op'[u] = op[u]
  BY DEF TypeOK, CallTypeOK, Actors
<1>3. RecordsIn(x) = {calls + 1}
  BY <1>1, RecordsInRecord
<1>4. /\ RecordsIn(log) \subseteq 0..calls /\ dropped \subseteq RecordsIn(log)
      /\ \A u \in Threads : Recording(u) => OneRecord(op[u])
      /\ \A u, v \in Threads : Recording(u) /\ Recording(v) /\ u # v =>
                                 RecordsIn(op[u]) \cap RecordsIn(op[v]) = {}
  BY DEF NewRecords
<1>5. \E rec \in 1..calls', m \in 1..(BufferSize - 1) :
        x = RecordBytes(rec, m) /\ rec \notin RecordsIn(log)
  <2>1. calls + 1 \in 1..calls' /\ calls + 1 \notin RecordsIn(log)
    BY <1>1, <1>4
  <2> QED  BY <2>1
<1>6. ASSUME NEW u \in Threads \ {t}, Recording(u)'
      PROVE  /\ (\E rec \in 1..calls' : \E m \in 1..(BufferSize - 1) :
                   op[u] = RecordBytes(rec, m) /\ rec \notin RecordsIn(log))
             /\ RecordsIn(op[u]) \cap RecordsIn(x) = {}
  <2>1. OneRecord(op[u])
    BY <1>4, <1>6
  <2>2. PICK rec \in 1..calls, m \in 1..(BufferSize - 1) :
          op[u] = RecordBytes(rec, m) /\ rec \notin RecordsIn(log)
    BY <2>1 DEF OneRecord
  <2>3. \E r \in 1..calls : RecordsIn(op[u]) = {r}
    BY <2>1, OneRecordFacts
  <2> QED  BY <1>1, <1>3, <2>2, <2>3
<1> HIDE DEF x
<1>7. \A u \in Threads : Recording(u)' => OneRecord(op[u])'
  <2> SUFFICES ASSUME NEW u \in Threads, Recording(u)' PROVE OneRecord(op[u])'
    OBVIOUS
  <2>1. CASE u = t
    BY <1>2, <1>5, <2>1 DEF OneRecord, RecordsIn
  <2>2. CASE u # t
    BY <1>2, <1>6, <2>2 DEF OneRecord, RecordsIn
  <2> QED  BY <2>1, <2>2
<1>8. \A u, v \in Threads : Recording(u)' /\ Recording(v)' /\ u # v =>
                              RecordsIn(op'[u]) \cap RecordsIn(op'[v]) = {}
  <2> SUFFICES ASSUME NEW u \in Threads, NEW v \in Threads, Recording(u)', Recording(v)', u # v
               PROVE  RecordsIn(op'[u]) \cap RecordsIn(op'[v]) = {}
    OBVIOUS
  <2>1. CASE u # t /\ v # t
    BY <1>2, <1>4, <2>1
  <2>2. CASE u = t
    BY <1>2, <1>6, <2>2
  <2>3. CASE v = t
    BY <1>2, <1>6, <2>3
  <2> QED  BY <2>1, <2>2, <2>3
<1>9. RecordsIn(log)' \subseteq 0..calls' /\ dropped' \subseteq RecordsIn(log)'
  BY <1>1, <1>4 DEF RecordsIn
<1> QED  BY <1>7, <1>8, <1>9 DEF NewRecords, RecordsIn

LEMMA NewRecordsInserted ==
  ASSUME TypeOK, NewRecords, NEW t \in Threads, Recording(t), ~Recording(t)',
         log' = log \o op[t], UNCHANGED <<op, calls, dropped>>,
         \A u \in Threads : Recording(u)' => Recording(u)
  PROVE  NewRecords'
<1>1. /\ RecordsIn(log) \subseteq 0..calls /\ dropped \subseteq RecordsIn(log)
      /\ \A u \in Threads : Recording(u) => OneRecord(op[u])
      /\ \A u, v \in Threads : Recording(u) /\ Recording(v) /\ u # v =>
                                 RecordsIn(op[u]) \cap RecordsIn(op[v]) = {}
  BY DEF NewRecords
<1>2. op[t] \in Seq(Bytes) /\ \E r \in 1..calls : RecordsIn(op[t]) = {r}
  BY <1>1, OneRecordFacts
<1>3. RecordsIn(log \o op[t]) = RecordsIn(log) \cup RecordsIn(op[t])
  BY <1>2, RecordsInConcat, StreamTypes
<1>4. RecordsIn(log') = RecordsIn(log) \cup RecordsIn(op[t])
  BY <1>3
<1>5. ASSUME NEW u \in Threads, Recording(u)'
      PROVE  \E rec \in 1..calls, m \in 1..(BufferSize - 1) :
               op[u] = RecordBytes(rec, m) /\ rec \notin RecordsIn(log')
  <2>1. u # t /\ Recording(u)
    BY <1>5
  <2>2. PICK rec \in 1..calls, m \in 1..(BufferSize - 1) :
          op[u] = RecordBytes(rec, m) /\ rec \notin RecordsIn(log)
    BY <1>1, <2>1 DEF OneRecord
  <2>3. RecordsIn(op[u]) = {rec}
    BY <2>2, RecordsInRecord, BufferSizeAssumption DEF TypeOK, CallTypeOK
  <2>4. RecordsIn(op[u]) \cap RecordsIn(op[t]) = {}
    BY <1>1, <2>1
  <2> QED  BY <1>4, <2>2, <2>3, <2>4
<1>6. \A u \in Threads : Recording(u)' => OneRecord(op[u])'
  BY <1>5 DEF OneRecord, RecordsIn
<1>7. RecordsIn(log)' \subseteq 0..calls' /\ dropped' \subseteq RecordsIn(log)'
  <2>1. RecordsIn(log') \subseteq 0..calls /\ dropped \subseteq RecordsIn(log')
    BY <1>1, <1>2, <1>4
  <2> QED  BY <2>1 DEF RecordsIn
<1>8. \A u, v \in Threads : Recording(u)' /\ Recording(v)' /\ u # v =>
                              RecordsIn(op'[u]) \cap RecordsIn(op'[v]) = {}
  BY <1>1
<1> QED  BY <1>6, <1>7, <1>8 DEF NewRecords, RecordsIn

LEMMA NewRecordsStep ==
  ASSUME StreamInv, [Next]_vars
  PROVE  NewRecords'
<1> HandoffInv /\ QuietInv /\ NewRecords /\ TypeOK
  BY DEF StreamInv, HandoffInv
<1> USE MainAssumption, WriterAssumption
    DEF Recording, BeforeSwap, Flushing, Actors,
        fileVars, lockVars, bufferVars, jobVars, callVars
<1>0. /\ pc \in [Actors -> ThreadLabels \cup WriterLabels]
      /\ src \in [Actors -> [buf : {0, 1, Temp}, size : 0..BufferSize]]
      /\ pc[Writer] \in WriterLabels /\ \A t \in Threads : pc[t] \in ThreadLabels
      /\ dropped \subseteq RecordsIn(log)
  BY DEF HandoffInv, TypeOK, ActorTypeOK, ControlInv, OwnLabels, NewRecords
<1>1. ASSUME NEW t \in Threads, Call(t) PROVE NewRecords'
  <2>1. PICK n \in RecordSizes : op' = [op EXCEPT ![t] = RecordBytes(calls + 1, n)]
    BY <1>1 DEF Call
  <2>2. n \in 1..(BufferSize - 1)
    BY RecordSizesAssumption
  <2>3. \A u \in Threads \ {t} : Recording(u)' => Recording(u)
    BY <1>0, <1>1 DEF Call
  <2> QED  BY <1>1, <2>1, <2>2, <2>3, NewRecordsCall DEF Call
<1>2. ASSUME NEW a \in Actors, NestedCall(a) PROVE NewRecords'
  <2>1. 1 \in 1..(BufferSize - 1)
    BY HeaderAssumption, BufferSizeAssumption
  <2>2. a \in Threads
    BY <1>2 DEF NestedCall, Suppressed
  <2>3. \A u \in Threads \ {a} : Recording(u)' => Recording(u)
    BY <1>0, <1>2 DEF NestedCall
  <2> QED  BY <1>2, <2>1, <2>2, <2>3, NewRecordsCall DEF NestedCall
<1>3. ASSUME NEW t \in Threads,
             AppendRecord(t) \/ NestedRecord(t) \/ SwapFull(t) \/ SwapPartial(t)
      PROVE  NewRecords'
  <2>1. \/ pc[t] \in {"lockB", "nestedB"} /\ src' = src
        \/ At(t, "swap")
    BY <1>3 DEF AppendRecord, NestedRecord, SwapFull, SwapPartial
  <2>2. Recording(t)
    BY <2>1, AloneAtSwap
  <2>3. pc'[t] \in {"idle", "open", "post"}
    BY <1>0, <1>3 DEF AppendRecord, NestedRecord, SwapFull, SwapPartial
  <2>4. \A u \in Threads \ {t} : pc'[u] = pc[u] /\ src'[u] = src[u]
    BY <1>0, <1>3 DEF AppendRecord, NestedRecord, SwapFull, SwapPartial, doubleBuffer
  <2>5. ~Recording(t)' /\ \A u \in Threads : Recording(u)' => Recording(u)
    BY <2>3, <2>4
  <2>6. log' = log \o op[t] /\ UNCHANGED <<op, calls, dropped>>
    BY <1>3 DEF AppendRecord, NestedRecord, SwapFull, SwapPartial
  <2> HIDE DEF Recording
  <2> QED  BY <2>2, <2>5, <2>6, NewRecordsInserted
<1>4. ASSUME NEW a \in Actors, WriteToFile(a) PROVE NewRecords'
  <2>1. HandOff /\ WriterChunk /\ ExcessWithinBuffer /\ StreamIntact
    BY DEF StreamInv
  <2>2. PICK c \in {Posted, InHand} : Saves(c) \/ Loses(c)
    BY <1>4, <2>1, EffectWrite
  <2>3. RecordsIn(c) \subseteq RecordsIn(log)
    BY <2>1, StreamRecords
  <2>4. dropped' \subseteq RecordsIn(log)
    BY <1>0, <2>2, <2>3 DEF Saves, Loses
  <2>5. UNCHANGED <<op, calls, log>> /\ \A u \in Threads : Recording(u)' => Recording(u)
    BY <1>0, <1>4 DEF WriteToFile, AfterWrite
  <2> QED  BY <2>4, <2>5, NewRecordsStay
<1>5. ASSUME NEW t \in Threads, FillBuffer(t) \/ OverflowBuffer(t) PROVE NewRecords'
  <2>1. Recording(t) /\ \A u \in Threads \ {t} : pc'[u] = pc[u] /\ src'[u] = src[u]
    BY <1>0, <1>5 DEF FillBuffer, OverflowBuffer
  <2> QED  BY <1>0, <1>5, <2>1, NewRecordsStay DEF FillBuffer, OverflowBuffer
<1>6. ASSUME NEW t \in Threads,
             WaitIdle(t) \/ TestIdle(t) \/ Post(t) \/ PostJob(t) \/ UnlockB(t)
      PROVE  NewRecords'
  BY <1>0, <1>6, NewRecordsStay
  DEF WaitIdle, TestIdle, AfterIdle, Post, PostJob, WithWriterWoken, UnlockB
<1>7. ASSUME NEW a \in Actors, LockFile(a) \/ Fopen(a) \/ SpuriousWake(a) PROVE NewRecords'
  BY <1>0, <1>7, NewRecordsStay DEF LockFile, Fopen, SpuriousWake, AfterWake
<1>8. CASE WriterStep
  BY <1>0, <1>8, NewRecordsStay DEF WriterStep, TakeJob, NoJob, JobDone, WithOneWoken, AfterWake
<1>9. CASE ShutdownStep \/ rmemShutDown
  <2>1. CASE flushSnapshot
    <3>1. src'[Main].buf = Temp /\ pc'[Main] = "waitIdle"
          /\ \A u \in Threads \ {Main} : pc'[u] = pc[u] /\ src'[u] = src[u]
      BY <1>0, <2>1 DEF flushSnapshot, Chunk
    <3> QED  BY <1>0, <2>1, <3>1, NewRecordsStay DEF flushSnapshot
  <2>2. CASE ~flushSnapshot
    BY <1>0, <1>9, <2>2, NewRecordsStay
    DEF ShutdownStep, rmemShutDown, FirstStep, writerStop, WithWriterWoken, writerJoin,
        flushClose, CloseFile, destroyLocks, unhook
  <2> QED  BY <2>1, <2>2
<1>10. CASE UNCHANGED vars
  BY <1>0, <1>10, NewRecordsStay DEF vars
<1>11. ASSUME NEW a \in Actors, NestedRecord(a) PROVE a \in Threads
  BY <1>0, <1>11 DEF NestedRecord, WriterLabels
<1> HIDE DEF Recording, BeforeSwap, Flushing
<1> QED
  BY <1>1, <1>2, <1>3, <1>4, <1>5, <1>6, <1>7, <1>8, <1>9, <1>10, <1>11
  DEF Next, Ended, RecordStep, FileStep

\* What rmemInit leaves: the header, in the active half.
LEMMA StreamInit == Init => StreamInv
<1> SUFFICES ASSUME Init PROVE StreamInv
  OBVIOUS
<1> USE BufferSizeAssumption, HeaderAssumption
<1>1. HandoffInv /\ QuietInv /\ TypeOK
  BY TypeInit, ControlInit, QuietInit DEF HandoffInv
<1>2. \A t \in Threads : pc[t] = "idle" /\ ~Flushing(t) /\ op[t] = << >>
  BY WriterAssumption DEF Init, Actors, Chunk, Flushing
<1>3. Holders = {} /\ InHand = << >>
  <2>1. Holders = {}
    BY <1>2 DEF Holders, HasChunk
  <2> QED  BY <2>1, NoHolder
<1>4. HandOff /\ WriterChunk /\ FullHalf /\ ExcessWithinBuffer
  <2>1. Len(<< >>) <= BufferSize
    OBVIOUS
  <2> QED
    BY <1>2, <1>3, <2>1
    DEF HandOff, WriterChunk, WriterReads, FullHalf, BeforeSwap, ExcessWithinBuffer, Init,
        FileInit, Actors
<1>5. Header \in Seq(Bytes) /\ Len(Header) = 1 /\ RecordsIn(Header) = {0}
  <2>1. 0 \in Nat /\ 1 \in Nat /\ 1 \in Nat \ {0}
    OBVIOUS
  <2> QED  BY <2>1, RecordBytesType, RecordsInRecord DEF Header
<1>6. Posted = << >>
  BY DEF Init, Posted
<1>7. Saved = << >>
  <2>1. << >> \o << >> = << >>
    OBVIOUS
  <2> QED  BY <2>1, FlattenEmpty DEF Init, FileInit, Saved
<1>8. Active = Header
  <2> DEFINE blank == [i \in 1..BufferSize |-> NullByte]
             c == Copied(blank, 0, Header)
  <2>1. blank \in [1..BufferSize -> Bytes]
    BY DEF NullByte, Byte, Bytes
  <2>2. Active = SubSeq(c, 1, 1)
    BY DEF Init, Active, Chunk, Contents
  <2>3. SubSeq(c, 1, 0 + Len(Header)) = SubSeq(blank, 1, 0) \o Header
    <3>1. 0 + Len(Header) <= BufferSize
      BY <1>5
    <3> HIDE DEF blank
    <3> QED  BY <1>5, <2>1, <3>1, CopiedBehind
  <2>4. SubSeq(blank, 1, 0) = << >> /\ << >> \o Header = Header /\ 0 + Len(Header) = 1
    BY <1>5, SubSeqEmpty, ConcatEmptySeq
  <2> HIDE DEF c, blank
  <2> QED  BY <2>2, <2>3, <2>4
<1>9. NewRecords
  <2>1. RecordsIn(log) \subseteq 0..calls /\ dropped \subseteq RecordsIn(log)
    BY <1>5 DEF Init, FileInit
  <2>2. \A t \in Threads : ~Recording(t)
    BY <1>2 DEF Recording, BeforeSwap
  <2> QED  BY <2>1, <2>2 DEF NewRecords
<1>10. StreamIntact
  <2>1. Sift(log, Keep(dropped)) = Header
    BY <1>5, KeepAll DEF Init, FileInit
  <2>2. Saved \o Posted \o InHand \o Active = Header
    <3>1. << >> \o << >> = << >> /\ << >> \o Header = Header
      BY <1>5, ConcatEmptySeq
    <3> QED  BY <1>3, <1>6, <1>7, <1>8, <3>1
  <2> QED  BY <2>1, <2>2 DEF StreamIntact, Kept, Keep
<1>11. NoRecordTwice
  BY <1>3, <1>6, <1>7, Apart, RecordsInEmpty
<1> QED  BY <1>1, <1>4, <1>9, <1>10, <1>11 DEF StreamInv

LEMMA StreamStep ==
  ASSUME Quiet, StreamInv, [Next]_vars
  PROVE  StreamInv'
<1>1. HandoffInv'
  BY TypeStep, ControlStep DEF StreamInv, HandoffInv, ControlInv
<1>2. QuietInv' /\ ExcessWithinBuffer'
  BY QuietStep, ExcessStep DEF StreamInv
<1> QED  BY <1>1, <1>2, PartsStep, NewRecordsStep, IntactStep DEF StreamInv

\* With the other threads at rest during the shutdown, StreamInv is inductive.
THEOREM StreamInvariant ==
  ASSUME Quiet
  PROVE  Spec => []StreamInv
<1>1. StreamInv /\ [Next]_vars => StreamInv'
  BY StreamStep
<1> QED  BY <1>1, StreamInit, PTL DEF Spec

\* Every byte a thread inserted is in exactly one place, in the order of the buffer
\* lock, and only whole chunks that writeToFile dropped are missing: the double
\* buffer, the hand-over, the excess buffer and flush neither lose, duplicate nor
\* reorder a byte.
THEOREM NothingLost ==
  ASSUME Quiet
  PROVE  Spec => []StreamIntact
<1>1. StreamInv => StreamIntact
  BY DEF StreamInv
<1> QED  BY <1>1, StreamInvariant, PTL

-----------------------------------------------------------------------------
(* What flush saves. *)

\* What is inserted into the active half is new.
LEMMA ActiveNext ==
  ASSUME StreamInv, [Next]_vars
  PROVE  /\ RecordsIn(log) \subseteq RecordsIn(log')
         /\ \A r \in RecordsIn(Active') : r \in RecordsIn(Active) \/ r \notin RecordsIn(log)
<1>1. TypeOK
  BY DEF StreamInv, HandoffInv
<1>2. CASE Stays \/ Posts \/ Drains \/ \E c \in {Posted, InHand} : Saves(c) \/ Loses(c)
  BY <1>2, RecordsInEmpty DEF Stays, Posts, Drains, Saves, Loses
<1>3. ASSUME NEW a \in Actors, Records(a)
      PROVE  /\ RecordsIn(log) \subseteq RecordsIn(log')
             /\ \A r \in RecordsIn(Active') : r \in RecordsIn(Active) \/ r \notin RecordsIn(log)
  <2> DEFINE x == op[a]
  <2>1. x \in Seq(Bytes) /\ RecordsIn(x) \cap RecordsIn(log) = {}
    BY <1>1, <1>3, OneRecordFacts DEF Records
  <2>2. Inserts(x) \/ Swaps(x)
    BY <1>3 DEF Records
  <2> HIDE DEF x
  <2>3. /\ RecordsIn(log \o x) = RecordsIn(log) \cup RecordsIn(x)
        /\ RecordsIn(Active \o x) = RecordsIn(Active) \cup RecordsIn(x)
    BY <1>1, <2>1, StreamTypes, RecordsInConcat
  <2>4. log' = log \o x /\ Active' \in {Active \o x, << >>, x}
    BY <2>2 DEF Inserts, Swaps
  <2> QED  BY <2>1, <2>3, <2>4, RecordsInEmpty
<1> QED  BY <1>2, <1>3, EveryStep

\* Only the snapshot of flush puts Main's chunk into s_tempBuffer, and there it stays.
LEMMA FlushingNext ==
  ASSUME HandoffInv, [Next]_vars
  PROVE  /\ Flushing(Main)' /\ ~Flushing(Main) => flushSnapshot
         /\ Flushing(Main) => Flushing(Main)'
<1> USE MainAssumption, WriterAssumption DEF ActorTypeOK, Actors, Flushing
<1>1. /\ Main \in Actors /\ Main # Writer /\ m_bufferPtr # Temp
      /\ src \in [Actors -> [buf : {0, 1, Temp}, size : 0..BufferSize]]
      /\ Flushing(Main) => pc[Main] \notin {"lockB", "swap"}
  BY DEF HandoffInv, TypeOK, BufferTypeOK, ControlInv, FlushStages
<1>2. CASE src'[Main] = src[Main]
  BY <1>2
<1>3. ASSUME NEW t \in Threads, FillBuffer(t) \/ OverflowBuffer(t) \/ SwapFull(t) \/ SwapPartial(t)
      PROVE  src'[Main] = src[Main] \/ (~Flushing(Main) /\ ~Flushing(Main)')
  BY <1>1, <1>3 DEF FillBuffer, OverflowBuffer, SwapFull, SwapPartial, doubleBuffer, Chunk
<1>4. ASSUME NEW t \in Threads,
             \/ Call(t) \/ AppendRecord(t) \/ WaitIdle(t) \/ TestIdle(t) \/ Post(t)
             \/ PostJob(t) \/ UnlockB(t)
      PROVE  src'[Main] = src[Main]
  BY <1>4 DEF Call, AppendRecord, WaitIdle, TestIdle, Post, PostJob, UnlockB
<1>5. ASSUME NEW a \in Actors, FileStep(a) \/ NestedCall(a) \/ SpuriousWake(a)
      PROVE  src'[Main] = src[Main]
  BY <1>5
  DEF FileStep, LockFile, Fopen, WriteToFile, NestedRecord, NestedCall, SpuriousWake
<1>6. CASE WriterStep \/ rmemShutDown \/ (ShutdownStep /\ ~flushSnapshot) \/ UNCHANGED vars
  <2>1. src'[Main] = src[Main]
    BY <1>1, <1>6
    DEF WriterStep, TakeJob, NoJob, JobDone, rmemShutDown, ShutdownStep, writerStop,
        writerJoin, flushClose, destroyLocks, unhook, vars
  <2> QED  BY <2>1, <1>2
<1>7. CASE flushSnapshot
  BY <1>1, <1>7 DEF flushSnapshot, Chunk
<1> QED
  BY <1>2, <1>3, <1>4, <1>5, <1>6, <1>7 DEF Next, Ended, RecordStep

\* Only the beginning of the shutdown says what must be saved, and only its end
\* removes the hook.
LEMMA LifeNext ==
  ASSUME [Next]_vars
  PROVE  /\ mustSave' = mustSave \/ rmemShutDown
         /\ hook' = hook \/ unhook
<1> USE DEF lifeVars
<1>1. ASSUME NEW t \in Threads, Call(t) \/ RecordStep(t)
      PROVE  UNCHANGED <<hook, mustSave>>
  BY <1>1
  DEF Call, RecordStep, AppendRecord, FillBuffer, OverflowBuffer, WaitIdle, TestIdle,
      SwapFull, SwapPartial, Post, PostJob, UnlockB
<1>2. ASSUME NEW a \in Actors, FileStep(a) \/ NestedCall(a) \/ SpuriousWake(a)
      PROVE  UNCHANGED <<hook, mustSave>>
  BY <1>2
  DEF FileStep, LockFile, Fopen, WriteToFile, NestedRecord, NestedCall, SpuriousWake
<1>3. CASE WriterStep \/ UNCHANGED vars
  BY <1>3 DEF WriterStep, TakeJob, NoJob, JobDone, vars
<1>4. CASE ShutdownStep \/ rmemShutDown
  BY <1>4
  DEF ShutdownStep, rmemShutDown, writerStop, writerJoin, flushSnapshot, flushClose,
      destroyLocks, unhook
<1> QED  BY <1>1, <1>2, <1>3, <1>4 DEF Next, Ended

\* Nobody writes the file, and nothing is in hand or posted, once flush has
\* written its snapshot.
LEMMA AfterFlush ==
  ASSUME HandoffInv, QuietInv, Flushing(Main),
         pc[Main] \in {"close", "destroy", "unhook", "idle"}
  PROVE  /\ \A a \in Actors : pc[a] \notin FileLabels
         /\ Posted = << >> /\ InHand = << >>
<1>1. ~m_writerStarted /\ pc[Writer] = "exited"
  BY DEF HandoffInv, ControlInv, StartedMeansWriter
<1>2. \A t \in Threads \ {Main} : pc[t] = "idle"
  BY DEF QuietInv, OthersAtRest, ShuttingDown
<1>3. Posted = << >>
  BY <1>1, NothingPosted
<1>4. Holders = {}
  BY <1>2 DEF Holders, HasChunk
<1> QED  BY <1>1, <1>2, <1>3, <1>4, NoHolder DEF Actors, FileLabels

\* Who changes the file, and when.
LEMMA FileNext ==
  ASSUME HandoffInv, [Next]_vars
  PROVE  \/ UNCHANGED <<m_file, disk, excess>>
         \/ \E a \in Actors : Fopen(a) /\ UNCHANGED <<disk, excess, hook>>
                              /\ (m_file => m_file')
         \/ flushClose /\ UNCHANGED <<disk, excess, hook>> /\ pc'[Main] = "destroy"
         \/ \E a \in Actors : WriteToFile(a) /\ UNCHANGED <<m_file, hook>>
<1> USE DEF fileVars, lifeVars
<1>1. ASSUME NEW t \in Threads, Call(t) \/ RecordStep(t)
      PROVE  UNCHANGED <<m_file, disk, excess>>
  BY <1>1
  DEF Call, RecordStep, AppendRecord, FillBuffer, OverflowBuffer, WaitIdle, TestIdle,
      SwapFull, SwapPartial, Post, PostJob, UnlockB
<1>2. ASSUME NEW a \in Actors, LockFile(a) \/ NestedRecord(a) \/ NestedCall(a) \/ SpuriousWake(a)
      PROVE  UNCHANGED <<m_file, disk, excess>>
  BY <1>2 DEF LockFile, NestedRecord, NestedCall, SpuriousWake
<1>3. ASSUME NEW a \in Actors, Fopen(a)
      PROVE  UNCHANGED <<disk, excess, hook>> /\ (m_file => m_file')
  BY <1>3 DEF Fopen, OpenFile
<1>4. ASSUME NEW a \in Actors, WriteToFile(a)
      PROVE  UNCHANGED <<m_file, hook>>
  BY <1>4 DEF WriteToFile
<1>5. CASE WriterStep \/ UNCHANGED vars
  BY <1>5 DEF WriterStep, TakeJob, NoJob, JobDone, vars
<1>6. CASE flushClose
  <2>1. pc'[Main] = "destroy"
    BY <1>6, MainAssumption DEF flushClose, HandoffInv, TypeOK, ActorTypeOK, Actors
  <2> QED  BY <1>6, <2>1 DEF flushClose, CloseFile
<1>7. CASE rmemShutDown \/ (ShutdownStep /\ ~flushClose)
  BY <1>7
  DEF ShutdownStep, rmemShutDown, writerStop, writerJoin, flushSnapshot, destroyLocks, unhook
<1> QED  BY <1>1, <1>2, <1>3, <1>4, <1>5, <1>6, <1>7 DEF Next, Ended, FileStep

\* Main, once it is idle after the shutdown, stays so.
LEMMA IdleStays ==
  ASSUME HandoffInv, ~hook, pc[Main] = "idle", [Next]_vars
  PROVE  pc'[Main] = "idle"
<1>1. pc \in [Actors -> ThreadLabels \cup WriterLabels] /\ Main \in Actors /\ Main # Writer
  BY MainAssumption, WriterAssumption DEF HandoffInv, TypeOK, ActorTypeOK, Actors
<1>2. ASSUME NEW t \in Threads, Call(t) \/ RecordStep(t)
      PROVE  pc'[Main] = "idle"
  BY <1>1, <1>2
  DEF Call, RecordStep, AppendRecord, FillBuffer, OverflowBuffer, WaitIdle, TestIdle,
      SwapFull, SwapPartial, Post, PostJob, UnlockB, WithWriterWoken
<1>3. ASSUME NEW a \in Actors, FileStep(a) \/ NestedCall(a) \/ SpuriousWake(a)
      PROVE  pc'[Main] = "idle"
  BY <1>1, <1>3
  DEF FileStep, LockFile, Fopen, WriteToFile, NestedRecord, NestedCall, SpuriousWake
<1>4. CASE WriterStep
  BY <1>1, <1>4 DEF WriterStep, TakeJob, NoJob, JobDone, WithOneWoken
<1>5. CASE ShutdownStep \/ rmemShutDown
  BY <1>5
  DEF ShutdownStep, rmemShutDown, writerStop, writerJoin, flushSnapshot, flushClose,
      destroyLocks, unhook
<1>6. CASE UNCHANGED vars
  BY <1>6 DEF vars
<1> QED  BY <1>2, <1>3, <1>4, <1>5, <1>6 DEF Next, Ended

LEMMA FileOpenStep ==
  ASSUME HandoffInv, QuietInv, FlushInv, [Next]_vars
  PROVE  FileOpenUntilClosed'
<1>1. FileOpenUntilClosed /\ pc \in [Actors -> ThreadLabels \cup WriterLabels]
  BY DEF FlushInv, HandoffInv, TypeOK, ActorTypeOK
<1>2. pc[Main] \in {"destroy", "unhook"} => pc'[Main] \in {"destroy", "unhook"} \/ ~hook'
  <2>1. CASE destroyLocks \/ unhook
    BY <1>1, <2>1, MainAssumption DEF destroyLocks, unhook, Actors
  <2>2. ASSUME NEW t \in Threads, Call(t) \/ RecordStep(t),
               pc[Main] \in {"destroy", "unhook"}
        PROVE  pc'[Main] = pc[Main]
    BY <1>1, <2>2, MainAssumption, WriterAssumption
    DEF Call, RecordStep, AppendRecord, FillBuffer, OverflowBuffer, WaitIdle, TestIdle,
        SwapFull, SwapPartial, Post, PostJob, UnlockB, WithWriterWoken, Actors
  <2>3. ASSUME NEW a \in Actors, FileStep(a) \/ NestedCall(a) \/ SpuriousWake(a),
               pc[Main] \in {"destroy", "unhook"}
        PROVE  pc'[Main] = pc[Main]
    BY <1>1, <2>3, MainAssumption, WriterAssumption
    DEF FileStep, LockFile, Fopen, WriteToFile, NestedRecord, NestedCall, SpuriousWake, Actors
  <2>4. ASSUME WriterStep, pc[Main] \in {"destroy", "unhook"} PROVE pc'[Main] = pc[Main]
    BY <1>1, <2>4, MainAssumption, WriterAssumption
    DEF WriterStep, TakeJob, NoJob, JobDone, WithOneWoken, Actors
  <2>5. ASSUME \/ rmemShutDown \/ writerStop \/ writerJoin \/ flushSnapshot \/ flushClose
               \/ UNCHANGED vars,
               pc[Main] \in {"destroy", "unhook"}
        PROVE  pc'[Main] = pc[Main]
    BY <2>5
    DEF rmemShutDown, writerStop, writerJoin, flushSnapshot, flushClose, vars
  <2> QED  BY <2>1, <2>2, <2>3, <2>4, <2>5 DEF Next, Ended, ShutdownStep
<1>3. hook' = hook \/ ~hook'
  BY LifeNext DEF unhook
<1>4. ~hook => ~hook'
  BY LifeNext DEF unhook
<1>5. CASE UNCHANGED <<m_file, disk, excess>>
  BY <1>1, <1>2, <1>4, <1>5 DEF FileOpenUntilClosed
<1>6. CASE UNCHANGED <<disk, excess, hook>> /\ (m_file => m_file')
  BY <1>1, <1>2, <1>4, <1>6 DEF FileOpenUntilClosed
<1>7. CASE UNCHANGED <<disk, excess, hook>> /\ pc'[Main] = "destroy"
  BY <1>1, <1>7 DEF FileOpenUntilClosed
<1>8. ASSUME NEW a \in Actors, WriteToFile(a), UNCHANGED <<m_file, hook>>
      PROVE  FileOpenUntilClosed'
  <2>1. pc[Main] \notin {"destroy", "unhook"} /\ hook
    <3>1. pc[a] \in FileLabels
      BY <1>8 DEF WriteToFile, FileLabels
    <3>2. pc[Main] \in {"destroy", "unhook"} \/ ~hook =>
            Flushing(Main) /\ pc[Main] \in {"close", "destroy", "unhook", "idle"}
      BY DEF FlushInv, HandoffInv, ControlInv, FlushStages
    <3> QED  BY <3>1, <3>2, AfterFlush
  <2> DEFINE c == Contents(src[a])
  <2>2. WriteChunk(c, m_file)
    BY <1>8 DEF WriteToFile
  <2> HIDE DEF c
  <2>3. CASE m_file
    BY <1>8, <2>2, <2>3 DEF WriteChunk, WriteThrough, FileOpenUntilClosed
  <2>4. CASE ~m_file
    BY <1>1, <2>1, <2>2, <2>4 DEF WriteChunk, KeepExcess, DropChunk, FileOpenUntilClosed
  <2> QED  BY <2>3, <2>4
<1> QED  BY <1>5, <1>6, <1>7, <1>8, FileNext

LEMMA FlushStep ==
  ASSUME StreamInv, FlushInv, [Next]_vars
  PROVE  FlushInv'
<1>1. HandoffInv /\ QuietInv
  BY DEF StreamInv
<1>2. RecordsIn(log) \subseteq RecordsIn(log')
  BY ActiveNext
<1>3. mustSave \subseteq RecordsIn(log)
  BY DEF FlushInv
<1>4. mustSave' \subseteq RecordsIn(log')
  <2>1. CASE rmemShutDown
    <3>1. mustSave' \subseteq RecordsIn(log)
      BY <2>1 DEF rmemShutDown, Complete
    <3> QED  BY <1>2, <3>1
  <2> QED  BY <1>2, <1>3, <2>1, LifeNext
<1>5. Flushing(Main)' => mustSave' \cap RecordsIn(Active') = {}
  <2> SUFFICES ASSUME Flushing(Main)' PROVE mustSave' \cap RecordsIn(Active') = {}
    OBVIOUS
  <2>1. CASE Flushing(Main)
    <3>1. ~rmemShutDown
      BY <1>1, <2>1 DEF rmemShutDown, HandoffInv, ControlInv, FlushStages
    <3>2. mustSave' = mustSave
      BY <3>1, LifeNext
    <3>3. mustSave \cap RecordsIn(Active) = {}
      BY <2>1 DEF FlushInv
    <3> QED  BY <1>3, <3>2, <3>3, ActiveNext
  <2>2. CASE ~Flushing(Main)
    <3>1. Active' = << >>
      BY <1>1, <2>2, FlushingNext, EffectSnapshot DEF Drains
    <3> QED  BY <3>1, RecordsInEmpty
  <2> QED  BY <2>1, <2>2
<1>6. ~hook' => Flushing(Main)' /\ At(Main, "idle")'
  <2>1. CASE unhook
    BY <1>1, <2>1, MainAssumption
    DEF unhook, HandoffInv, TypeOK, ActorTypeOK, ControlInv, FlushStages, Actors, Flushing
  <2>2. CASE ~unhook
    <3> SUFFICES ASSUME ~hook' PROVE Flushing(Main)' /\ At(Main, "idle")'
      OBVIOUS
    <3>1. ~hook /\ Flushing(Main) /\ pc[Main] = "idle"
      BY <2>2, LifeNext DEF FlushInv
    <3>2. pc'[Main] = "idle"
      BY <1>1, <3>1, IdleStays
    <3> QED  BY <1>1, <3>1, <3>2, FlushingNext
  <2> QED  BY <2>1, <2>2
<1>7. FileOpenUntilClosed'
  BY <1>1, FileOpenStep
<1> QED  BY <1>4, <1>5, <1>6, <1>7 DEF FlushInv, RecordsIn

LEMMA FlushInit == Init => FlushInv
BY MainAssumption
DEF Init, FileInit, FlushInv, FileOpenUntilClosed, Flushing, Chunk, Actors

\* FlushInv holds throughout.
LEMMA FlushInvariant ==
  ASSUME Quiet
  PROVE  Spec => [](StreamInv /\ FlushInv)
<1>1. StreamInv /\ FlushInv /\ [Next]_vars => FlushInv'
  BY FlushStep
<1> QED  BY <1>1, FlushInit, StreamInvariant, PTL DEF Spec

\* When rmemShutDown returns, every record whose call had returned before it is in
\* the file, or was given up by writeToFile: neither the two halves, nor the job of
\* the writer, nor s_tempBuffer, nor the excess buffer of an open file holds any
\* of them back.
THEOREM ShutdownSaves ==
  ASSUME Quiet
  PROVE  Spec => []FlushData
<1>1. StreamInv /\ FlushInv => FlushData
  <2> SUFFICES ASSUME StreamInv, FlushInv, ~hook
               PROVE  mustSave \subseteq
                        dropped \cup RecordsIn(IF disk = << >> THEN excess ELSE FlattenSeq(disk))
    BY DEF FlushData
  <2>1. HandoffInv /\ QuietInv /\ TypeOK /\ StreamIntact
    BY DEF StreamInv, HandoffInv
  <2>2. Flushing(Main) /\ pc[Main] = "idle"
    BY DEF FlushInv
  <2>3. Posted = << >> /\ InHand = << >>
    BY <2>1, <2>2, AfterFlush
  <2>4. RecordsIn(Saved) \cup RecordsIn(Active) = RecordsIn(log) \ dropped
    BY <2>1, <2>3, StreamRecords, RecordsInEmpty
  <2>5. mustSave \subseteq dropped \cup RecordsIn(Saved)
    BY <2>2, <2>4 DEF FlushInv
  <2>6. Saved = IF disk = << >> THEN excess ELSE FlattenSeq(disk)
    <3>1. disk \in Seq(Seq(Bytes)) /\ excess \in Seq(Bytes) /\ FlattenSeq(disk) \in Seq(Bytes)
      BY <2>1, FlattenType DEF TypeOK, FileTypeOK
    <3>2. CASE disk = << >>
      BY <3>1, <3>2, FlattenEmpty, ConcatEmptySeq DEF Saved
    <3>3. CASE disk # << >>
      <4>1. excess = << >>
        BY <3>3 DEF FlushInv, FileOpenUntilClosed
      <4> QED  BY <3>1, <3>3, <4>1, ConcatEmptySeq DEF Saved
    <3> QED  BY <3>2, <3>3
  <2> QED  BY <2>5, <2>6
<1> QED  BY <1>1, FlushInvariant, PTL

-----------------------------------------------------------------------------
(* Whole records. *)

LEMMA RecordsOfRange ==
  ASSUME NEW bytes \in Seq(Bytes)
  PROVE  RecordsIn(bytes) = {b.rec : b \in Range(bytes)}
BY DEF RecordsIn, Range

\* The chunks in the file and the excess buffer are what is saved.
LEMMA ChunksSaved ==
  ASSUME TypeOK
  PROVE  /\ \A i \in DOMAIN disk :
              disk[i] \in Seq(Bytes) /\ RecordsIn(disk[i]) \subseteq RecordsIn(Saved)
         /\ RecordsIn(excess) \subseteq RecordsIn(Saved)
<1>1. disk \in Seq(Seq(Bytes)) /\ excess \in Seq(Bytes) /\ FlattenSeq(disk) \in Seq(Bytes)
  BY FlattenType DEF TypeOK, FileTypeOK
<1>2. RecordsIn(Saved) = RecordsIn(FlattenSeq(disk)) \cup RecordsIn(excess)
  BY <1>1, RecordsInConcat DEF Saved
<1>3. ASSUME NEW i \in DOMAIN disk
      PROVE  disk[i] \in Seq(Bytes) /\ RecordsIn(disk[i]) \subseteq RecordsIn(FlattenSeq(disk))
  <2>1. disk[i] \in Seq(Bytes)
    BY <1>1
  <2>2. Range(disk[i]) \subseteq Range(FlattenSeq(disk))
    BY <1>1, FlattenRange
  <2>3. /\ RecordsIn(disk[i]) = {b.rec : b \in Range(disk[i])}
        /\ RecordsIn(FlattenSeq(disk)) = {b.rec : b \in Range(FlattenSeq(disk))}
    BY <1>1, <2>1, RecordsOfRange
  <2> QED  BY <2>1, <2>2, <2>3
<1> QED  BY <1>2, <1>3

\* A chunk that shares no record with what is saved may be added to the file.
LEMMA ApartAppend ==
  ASSUME NEW d \in Seq(Seq(Bytes)), NEW x \in Seq(Bytes),
         \A i, j \in DOMAIN d : i # j => RecordsIn(d[i]) \cap RecordsIn(d[j]) = {},
         \A i \in DOMAIN d : RecordsIn(d[i]) \cap RecordsIn(x) = {}
  PROVE  /\ Append(d, x) \in Seq(Seq(Bytes))
         /\ \A i, j \in DOMAIN Append(d, x) :
              i # j => RecordsIn(Append(d, x)[i]) \cap RecordsIn(Append(d, x)[j]) = {}
         /\ \A i \in DOMAIN Append(d, x) :
              (i \in DOMAIN d /\ Append(d, x)[i] = d[i]) \/ Append(d, x)[i] = x
<1> DEFINE r == Append(d, x)
           k == Len(d)
<1>1. /\ r \in Seq(Seq(Bytes)) /\ k \in Nat
      /\ DOMAIN d = 1..k /\ DOMAIN r = 1..(k + 1) /\ r[k + 1] = x
      /\ \A j \in 1..k : r[j] = d[j]
  OBVIOUS
<1> HIDE DEF r, k
<1>2. ASSUME NEW i \in DOMAIN r, NEW j \in DOMAIN r, i # j
      PROVE  RecordsIn(r[i]) \cap RecordsIn(r[j]) = {}
  <2>1. CASE i = k + 1
    <3>1. j \in DOMAIN d /\ r[j] = d[j] /\ r[i] = x
      BY <1>1, <1>2, <2>1
    <3> QED  BY <3>1
  <2>2. CASE j = k + 1
    <3>1. i \in DOMAIN d /\ r[i] = d[i] /\ r[j] = x
      BY <1>1, <1>2, <2>2
    <3> QED  BY <3>1
  <2>3. CASE i # k + 1 /\ j # k + 1
    <3>1. i \in DOMAIN d /\ r[i] = d[i] /\ j \in DOMAIN d /\ r[j] = d[j]
      BY <1>1, <2>3
    <3> QED  BY <1>2, <3>1
  <2> QED  BY <2>1, <2>2, <2>3
<1>3. ASSUME NEW i \in DOMAIN r PROVE (i \in DOMAIN d /\ r[i] = d[i]) \/ r[i] = x
  BY <1>1
<1>4. \A i, j \in DOMAIN r : i # j => RecordsIn(r[i]) \cap RecordsIn(r[j]) = {}
  BY <1>2
<1>5. \A i \in DOMAIN r : (i \in DOMAIN d /\ r[i] = d[i]) \/ r[i] = x
  BY <1>3
<1> QED  BY <1>1, <1>4, <1>5 DEF r

LEMMA ChunksApartStep ==
  ASSUME StreamInv, ChunksApart, [Next]_vars
  PROVE  ChunksApart'
<1>1. CASE UNCHANGED <<disk, excess>>
  BY SMTT(30), <1>1 DEF ChunksApart, RecordsIn
<1>2. ASSUME NEW a \in Actors, WriteToFile(a)
      PROVE  ChunksApart'
  <2> DEFINE c == Contents(src[a])
  <2>1. c \in {Posted, InHand}
    BY <1>2, EffectWrite DEF StreamInv
  <2>2. TypeOK /\ NoRecordTwice /\ ExcessWithinBuffer
    BY DEF StreamInv, HandoffInv
  <2>3. c \in Seq(Bytes) /\ disk \in Seq(Seq(Bytes)) /\ excess \in Seq(Bytes)
    BY <2>1, <2>2, StreamTypes DEF TypeOK, FileTypeOK
  <2>4. RecordsIn(c) \cap RecordsIn(Saved) = {}
    BY <2>1, <2>2, Apart
  <2>5. WriteChunk(c, m_file)
    BY <1>2 DEF WriteToFile
  <2> HIDE DEF c
  <2>6. /\ \A i \in DOMAIN disk : RecordsIn(disk[i]) \cap RecordsIn(c) = {}
        /\ RecordsIn(excess) \cap RecordsIn(c) = {}
    BY <2>2, <2>4, ChunksSaved
  <2>7. /\ \A i, j \in DOMAIN disk : i # j => RecordsIn(disk[i]) \cap RecordsIn(disk[j]) = {}
        /\ \A i \in DOMAIN disk : RecordsIn(disk[i]) \cap RecordsIn(excess) = {}
    BY DEF ChunksApart
  <2>8. CASE WriteThrough(c)
    <3>1. excess' = << >>
      BY <2>8 DEF WriteThrough
    <3>2. \A i, j \in DOMAIN disk' : i # j => RecordsIn(disk'[i]) \cap RecordsIn(disk'[j]) = {}
      <4>1. CASE m_excessBufferPtr
        <5> DEFINE full == Append(disk, excess)
        <5>1. /\ full \in Seq(Seq(Bytes))
              /\ \A i, j \in DOMAIN full : i # j => RecordsIn(full[i]) \cap RecordsIn(full[j]) = {}
              /\ \A i \in DOMAIN full : (i \in DOMAIN disk /\ full[i] = disk[i]) \/ full[i] = excess
          BY <2>3, <2>7, ApartAppend
        <5>2. disk' = Append(full, c)
          <6>1. disk' = disk \o <<excess>> \o <<c>>
            BY <2>8, <4>1 DEF WriteThrough
          <6>2. disk \o <<excess>> = full
            BY <2>3, AppendIsConcat
          <6> HIDE DEF full
          <6>3. full \o <<c>> = Append(full, c)
            BY <2>3, <5>1, AppendIsConcat
          <6> QED  BY <6>1, <6>2, <6>3
        <5> HIDE DEF full
        <5>3. \A i \in DOMAIN full : RecordsIn(full[i]) \cap RecordsIn(c) = {}
          BY <2>6, <5>1
        <5>4. \A i, j \in DOMAIN Append(full, c) :
                i # j => RecordsIn(Append(full, c)[i]) \cap RecordsIn(Append(full, c)[j]) = {}
          BY <2>3, <5>1, <5>3, ApartAppend
        <5> QED  BY <5>2, <5>4
      <4>2. CASE ~m_excessBufferPtr
        <5>1. disk' = Append(disk, c)
          <6>1. disk' = disk \o << >> \o <<c>>
            BY <2>8, <4>2 DEF WriteThrough
          <6> QED  BY <2>3, <6>1
        <5>2. \A i, j \in DOMAIN Append(disk, c) :
                i # j => RecordsIn(Append(disk, c)[i]) \cap RecordsIn(Append(disk, c)[j]) = {}
          BY <2>3, <2>6, <2>7, ApartAppend
        <5> QED  BY <5>1, <5>2
      <4> QED  BY <4>1, <4>2
    <3>3. RecordsIn(excess') = {}
      BY <3>1, RecordsInEmpty
    <3> QED  BY <3>2, <3>3 DEF ChunksApart, RecordsIn
  <2>9. CASE KeepExcess(c)
    <3>1. disk' = disk /\ excess' = excess \o c
      BY <2>9 DEF KeepExcess
    <3>2. RecordsIn(excess') = RecordsIn(excess) \cup RecordsIn(c)
      BY <2>3, <3>1, RecordsInConcat
    <3>3. /\ \A i, j \in DOMAIN disk' : i # j => RecordsIn(disk'[i]) \cap RecordsIn(disk'[j]) = {}
          /\ \A i \in DOMAIN disk' : RecordsIn(disk'[i]) \cap RecordsIn(excess') = {}
      BY <2>6, <2>7, <3>1, <3>2
    <3> QED  BY <3>3 DEF ChunksApart, RecordsIn
  <2>10. CASE DropChunk(c)
    BY <1>1, <2>10 DEF DropChunk
  <2> QED  BY <2>5, <2>8, <2>9, <2>10 DEF WriteChunk
<1>3. HandoffInv
  BY DEF StreamInv
<1> QED  BY <1>1, <1>2, <1>3, FileNext

\* The bytes of one record in a stream of bytes that are in order: where none of
\* them was dropped, all of them are kept.
LEMMA RecordKept ==
  ASSUME TypeOK, StreamIntact, NoRecordTwice, NEW r \in RecordsIn(Saved)
  PROVE  BytesOf(r, log) = BytesOf(r, Saved)
<1> DEFINE R == {b \in Bytes : b.rec = r}
           K == Keep(dropped)
<1>1. /\ Saved \in Seq(Bytes) /\ Posted \in Seq(Bytes) /\ InHand \in Seq(Bytes)
      /\ Active \in Seq(Bytes) /\ log \in Seq(Bytes)
  BY StreamTypes
<1>2. r \notin dropped
  BY StreamRecords
<1>3. K \cap R = R
  BY <1>2 DEF Keep
<1>4. Sift(log, K) = Saved \o Posted \o InHand \o Active
  BY DEF StreamIntact, Kept, Keep
<1>5. \A x \in {Posted, InHand, Active} : r \notin RecordsIn(x)
  BY Apart
<1>6. ASSUME NEW x \in {Posted, InHand, Active}
      PROVE  Sift(x, R) = << >>
  <2>1. x \in Seq(Bytes) /\ \A i \in DOMAIN x : x[i].rec # r
    BY <1>1, <1>5 DEF RecordsIn
  <2>2. \A i \in DOMAIN x : x[i] \notin R
    BY <2>1
  <2> HIDE DEF R
  <2> QED  BY <2>1, <2>2, SiftNone
<1> HIDE DEF R, K
<1>7. Sift(Sift(log, K), R) = Sift(log, R)
  <2>1. Sift(Sift(log, K), R) = Sift(log, K \cap R)
    BY <1>1, SiftTwice
  <2> QED  BY <1>3, <2>1
<1>8. Sift(Saved \o Posted \o InHand \o Active, R) = Sift(Saved, R)
  <2>1. \A s, u \in Seq(Bytes) :
          s \o u \in Seq(Bytes) /\ Sift(s \o u, R) = Sift(s, R) \o Sift(u, R)
    BY SiftConcats
  <2>2. ASSUME NEW s \in Seq(Bytes), NEW u \in Seq(Bytes), Sift(u, R) = << >>
        PROVE  s \o u \in Seq(Bytes) /\ Sift(s \o u, R) = Sift(s, R)
    <3>1. Sift(s, R) \in Seq(Bytes)
      BY SiftType
    <3>2. Sift(s, R) \o << >> = Sift(s, R)
      BY <3>1, ConcatEmptySeq
    <3> QED  BY ZenonT(30), <2>1, <2>2, <3>2
  <2>3. \A s, u \in Seq(Bytes) :
          Sift(u, R) = << >> => s \o u \in Seq(Bytes) /\ Sift(s \o u, R) = Sift(s, R)
    BY <2>2, Zenon
  <2>4. Sift(Posted, R) = << >> /\ Sift(InHand, R) = << >> /\ Sift(Active, R) = << >>
    BY <1>6
  <2>5. Saved \o Posted \in Seq(Bytes) /\ Sift(Saved \o Posted, R) = Sift(Saved, R)
    BY <1>1, <2>3, <2>4, Zenon
  <2>6. /\ Saved \o Posted \o InHand \in Seq(Bytes)
        /\ Sift(Saved \o Posted \o InHand, R) = Sift(Saved \o Posted, R)
    BY <1>1, <2>3, <2>4, <2>5, Zenon
  <2>7. Sift(Saved \o Posted \o InHand \o Active, R) = Sift(Saved \o Posted \o InHand, R)
    BY <1>1, <2>3, <2>4, <2>6, Zenon
  <2> QED  BY <2>5, <2>6, <2>7, Zenon
<1> QED  BY <1>4, <1>7, <1>8 DEF BytesOf, R

\* Every chunk of the file holds whole records only, and each record is in one
\* chunk: a loader may read the chunks independently of each other.
THEOREM ChunksWhole ==
  ASSUME Quiet
  PROVE  Spec => []WholeRecords
<1>1. Init => ChunksApart
  BY DEF Init, FileInit, ChunksApart
<1>2. StreamInv /\ ChunksApart /\ [Next]_vars => ChunksApart'
  BY ChunksApartStep
<1>3. StreamInv /\ ChunksApart => WholeRecords
  <2> SUFFICES ASSUME StreamInv, ChunksApart, NEW i \in DOMAIN disk,
                      NEW r \in RecordsIn(disk[i])
               PROVE  /\ BytesOf(r, disk[i]) = BytesOf(r, log)
                      /\ \A j \in DOMAIN disk : r \in RecordsIn(disk[j]) => i = j
    BY DEF WholeRecords
  <2> DEFINE R == {b \in Bytes : b.rec = r}
  <2>1. TypeOK /\ StreamIntact /\ NoRecordTwice
    BY DEF StreamInv, HandoffInv
  <2>2. \A j \in DOMAIN disk : r \in RecordsIn(disk[j]) => i = j
    BY DEF ChunksApart
  <2>3. r \notin RecordsIn(excess) /\ r \in RecordsIn(Saved)
    BY <2>1, ChunksSaved DEF ChunksApart
  <2>4. disk \in Seq(Seq(Bytes)) /\ excess \in Seq(Bytes) /\ FlattenSeq(disk) \in Seq(Bytes)
    BY <2>1, FlattenType DEF TypeOK, FileTypeOK
  <2>5. ASSUME NEW x \in Seq(Bytes), r \notin RecordsIn(x)
        PROVE  Sift(x, R) = << >>
    <3>1. \A k \in DOMAIN x : x[k] \notin R
      BY <2>5 DEF RecordsIn
    <3> HIDE DEF R
    <3> QED  BY <3>1, SiftNone
  <2>6. \A j \in DOMAIN disk \ {i} : Sift(disk[j], R) = << >>
    <3>1. \A j \in DOMAIN disk : disk[j] \in Seq(Bytes)
      BY <2>4
    <3> HIDE DEF R
    <3> QED  BY <2>2, <2>5, <3>1
  <2>7. Sift(excess, R) = << >>
    BY <2>3, <2>4, <2>5
  <2> HIDE DEF R
  <2>8. Sift(FlattenSeq(disk), R) = Sift(disk[i], R)
    BY <2>4, <2>6, FlattenSift
  <2>9. Sift(Saved, R) = Sift(FlattenSeq(disk), R) \o Sift(excess, R)
    <3>1. \A s, u \in Seq(Bytes) :
            s \o u \in Seq(Bytes) /\ Sift(s \o u, R) = Sift(s, R) \o Sift(u, R)
      BY SiftConcats
    <3> QED  BY <2>4, <3>1 DEF Saved
  <2>10. Sift(FlattenSeq(disk), R) \o << >> = Sift(FlattenSeq(disk), R)
    <3>1. Sift(FlattenSeq(disk), R) \in Seq(Bytes)
      BY <2>4, SiftType
    <3> QED  BY <3>1, ConcatEmptySeq
  <2>11. BytesOf(r, log) = BytesOf(r, Saved)
    BY <2>1, <2>3, RecordKept
  <2> QED  BY <2>2, <2>7, <2>8, <2>9, <2>10, <2>11 DEF BytesOf, R
<1> QED  BY <1>1, <1>2, <1>3, StreamInvariant, PTL DEF Spec

-----------------------------------------------------------------------------
(* The recording core implements a log. *)

\* The bytes that are going to the file: after flush has taken its snapshot, what
\* is in the active half is not.
Line == Saved \o Posted \o InHand \o (IF Flushing(Main) THEN << >> ELSE Active)
Ends(bytes) == Sift(bytes, LastBytes)

\* What has been recorded is what has been saved and what is on its way.
InLine == Sift(InTime, LastBytes \cap Kept) = Ends(Line)

LEMMA InTimeType ==
  ASSUME TypeOK, LogInv
  PROVE  /\ InTime \in Seq(Bytes)
         /\ Flushing(Main) => log = InTime \o Active
<1>1. log \in Seq(Bytes) /\ Active \in Seq(Bytes)
  BY StreamTypes
<1>2. InTime \in Seq(Bytes)
  <2> DEFINE n == Len(log) - Len(Active)
  <2>1. n \in Int /\ n <= Len(log) /\ 1 \in Int
    BY <1>1, LenProperties
  <2>2. \A i \in 1..n : log[i] \in Bytes
    BY <1>1, <2>1, ElementOfSeq, LenProperties
  <2>3. InTime = IF Flushing(Main) THEN SubSeq(log, 1, n) ELSE log
    BY DEF InTime
  <2> HIDE DEF n
  <2>4. SubSeq(log, 1, n) \in Seq(Bytes)
    BY <2>1, <2>2, SubSeqProperties
  <2> QED  BY <1>1, <2>3, <2>4
<1> QED  BY <1>2 DEF LogInv

\* InLine follows from StreamIntact and from what flush leaves behind.
LEMMA LineIs ==
  ASSUME StreamInv, LogInv
  PROVE  InLine
<1> DEFINE K == Keep(dropped)
           L == LastBytes
           front == Saved \o Posted \o InHand
<1>1. TypeOK /\ StreamIntact
  BY DEF StreamInv, HandoffInv
<1>2. /\ Saved \in Seq(Bytes) /\ Posted \in Seq(Bytes) /\ InHand \in Seq(Bytes)
      /\ Active \in Seq(Bytes) /\ log \in Seq(Bytes) /\ InTime \in Seq(Bytes)
  BY <1>1, StreamTypes, InTimeType
<1>3. front \in Seq(Bytes)
  BY <1>2, ConcatProperties
<1>4. Sift(log, K) = front \o Active
  BY <1>1 DEF StreamIntact, Kept, Keep
<1>5. Sift(InTime, L \cap Kept) = Sift(Sift(InTime, K), L)
  <2>1. L \cap Kept = K \cap L
    BY DEF Kept, Keep
  <2> HIDE DEF K, L
  <2>2. Sift(Sift(InTime, K), L) = Sift(InTime, K \cap L)
    BY <1>2, SiftTwice
  <2> QED  BY <2>1, <2>2
<1>6. Sift(InTime, K) = Line
  <2>1. CASE ~Flushing(Main)
    BY <1>4, <2>1 DEF InTime, Line
  <2>2. CASE Flushing(Main)
    <3>1. log = InTime \o Active
      BY <1>1, <2>2, InTimeType
    <3>2. Sift(Active, K) = Active
      <4>1. RecordsIn(Active) \cap dropped = {}
        BY <1>1, StreamRecords
      <4> QED  BY <1>2, <4>1, KeepAll
    <3>3. Line = front
      <4>1. front \o << >> = front
        BY <1>3, ConcatEmptySeq
      <4> QED  BY <2>2, <4>1 DEF Line
    <3> HIDE DEF K, front
    <3>4. Sift(InTime, K) \in Seq(Bytes)
      BY <1>2, SiftType
    <3>5. Sift(log, K) = Sift(InTime, K) \o Sift(Active, K)
      <4>1. \A s, r \in Seq(Bytes) :
              s \o r \in Seq(Bytes) /\ Sift(s \o r, K) = Sift(s, K) \o Sift(r, K)
        BY SiftConcats
      <4> QED  BY <1>2, <3>1, <4>1, Zenon
    <3>6. Sift(InTime, K) \o Active = front \o Active
      BY <1>4, <3>2, <3>5
    <3>7. Active \in Seq(Bytes)
      BY <1>2
    <3>8. Sift(InTime, K) = front
      BY <1>3, <3>4, <3>6, <3>7, CancelRight
    <3> QED  BY <3>3, <3>8
  <2> QED  BY <2>1, <2>2
<1> QED  BY <1>5, <1>6 DEF InLine, Ends

\* What is in the active half once flush has taken its snapshot comes last.
LEMMA SnapshotFirst ==
  ASSUME NEW h \in Seq(Bytes), Active' \in Seq(Bytes), log' = h \o Active', Flushing(Main)'
  PROVE  (log = InTime \o Active)'
<1>1. SubSeq(h \o Active', 1, Len(h)) = h /\ Len(h \o Active') = Len(h) + Len(Active')
      /\ Len(h) \in Nat /\ Len(Active') \in Nat
  BY SubSeqPrefix
<1>2. Len(log') - Len(Active') = Len(h)
  BY <1>1
<1>3. InTime' = SubSeq(log', 1, Len(log') - Len(Active'))
  BY DEF InTime
<1>4. InTime' = h
  BY <1>1, <1>2, <1>3
<1> QED  BY <1>4

LEMMA SnapshotStep ==
  ASSUME StreamInv, LogInv, [Next]_vars, Flushing(Main)'
  PROVE  (log = InTime \o Active)'
<1>1. TypeOK /\ HandoffInv /\ QuietInv
  BY DEF StreamInv, HandoffInv
<1>2. Active \in Seq(Bytes) /\ log \in Seq(Bytes) /\ InTime \in Seq(Bytes)
  BY <1>1, StreamTypes, InTimeType
<1>3. CASE ~Flushing(Main)
  <2>1. Drains
    BY <1>1, <1>3, FlushingNext, EffectSnapshot
  <2>2. Active' = << >> /\ log' = log
    BY <2>1 DEF Drains
  <2>3. log' = log \o Active' /\ Active' \in Seq(Bytes)
    BY <1>2, <2>2, ConcatEmptySeq
  <2> QED  BY <1>2, <2>3, SnapshotFirst
<1>4. CASE Flushing(Main)
  <2>1. log = InTime \o Active
    BY <1>1, <1>4, InTimeType
  <2> DEFINE h == InTime
  <2>2. CASE UNCHANGED <<Active, log>>
    BY <1>2, <2>1, <2>2, SnapshotFirst
  <2>3. ASSUME NEW a \in Actors, Records(a) PROVE (log = InTime \o Active)'
    <3> DEFINE x == op[a]
    <3>1. x \in Seq(Bytes) /\ Active' = Active \o x /\ log' = log \o x
      BY <1>1, <1>4, <2>3, OneRecordFacts DEF Records, Inserts, Swaps
    <3> HIDE DEF x, h
    <3>2. h \in Seq(Bytes) /\ Active \in Seq(Bytes) /\ x \in Seq(Bytes)
      BY <1>2, <3>1 DEF h
    <3>3. (h \o Active) \o x = h \o (Active \o x)
      BY <3>2, ConcatAssociative
    <3>4. Active' \in Seq(Bytes)
      BY <3>1, <3>2, ConcatProperties
    <3>5. log' = h \o Active'
      BY <2>1, <3>1, <3>3 DEF h
    <3> QED  BY <3>2, <3>4, <3>5, SnapshotFirst
  <2> QED  BY <1>4, <2>2, <2>3, EveryStep DEF Stays, Posts, Drains, Saves, Loses
<1> QED  BY <1>3, <1>4

\* Only fopen leads to the writing of a chunk.
LEMMA WriteNext ==
  ASSUME HandoffInv, [Next]_vars, NEW b \in Actors, pc'[b] = "write"
  PROVE  pc[b] = "write" \/ Fopen(b)
<1>1. pc \in [Actors -> ThreadLabels \cup WriterLabels] /\ Main \in Actors
      /\ Writer \in Actors /\ Threads \subseteq Actors
  BY MainAssumption DEF HandoffInv, TypeOK, ActorTypeOK, Actors
<1>2. ASSUME NEW t \in Threads, Call(t) \/ RecordStep(t)
      PROVE  pc[b] = "write"
  BY <1>1, <1>2
  DEF Call, RecordStep, AppendRecord, FillBuffer, OverflowBuffer, WaitIdle, TestIdle,
      SwapFull, SwapPartial, Post, PostJob, UnlockB, WithWriterWoken, AfterIdle
<1>3. ASSUME NEW a \in Actors, FileStep(a) \/ NestedCall(a) \/ SpuriousWake(a)
      PROVE  pc[b] = "write" \/ Fopen(b)
  BY <1>1, <1>3
  DEF FileStep, LockFile, Fopen, WriteToFile, NestedRecord, NestedCall, SpuriousWake,
      AfterWake, AfterWrite
<1>4. CASE WriterStep
  BY <1>1, <1>4 DEF WriterStep, TakeJob, NoJob, JobDone, WithOneWoken, AfterWake
<1>5. CASE ShutdownStep \/ rmemShutDown
  BY <1>1, <1>5
  DEF ShutdownStep, rmemShutDown, writerStop, writerJoin, flushSnapshot, flushClose,
      destroyLocks, unhook, FirstStep, WithWriterWoken
<1>6. CASE UNCHANGED vars
  BY <1>6 DEF vars
<1> QED  BY <1>2, <1>3, <1>4, <1>5, <1>6 DEF Next, Ended

\* The calls are counted, up to the bound.
LEMMA CallsNext ==
  ASSUME [Next]_vars
  PROVE  calls' = calls \/ (calls < MaxCalls /\ calls' = calls + 1)
<1> USE DEF callVars
<1>1. ASSUME NEW t \in Threads, Call(t) \/ RecordStep(t)
      PROVE  calls' = calls \/ (calls < MaxCalls /\ calls' = calls + 1)
  BY <1>1
  DEF Call, RecordStep, AppendRecord, FillBuffer, OverflowBuffer, WaitIdle, TestIdle,
      SwapFull, SwapPartial, Post, PostJob, UnlockB
<1>2. ASSUME NEW a \in Actors, FileStep(a) \/ NestedCall(a) \/ SpuriousWake(a)
      PROVE  calls' = calls \/ (calls < MaxCalls /\ calls' = calls + 1)
  BY <1>2
  DEF FileStep, LockFile, Fopen, WriteToFile, NestedRecord, NestedCall, SpuriousWake
<1>3. CASE WriterStep \/ ShutdownStep \/ rmemShutDown \/ UNCHANGED vars
  BY <1>3
  DEF WriterStep, TakeJob, NoJob, JobDone, ShutdownStep, rmemShutDown, writerStop, writerJoin,
      flushSnapshot, flushClose, destroyLocks, unhook, vars
<1> QED  BY <1>1, <1>2, <1>3 DEF Next, Ended

LEMMA LogInvStep ==
  ASSUME StreamInv, LogInv, [Next]_vars
  PROVE  LogInv'
<1>1. HandoffInv /\ QuietInv /\ TypeOK
  BY DEF StreamInv, HandoffInv
<1>2. Flushing(Main)' => (log = InTime \o Active)'
  BY SnapshotStep
<1>3. ASSUME NEW b \in Actors, pc'[b] = "write"
      PROVE  m_file' \/ OpenMayFail
  <2>1. CASE Fopen(b)
    BY <2>1 DEF Fopen, OpenFile, FopenOutcomes
  <2>2. CASE pc[b] = "write"
    <3>1. m_file \/ OpenMayFail
      BY <2>2 DEF LogInv
    <3>2. ~flushClose
      <4> SUFFICES ASSUME flushClose PROVE FALSE
        OBVIOUS
      <4>1. Flushing(Main) /\ pc[Main] = "close"
        BY <1>1 DEF flushClose, HandoffInv, ControlInv, FlushStages
      <4> QED  BY <1>1, <2>2, <4>1, AfterFlush DEF FileLabels
    <3> QED  BY <1>1, <3>1, <3>2, FileNext
  <2> QED  BY <1>1, <1>3, <2>1, <2>2, WriteNext
<1>4. calls' <= MaxCalls
  <2>1. calls \in Nat /\ calls <= MaxCalls
    BY <1>1 DEF LogInv, TypeOK, CallTypeOK
  <2> QED  BY <2>1, MaxCallsAssumption, CallsNext
<1> QED  BY <1>2, <1>3, <1>4 DEF LogInv

LEMMA LogInit == Init => LogInv
BY MainAssumption, MaxCallsAssumption
DEF Init, LogInv, Flushing, Chunk, Actors

\* StreamInv, FlushInv and LogInv hold throughout.
LEMMA LogInvariant ==
  ASSUME Quiet
  PROVE  Spec => [](StreamInv /\ FlushInv /\ LogInv)
<1>1. StreamInv /\ LogInv /\ [Next]_vars => LogInv'
  BY LogInvStep
<1> QED  BY <1>1, LogInit, FlushInvariant, PTL DEF Spec


\* Sequences under concatenation.
LEMMA ConcatLaws ==
  ASSUME NEW T
  PROVE  /\ << >> \in Seq(T)
         /\ \A s \in Seq(T) : s \o << >> = s /\ << >> \o s = s
         /\ \A s, r \in Seq(T) : s \o r \in Seq(T)
         /\ \A s, r, u \in Seq(T) : (s \o r) \o u = s \o (r \o u)
BY SMTT(30), ConcatProperties, ConcatEmptySeq, ConcatAssociative

\* What a step does to the line, and to what has been saved of it.
LineStays == Line' = Line /\ Saved' = Saved
LineGrows(x) == Line' = Line \o x /\ Saved' = Saved /\ ~Flushing(Main)
LineHeadSaved(c) ==
  /\ Saves(c) /\ Line' = Line
  /\ \E rest \in Seq(Bytes) : Line = (Saved \o c) \o rest
LineHeadLost(c) ==
  /\ Loses(c)
  /\ \E rest \in Seq(Bytes) : Line = (Saved \o c) \o rest /\ Line' = Saved \o rest

LEMMA LineNext ==
  ASSUME StreamInv, [Next]_vars
  PROVE  \/ LineStays
         \/ \E a \in Actors : OneRecord(op[a]) /\ LineGrows(op[a])
         \/ \E c \in {Posted, InHand} : LineHeadSaved(c) \/ LineHeadLost(c)
<1> DEFINE tail == IF Flushing(Main) THEN << >> ELSE Active
<1>1. HandoffInv /\ QuietInv /\ TypeOK
  BY DEF StreamInv, HandoffInv
<1>2. /\ Saved \in Seq(Bytes) /\ Posted \in Seq(Bytes) /\ InHand \in Seq(Bytes)
      /\ Active \in Seq(Bytes) /\ tail \in Seq(Bytes)
  BY <1>1, StreamTypes
<1>3. /\ << >> \in Seq(Bytes)
      /\ \A s \in Seq(Bytes) : s \o << >> = s /\ << >> \o s = s
      /\ \A s, r \in Seq(Bytes) : s \o r \in Seq(Bytes)
      /\ \A s, r, u \in Seq(Bytes) : (s \o r) \o u = s \o (r \o u)
  BY ConcatLaws
<1>4. /\ Line = Saved \o Posted \o InHand \o tail
      /\ Line' = Saved' \o Posted' \o InHand' \o tail'
  BY DEF Line
<1>5. tail' = IF Flushing(Main)' THEN << >> ELSE Active'
  OBVIOUS
<1>6. CASE Flushing(Main)' /\ ~Flushing(Main)
  <2>1. Drains
    BY <1>1, <1>6, FlushingNext, EffectSnapshot
  <2>2. /\ InHand = << >> /\ InHand' = Active /\ tail' = << >> /\ tail = Active
        /\ Saved' = Saved /\ Posted' = Posted
    BY <1>6, <2>1 DEF Drains
  <2> HIDE DEF tail
  <2>3. Line' = Line
    BY <1>2, <1>3, <1>4, <2>2
  <2> QED  BY <2>2, <2>3 DEF LineStays
<1>7. CASE Flushing(Main)' <=> Flushing(Main)
  <2>1. CASE Stays
    <3>1. Line' = Line
      BY <1>5, <1>7, <2>1 DEF Stays, Line
    <3> QED  BY <2>1, <3>1 DEF Stays, LineStays
  <2>2. ASSUME NEW a \in Actors, Records(a)
        PROVE  LineStays \/ (OneRecord(op[a]) /\ LineGrows(op[a]))
    <3> DEFINE x == op[a]
    <3>1. OneRecord(x) /\ x \in Seq(Bytes)
      BY <1>1, <2>2, OneRecordFacts DEF Records
    <3>2. CASE Inserts(x) /\ Flushing(Main)
      <4>1. Line' = Line
        BY <1>5, <1>7, <3>2 DEF Inserts, Line
      <4> QED  BY <3>2, <4>1 DEF Inserts, LineStays
    <3>3. CASE Inserts(x) /\ ~Flushing(Main)
      <4>1. /\ tail = Active /\ tail' = Active \o x
            /\ Saved' = Saved /\ Posted' = Posted /\ InHand' = InHand
        BY <1>7, <3>3 DEF Inserts
      <4> HIDE DEF tail, x
      <4>2. Line' = Line \o x
        <5>1. Line = ((Saved \o Posted) \o InHand) \o Active
          BY <1>4, <4>1
        <5>2. Line' = ((Saved \o Posted) \o InHand) \o (Active \o x)
          BY <1>4, <4>1
        <5>3. (Saved \o Posted) \o InHand \in Seq(Bytes)
          BY <1>2, <1>3
        <5> DEFINE front == (Saved \o Posted) \o InHand
        <5> HIDE DEF front
        <5>a. x \in Seq(Bytes) /\ Active \in Seq(Bytes)
          BY <1>2, <3>1
        <5>0. front \in Seq(Bytes)
          BY <5>3 DEF front
        <5>4. (front \o Active) \o x = front \o (Active \o x)
          BY SMTT(30), <5>a, <5>0, ConcatAssociative
        <5> QED  BY <5>1, <5>2, <5>4 DEF front
      <4> QED  BY <3>1, <3>3, <4>1, <4>2 DEF LineGrows, x
    <3>4. CASE Swaps(x)
      <4>1. /\ InHand = << >> /\ tail = Active /\ ~Flushing(Main)
            /\ Saved' = Saved /\ Posted' = Posted
            /\ \/ InHand' = Active \o x /\ tail' = << >>
               \/ InHand' = Active /\ tail' = x
        BY <1>7, <3>4 DEF Swaps
      <4> HIDE DEF tail, x
      <4>2. Line = (Saved \o Posted) \o Active
        BY <1>2, <1>3, <1>4, <4>1
      <4>3. CASE InHand' = Active \o x /\ tail' = << >>
        <5>1. Line' = (Saved \o Posted) \o (Active \o x)
          BY <1>2, <1>3, <1>4, <3>1, <4>1, <4>3
        <5>2. Saved \o Posted \in Seq(Bytes)
          BY <1>2, <1>3
        <5>3. Line' = Line \o x
          <6> DEFINE front == Saved \o Posted
          <6> HIDE DEF front
          <6>a. x \in Seq(Bytes) /\ Active \in Seq(Bytes)
            BY <1>2, <3>1
          <6>0. front \in Seq(Bytes)
            BY <5>2 DEF front
          <6>1. (front \o Active) \o x = front \o (Active \o x)
            BY <6>a, <6>0, ConcatAssociative
          <6> QED  BY <4>2, <5>1, <6>1 DEF front
        <5> QED  BY <3>1, <4>1, <5>3 DEF LineGrows, x
      <4>4. CASE InHand' = Active /\ tail' = x
        <5>1. Line' = Line \o x
          BY <1>2, <1>3, <1>4, <3>1, <4>1, <4>2, <4>4
        <5> QED  BY <3>1, <4>1, <5>1 DEF LineGrows, x
      <4> QED  BY <4>1, <4>3, <4>4
    <3> QED  BY <2>2, <3>2, <3>3, <3>4 DEF Records
  <2>3. CASE Posts
    <3>1. /\ Posted = << >> /\ Posted' = InHand /\ InHand' = << >> /\ Saved' = Saved
          /\ tail' = tail
      BY <1>7, <2>3 DEF Posts
    <3> HIDE DEF tail
    <3>2. Line' = Line
      BY <1>2, <1>3, <1>4, <3>1
    <3> QED  BY <3>1, <3>2 DEF LineStays
  <2>4. CASE Drains
    <3>1. /\ InHand = << >> /\ InHand' = Active /\ tail' = << >> /\ tail = Active
          /\ Saved' = Saved /\ Posted' = Posted
      BY <1>7, <2>4 DEF Drains
    <3> HIDE DEF tail
    <3>2. Line' = Line
      BY <1>2, <1>3, <1>4, <3>1
    <3> QED  BY <3>1, <3>2 DEF LineStays
  <2>5. ASSUME NEW c \in {Posted, InHand}, Saves(c) \/ Loses(c)
        PROVE  LineHeadSaved(c) \/ LineHeadLost(c)
    <3>1. Leaves(c) /\ tail' = tail /\ c \in Seq(Bytes)
      BY <1>2, <1>7, <2>5 DEF Saves, Loses
    <3> HIDE DEF tail
    <3>a. Saved' = Saved \/ Saved' = Saved \o c
      BY <2>5 DEF Saves, Loses
    <3>b. Saved' \in Seq(Bytes)
      <4>1. Saved \o c \in Seq(Bytes)
        BY <1>2, <1>3, <3>1
      <4> QED  BY <1>2, <3>a, <4>1
    <3>2. PICK rest \in Seq(Bytes) :
            /\ Line = (Saved \o c) \o rest
            /\ Line' = Saved' \o rest
      <4>1. CASE c = Posted /\ Posted' = << >> /\ UNCHANGED InHand
        <5>1. InHand \o tail \in Seq(Bytes)
          BY <1>2, <1>3
        <5>2. Line = (Saved \o c) \o (InHand \o tail)
          <6>1. Line = ((Saved \o c) \o InHand) \o tail
            BY <1>4, <4>1
          <6>2. Saved \o c \in Seq(Bytes)
            BY <1>2, <1>3, <3>1
          <6> DEFINE front == Saved \o c
          <6> HIDE DEF front
          <6>0. front \in Seq(Bytes)
            BY <6>2 DEF front
          <6>3. (front \o InHand) \o tail = front \o (InHand \o tail)
            BY SMTT(30), <1>2, <6>0, ConcatAssociative
          <6> QED  BY <6>1, <6>3 DEF front
        <5>4. Line' = Saved' \o (InHand \o tail)
          <6>1. Line' = ((Saved' \o << >>) \o InHand) \o tail
            BY <1>4, <3>1, <4>1
          <6>2. Saved' \o << >> = Saved'
            BY <1>3, <3>b
          <6> DEFINE front == Saved'
          <6> HIDE DEF front
          <6>0. front \in Seq(Bytes)
            BY <3>b DEF front
          <6>3. (front \o InHand) \o tail = front \o (InHand \o tail)
            BY <1>2, <6>0, ConcatAssociative
          <6> QED  BY <6>1, <6>2, <6>3 DEF front
        <5> QED  BY <5>1, <5>2, <5>4
      <4>2. CASE c = InHand /\ InHand' = << >> /\ Posted = << >> /\ Posted' = << >>
        <5>2. Line = (Saved \o c) \o tail
          BY <1>2, <1>3, <1>4, <4>2
        <5>3. Line' = Saved' \o tail
          <6>1. Line' = ((Saved' \o << >>) \o << >>) \o tail
            BY <1>4, <3>1, <4>2
          <6>2. Saved' \o << >> = Saved'
            BY <1>3, <3>b
          <6> QED  BY <6>1, <6>2
        <5> QED  BY <1>2, <5>2, <5>3
      <4> QED  BY <3>1, <4>1, <4>2 DEF Leaves
    <3>3. CASE Saves(c)
      BY <3>2, <3>3 DEF Saves, LineHeadSaved
    <3>4. CASE Loses(c)
      BY <3>2, <3>4 DEF Loses, LineHeadLost
    <3> QED  BY <2>5, <3>3, <3>4
  <2> QED  BY <2>1, <2>2, <2>3, <2>4, <2>5, EveryStep
<1> QED  BY <1>1, <1>6, <1>7, FlushingNext


\* The last bytes of a stream, part by part.
LEMMA EndsConcat ==
  /\ Ends(<< >>) = << >>
  /\ \A s \in Seq(Bytes) : Ends(s) \in Seq(Bytes)
  /\ \A s, r \in Seq(Bytes) : s \o r \in Seq(Bytes) /\ Ends(s \o r) = Ends(s) \o Ends(r)
<1> DEFINE L == LastBytes
<1> HIDE DEF L
<1>1. Sift(<< >>, L) = << >>
  BY SiftEmpty
<1>2. \A s \in Seq(Bytes) : Sift(s, L) \in Seq(Bytes)
  BY SiftType
<1>3. \A s, r \in Seq(Bytes) : s \o r \in Seq(Bytes) /\ Sift(s \o r, L) = Sift(s, L) \o Sift(r, L)
  BY SiftConcats
<1> QED  BY <1>1, <1>2, <1>3 DEF Ends, L

LEMMA LineType ==
  ASSUME TypeOK
  PROVE  Line \in Seq(Bytes) /\ Saved \in Seq(Bytes) /\ Posted \in Seq(Bytes)
         /\ InHand \in Seq(Bytes) /\ Ends(Line) \in Seq(Bytes) /\ Ends(Saved) \in Seq(Bytes)
<1> DEFINE tail == IF Flushing(Main) THEN << >> ELSE Active
<1>1. /\ Saved \in Seq(Bytes) /\ Posted \in Seq(Bytes) /\ InHand \in Seq(Bytes)
      /\ tail \in Seq(Bytes) /\ Line = Saved \o Posted \o InHand \o tail
  BY StreamTypes DEF Line
<1> HIDE DEF tail
<1>2. \A s, r \in Seq(Bytes) : s \o r \in Seq(Bytes)
  BY ConcatLaws
<1>3. Line \in Seq(Bytes)
  BY <1>1, <1>2
<1> QED  BY <1>1, <1>3, EndsConcat

\* No record of the line is new.
LEMMA LineRecords ==
  ASSUME TypeOK, StreamIntact
  PROVE  RecordsIn(Line) \subseteq RecordsIn(log)
<1> DEFINE tail == IF Flushing(Main) THEN << >> ELSE Active
<1>1. /\ Saved \in Seq(Bytes) /\ Posted \in Seq(Bytes) /\ InHand \in Seq(Bytes)
      /\ tail \in Seq(Bytes) /\ Line = Saved \o Posted \o InHand \o tail
  BY StreamTypes DEF Line
<1>2. RecordsIn(tail) \subseteq RecordsIn(Active)
  BY RecordsInEmpty
<1> HIDE DEF tail
<1>3. \A s, r \in Seq(Bytes) : s \o r \in Seq(Bytes)
  BY ConcatLaws
<1>4. RecordsIn(Line)
        = ((RecordsIn(Saved) \cup RecordsIn(Posted)) \cup RecordsIn(InHand)) \cup RecordsIn(tail)
  <2>1. Saved \o Posted \in Seq(Bytes) /\ Saved \o Posted \o InHand \in Seq(Bytes)
    BY <1>1, <1>3
  <2>2. RecordsIn(Saved \o Posted) = RecordsIn(Saved) \cup RecordsIn(Posted)
    BY <1>1, RecordsInConcat
  <2>3. RecordsIn(Saved \o Posted \o InHand) = RecordsIn(Saved \o Posted) \cup RecordsIn(InHand)
    BY <1>1, <2>1, RecordsInConcat
  <2>4. RecordsIn(Saved \o Posted \o InHand \o tail)
          = RecordsIn(Saved \o Posted \o InHand) \cup RecordsIn(tail)
    BY <1>1, <2>1, RecordsInConcat
  <2> QED  BY <1>1, <2>2, <2>3, <2>4
<1> QED  BY <1>2, <1>4, StreamRecords

\* What has been recorded, in the terms of CaptureLog.
Recorded == Sift(InTime, LastBytes \cap Kept)

LEMMA InsertStep ==
  ASSUME StreamInv, FlushInv, LogInv, InLine, InLine', hook' = hook,
         NEW a \in Actors, OneRecord(op[a]), LineGrows(op[a])
  PROVE  Log!Next
<1>1. TypeOK /\ StreamIntact
  BY DEF StreamInv, HandoffInv
<1>2. PICK rec \in 1..calls, n \in 1..(BufferSize - 1) :
        op[a] = RecordBytes(rec, n) /\ rec \notin RecordsIn(log)
  BY DEF OneRecord
<1>3. rec \in 0..MaxCalls /\ rec \in Nat /\ n \in Nat \ {0} /\ n \in Nat
  BY <1>1, BufferSizeAssumption, MaxCallsAssumption DEF LogInv, TypeOK, CallTypeOK
<1> DEFINE r == Byte(rec, TRUE)
<1>4. Ends(op[a]) = <<r>> /\ op[a] \in Seq(Bytes)
  BY <1>2, <1>3, LastOfRecord, RecordBytesType DEF Ends
<1>5. r \in Bytes /\ r.rec = rec
  BY <1>3 DEF Byte, Bytes
<1>6. Line \in Seq(Bytes) /\ Ends(Line) \in Seq(Bytes)
  BY <1>1, LineType
<1>7. Ends(Line') = Append(Ends(Line), r)
  <2>1. Ends(Line') = Ends(Line) \o <<r>>
    BY <1>4, <1>6, EndsConcat DEF LineGrows
  <2> HIDE DEF r
  <2> QED  BY <1>5, <1>6, <2>1, AppendIsConcat
<1>8. r \notin ToSet(Ends(Line))
  <2>1. rec \notin RecordsIn(Line)
    BY <1>1, <1>2, LineRecords
  <2>2. r \notin Range(Line)
    BY <1>5, <2>1 DEF RecordsIn, Range
  <2>3. Range(Ends(Line)) \subseteq Range(Line)
    BY <1>6, SiftRange DEF Ends
  <2> QED  BY <2>2, <2>3 DEF Range, ToSet
<1>9. hook
  BY DEF FlushInv, LineGrows
<1>10. Recorded = Ends(Line) /\ Recorded' = Ends(Line')
  BY DEF InLine, Recorded, Ends
<1>11. Sift(Saved, LastBytes)' = Sift(Saved, LastBytes)
  BY DEF LineGrows
<1>12. r \in {Byte(k, TRUE) : k \in 0..MaxCalls}
  BY <1>3
<1> HIDE DEF r
<1>13. Log!Insert(r)
  BY <1>7, <1>8, <1>9, <1>10, <1>11 DEF Log!Insert, Log!ToSet, ToSet, Recorded
<1> QED  BY <1>12, <1>13 DEF Log!Next

\* The next chunk leaves the line: how many records it ends.
LEMMA HeadOfLine ==
  ASSUME TypeOK, NEW c \in Seq(Bytes), NEW rest \in Seq(Bytes), Line = (Saved \o c) \o rest,
         Ends(c) # << >>
  PROVE  \E n \in (Len(Ends(Saved)) + 1)..Len(Ends(Line)) :
           /\ Ends(Saved \o c) = SubSeq(Ends(Line), 1, n)
           /\ Ends(rest) = SubSeq(Ends(Line), n + 1, Len(Ends(Line)))
<1> DEFINE sv == Ends(Saved)
           ec == Ends(c)
           er == Ends(rest)
           sc == sv \o ec
<1>1. sv \in Seq(Bytes) /\ ec \in Seq(Bytes) /\ er \in Seq(Bytes)
  BY LineType, EndsConcat
<1>2. Ends(Saved \o c) = sc /\ Ends(Line) = sc \o er
  <2>1. Saved \in Seq(Bytes) /\ Saved \o c \in Seq(Bytes)
    BY LineType, EndsConcat
  <2> QED  BY <2>1, EndsConcat
<1>3. ec # << >>
  OBVIOUS
<1> HIDE DEF sv, ec, er
<1>4. sc \in Seq(Bytes) /\ Len(sc) = Len(sv) + Len(ec) /\ Len(sv) \in Nat /\ Len(ec) \in Nat
  BY <1>1, SubSeqPrefix, ConcatLaws
<1>5. Len(ec) # 0
  BY <1>1, <1>3, EmptySeq
<1> HIDE DEF sc
<1>6. /\ SubSeq(sc \o er, 1, Len(sc)) = sc
      /\ SubSeq(sc \o er, Len(sc) + 1, Len(sc \o er)) = er
      /\ Len(sc \o er) = Len(sc) + Len(er) /\ Len(er) \in Nat
  <2>1. sc \in Seq(Bytes) /\ er \in Seq(Bytes)
    BY <1>1, <1>4
  <2> QED  BY <2>1, SubSeqPrefix
<1>7. Len(sc) \in (Len(sv) + 1)..Len(sc \o er)
  BY <1>4, <1>5, <1>6
<1> QED  BY Zenon, <1>2, <1>6, <1>7 DEF sv, er

LEMMA SaveStep ==
  ASSUME StreamInv, FlushInv, LogInv, InLine, InLine', hook' = hook,
         NEW c \in {Posted, InHand}, LineHeadSaved(c) \/ LineHeadLost(c)
  PROVE  [Log!Next]_Log!logVars
<1>1. TypeOK /\ HandoffInv /\ QuietInv
  BY DEF StreamInv, HandoffInv
<1>2. PICK rest \in Seq(Bytes) :
        /\ Line = (Saved \o c) \o rest
        /\ LineHeadLost(c) => Line' = Saved \o rest
  BY DEF LineHeadSaved, LineHeadLost
<1>3. /\ c \in Seq(Bytes) /\ Saved \in Seq(Bytes) /\ Saved \o c \in Seq(Bytes)
      /\ Ends(Saved) \in Seq(Bytes) /\ Ends(Line) \in Seq(Bytes)
  BY <1>1, LineType, EndsConcat
<1>4. Recorded = Ends(Line) /\ Recorded' = Ends(Line')
  BY DEF InLine, Recorded, Ends
<1>5. Ends(Saved \o c) = Ends(Saved) \o Ends(c)
  BY <1>3, EndsConcat
<1>6. CASE Ends(c) = << >>
  <2>1. Ends(Saved \o c) = Ends(Saved)
    BY <1>3, <1>5, <1>6, ConcatEmptySeq
  <2>2. CASE LineHeadSaved(c)
    <3>1. Line' = Line /\ Saved' = Saved \o c
      BY <2>2 DEF LineHeadSaved, Saves
    <3>2. Recorded' = Recorded /\ Sift(Saved, LastBytes)' = Sift(Saved, LastBytes)
      BY <1>4, <2>1, <3>1 DEF Ends
    <3> QED  BY <3>2 DEF Log!logVars, Recorded
  <2>3. CASE LineHeadLost(c)
    <3>1. Line' = Saved \o rest /\ Saved' = Saved
      BY <1>2, <2>3 DEF LineHeadLost, Loses
    <3>2. Ends(Line) = Ends(Saved) \o Ends(rest) /\ Ends(Line') = Ends(Saved) \o Ends(rest)
      <4>1. /\ Ends((Saved \o c) \o rest) = Ends(Saved \o c) \o Ends(rest)
            /\ Ends(Saved \o rest) = Ends(Saved) \o Ends(rest)
        BY <1>3, EndsConcat
      <4> QED  BY <1>2, <2>1, <3>1, <4>1
    <3>3. Recorded' = Recorded /\ Sift(Saved, LastBytes)' = Sift(Saved, LastBytes)
      BY <1>4, <3>1, <3>2
    <3> QED  BY <3>3 DEF Log!logVars, Recorded
  <2> QED  BY <2>2, <2>3
<1>7. CASE Ends(c) # << >>
  <2>1. PICK n \in (Len(Ends(Saved)) + 1)..Len(Ends(Line)) :
           /\ Ends(Saved \o c) = SubSeq(Ends(Line), 1, n)
           /\ Ends(rest) = SubSeq(Ends(Line), n + 1, Len(Ends(Line)))
    BY <1>1, <1>2, <1>3, <1>7, HeadOfLine
  <2>2. hook
    <3> SUFFICES ASSUME ~hook PROVE FALSE
      OBVIOUS
    <3>1. c = << >>
      BY <1>1, AfterFlush DEF FlushInv
    <3> QED  BY <1>7, <3>1, EndsConcat
  <2>3. CASE LineHeadSaved(c)
    <3>1. Line' = Line /\ Saved' = Saved \o c
      BY <2>3 DEF LineHeadSaved, Saves
    <3>2. Recorded' = Recorded /\ Sift(Saved, LastBytes)' = SubSeq(Recorded, 1, n)
      BY <1>4, <2>1, <3>1 DEF Ends
    <3>3. Log!Save(n)
      BY <2>2, <3>2 DEF Log!Save, Recorded
    <3> QED  BY <1>4, <2>1, <3>3 DEF Log!Next, Recorded, Ends
  <2>4. CASE LineHeadLost(c)
    <3>1. Line' = Saved \o rest /\ Saved' = Saved
      BY <1>2, <2>4 DEF LineHeadLost, Loses
    <3>2. Ends(Line') = Ends(Saved) \o Ends(rest)
      BY <1>3, <3>1, EndsConcat
    <3>3. /\ Recorded' = Ends(Saved) \o SubSeq(Recorded, n + 1, Len(Recorded))
          /\ Sift(Saved, LastBytes)' = Sift(Saved, LastBytes)
      BY <1>4, <2>1, <3>1, <3>2
    <3>4. OpenMayFail
      BY <2>4 DEF LineHeadLost, Loses, LogInv
    <3>5. Log!Lose(n)
      BY <2>2, <3>3, <3>4 DEF Log!Lose, Recorded, Ends
    <3> QED  BY <1>4, <2>1, <3>5 DEF Log!Next, Recorded, Ends
  <2> QED  BY <2>3, <2>4
<1> QED  BY <1>6, <1>7

LEMMA CloseStep ==
  ASSUME StreamInv, FlushInv, LogInv, InLine, InLine', unhook
  PROVE  Log!Next
<1>1. TypeOK /\ HandoffInv /\ QuietInv
  BY DEF StreamInv, HandoffInv
<1>2. /\ pc[Main] = "unhook" /\ Flushing(Main) /\ ~hook' /\ Flushing(Main)'
      /\ hook
  BY <1>1 DEF unhook, HandoffInv, ControlInv, FlushStages, Flushing, FlushInv
<1>3. Posted = << >> /\ InHand = << >>
  BY <1>1, <1>2, AfterFlush
<1>4. Stays
  BY <1>1, EffectNone, MainAssumption DEF Actors
<1>5. Line = Saved /\ Line' = Saved /\ Saved' = Saved
  <2>1. Saved \o << >> = Saved
    BY <1>1, LineType, ConcatEmptySeq
  <2>2. Line = ((Saved \o << >>) \o << >>) \o << >>
    BY <1>2, <1>3 DEF Line
  <2>3. Line' = ((Saved \o << >>) \o << >>) \o << >>
    BY <1>2, <1>3, <1>4 DEF Line, Stays
  <2>4. Saved' = Saved
    BY <1>4 DEF Stays
  <2> QED  BY <2>1, <2>2, <2>3, <2>4
<1>6. Recorded = Ends(Saved) /\ Recorded' = Ends(Saved)
  BY <1>5 DEF InLine, Recorded, Ends
<1>7. Log!Close
  BY <1>2, <1>5, <1>6 DEF Log!Close, Recorded, Ends
<1> QED  BY <1>7 DEF Log!Next

LEMMA RefinementStep ==
  ASSUME StreamInv, FlushInv, LogInv, InLine, InLine', [Next]_vars
  PROVE  [Log!Next]_Log!logVars
<1>1. CASE unhook
  BY <1>1, CloseStep
<1>2. CASE ~unhook
  <2>1. hook' = hook
    BY <1>2, LifeNext
  <2>2. CASE LineStays
    <3>1. Recorded' = Recorded /\ Sift(Saved, LastBytes)' = Sift(Saved, LastBytes)
      BY <2>2 DEF LineStays, InLine, Recorded, Ends
    <3> QED  BY <2>1, <3>1 DEF Log!logVars, Recorded
  <2>3. CASE \E a \in Actors : OneRecord(op[a]) /\ LineGrows(op[a])
    BY <2>1, <2>3, InsertStep
  <2>4. CASE \E c \in {Posted, InHand} : LineHeadSaved(c) \/ LineHeadLost(c)
    BY <2>1, <2>4, SaveStep
  <2> QED  BY <2>2, <2>3, <2>4, LineNext
<1> QED  BY <1>1, <1>2

\* The recording core implements a log: records are inserted one by one, saved in
\* that order and by whole records, given up only by the chunk that is next in
\* line and while the file cannot be opened, and none is left in the buffers when
\* rmemShutDown returns.
THEOREM CoreImplementsLog ==
  ASSUME Quiet
  PROVE  Spec => ImplementsLog
<1>1. Init => Log!Init
  <2> SUFFICES ASSUME Init PROVE Log!Init
    OBVIOUS
  <2> DEFINE b == Byte(0, TRUE)
  <2>1. ~Flushing(Main) /\ hook = TRUE /\ log = Header /\ dropped = {}
        /\ disk = << >> /\ excess = << >>
    BY MainAssumption DEF Init, FileInit, Flushing, Chunk, Actors
  <2>2. Header \in Seq(Bytes) /\ Sift(Header, LastBytes) = <<b>>
    <3>1. 0 \in Nat /\ 1 \in Nat /\ 1 \in Nat \ {0}
      OBVIOUS
    <3>2. RecordBytes(0, 1) \in Seq(Bytes)
      BY <3>1, RecordBytesType
    <3>3. Sift(RecordBytes(0, 1), LastBytes) = <<b>>
      BY <3>1, LastOfRecord
    <3> QED  BY <3>2, <3>3 DEF Header
  <2>3. Saved = << >>
    BY <2>1, FlattenEmpty, ConcatLaws DEF Saved
  <2>4. Sift(Saved, LastBytes) = << >>
    BY <2>3, SiftEmpty
  <2>5. LastBytes \cap Kept = LastBytes
    BY <2>1 DEF Kept, LastBytes
  <2>6. Sift(InTime, LastBytes \cap Kept) = <<b>>
    BY <2>1, <2>2, <2>5 DEF InTime
  <2>7. b \in {Byte(rec, TRUE) : rec \in 0..MaxCalls}
    <3>1. 0 \in 0..MaxCalls
      BY MaxCallsAssumption
    <3> QED  BY <3>1
  <2> HIDE DEF b
  <2> QED  BY <2>1, <2>4, <2>6, <2>7 DEF Log!Init
<1>2. StreamInv /\ LogInv => InLine
  BY LineIs
<1>3. StreamInv /\ FlushInv /\ LogInv /\ InLine /\ InLine' /\ [Next]_vars
        => [Log!Next]_Log!logVars
  BY RefinementStep
<1> QED  BY <1>1, <1>2, <1>3, LogInvariant, PTL DEF Spec, ImplementsLog, Log!Spec


-----------------------------------------------------------------------------
(* Nobody waits for itself. *)

LEMMA LockRecordStep ==
  ASSUME HandoffInv, LockInv, NEW t \in Threads, Call(t) \/ RecordStep(t)
  PROVE  LockInv'
<1> USE MainAssumption, WriterAssumption, NoneAssumption
    DEF HandoffInv, TypeOK, BufferTypeOK, ActorTypeOK, Actors, Flushing, SwapLabels, FileLabels,
    LockInv, fileVars, lockVars, bufferVars, jobVars, flagVars, lifeVars, callVars
<1>1. CASE Call(t)
  BY <1>1 DEF Call
<1>2. CASE AppendRecord(t)
  BY <1>2 DEF AppendRecord
<1>3. CASE FillBuffer(t)
  BY <1>3 DEF FillBuffer, Chunk
<1>4. CASE OverflowBuffer(t)
  BY <1>4 DEF OverflowBuffer, Chunk
<1>5. CASE WaitIdle(t)
  BY <1>5 DEF WaitIdle, AfterIdle
<1>6. CASE TestIdle(t)
  BY <1>6 DEF TestIdle, AfterIdle
<1>7. CASE SwapFull(t)
  BY <1>7 DEF SwapFull, doubleBuffer, Chunk
<1>8. CASE SwapPartial(t)
  BY <1>8 DEF SwapPartial, doubleBuffer, Chunk
<1>9. CASE Post(t)
  BY <1>9 DEF Post
<1>10. CASE PostJob(t)
  BY <1>10 DEF PostJob, WithWriterWoken
<1>11. CASE UnlockB(t)
  BY <1>11 DEF UnlockB, Released
<1> QED  BY <1>1, <1>2, <1>3, <1>4, <1>5, <1>6, <1>7, <1>8, <1>9, <1>10, <1>11 DEF RecordStep

LEMMA LockFileStep ==
  ASSUME HandoffInv, LockInv, NEW a \in Actors, FileStep(a) \/ NestedCall(a) \/ SpuriousWake(a)
  PROVE  LockInv'
<1> USE MainAssumption, WriterAssumption, NoneAssumption
    DEF HandoffInv, TypeOK, BufferTypeOK, ActorTypeOK, Actors, Flushing, SwapLabels, FileLabels,
    LockInv, fileVars, lockVars, bufferVars, jobVars, flagVars, lifeVars, callVars
<1>1. CASE LockFile(a)
  BY <1>1 DEF LockFile
<1>2. CASE Fopen(a)
  BY <1>2 DEF Fopen
<1>3. CASE WriteToFile(a)
  BY <1>3 DEF WriteToFile, AfterWrite, Released
<1>4. CASE NestedRecord(a)
  BY <1>4 DEF NestedRecord
<1>5. CASE NestedCall(a)
  BY <1>5 DEF NestedCall
<1>6. CASE SpuriousWake(a)
  BY <1>6 DEF SpuriousWake, AfterWake
<1> QED  BY <1>1, <1>2, <1>3, <1>4, <1>5, <1>6 DEF FileStep

LEMMA LockOtherStep ==
  ASSUME HandoffInv, LockInv, WriterStep \/ ShutdownStep \/ rmemShutDown
  PROVE  LockInv'
<1> USE MainAssumption, WriterAssumption, NoneAssumption
    DEF HandoffInv, TypeOK, BufferTypeOK, ActorTypeOK, Actors, Flushing, SwapLabels, FileLabels,
    LockInv, fileVars, lockVars, bufferVars, jobVars, flagVars, lifeVars, callVars
<1>1. CASE TakeJob
  BY <1>1 DEF TakeJob, Chunk
<1>2. CASE NoJob
  BY <1>2 DEF NoJob
<1>3. CASE JobDone
  BY <1>3 DEF JobDone, WithOneWoken, AfterWake
<1>4. CASE rmemShutDown
  BY <1>4 DEF rmemShutDown, FirstStep
<1>5. CASE writerStop
  BY <1>5 DEF writerStop, WithWriterWoken
<1>6. CASE writerJoin
  BY <1>6 DEF writerJoin
<1>7. CASE flushSnapshot
  BY <1>7 DEF flushSnapshot, Chunk
<1>8. CASE flushClose
  BY <1>8 DEF flushClose
<1>9. CASE destroyLocks
  BY <1>9 DEF destroyLocks
<1>10. CASE unhook
  BY <1>10 DEF unhook
<1> QED
  BY <1>1, <1>2, <1>3, <1>4, <1>5, <1>6, <1>7, <1>8, <1>9, <1>10 DEF WriterStep, ShutdownStep

LEMMA LockInvariant == Spec => [](HandoffInv /\ LockInv)
<1>1. Init => LockInv
  BY NoneAssumption DEF Init, LockInv, Actors
<1>2. ASSUME HandoffInv, LockInv, [Next]_vars PROVE LockInv'
  <2>1. CASE \E t \in Threads : Call(t) \/ RecordStep(t)
    BY <1>2, <2>1, LockRecordStep
  <2>2. CASE \E a \in Actors : FileStep(a) \/ NestedCall(a) \/ SpuriousWake(a)
    BY <1>2, <2>2, LockFileStep
  <2>3. CASE WriterStep \/ ShutdownStep \/ rmemShutDown
    BY <1>2, <2>3, LockOtherStep
  <2>4. CASE UNCHANGED vars
    BY <1>2, <2>4
    DEF LockInv, vars, lockVars, Flushing
  <2> QED  BY <1>2, <2>1, <2>2, <2>3, <2>4 DEF Next, Ended
<1>3. HandoffInv /\ LockInv /\ [Next]_vars => LockInv'
  BY <1>2
<1> QED  BY <1>1, <1>3, HandoffInvariant, PTL DEF Spec

\* How far an actor is from one that waits for nobody.
Rank(a) ==
  CASE pc[a] \in {"lockB", "flushB"} -> 3
    [] pc[a] \in {"waitDone", "join"} -> 2
    [] pc[a] = "lockF" -> 1
    [] OTHER -> 0

\* Who is waited for is nearer.
LEMMA WaitsForNearer ==
  ASSUME HandoffInv, LockInv, ~Reentrant \/ (Quiet /\ QuietInv),
         NEW a \in Actors, NEW b \in WaitsFor(a)
  PROVE  b \in Actors /\ Rank(b) < Rank(a)
<1> USE MainAssumption, WriterAssumption, NoneAssumption DEF Actors
<1>1. /\ OwnLabels /\ OnlyMainFlushes
      /\ m_mutexInternalBufferPtrs \in Threads \cup {NONE}
      /\ m_mutexWriteToFile \in Actors \cup {NONE}
  BY DEF HandoffInv, ControlInv, TypeOK, LockTypeOK
<1>2. Writer \in Actors /\ (Rank(Writer) = 0 \/ Rank(Writer) = 1)
  BY <1>1 DEF OwnLabels, WriterLabels, Rank
<1>3. CASE pc[a] \in {"lockB", "flushB"}
  <2>1. b = m_mutexInternalBufferPtrs /\ b \in Threads
    BY <1>1, <1>3 DEF WaitsFor
  <2>2. pc[b] \in SwapLabels \cup FileLabels \cup {"unlockB"}
    BY <2>1 DEF LockInv
  <2>3. Rank(a) = 3
    BY <1>3 DEF Rank
  <2>4. Rank(b) \in {0, 1, 2}
    BY <2>2 DEF Rank, SwapLabels, FileLabels
  <2> QED  BY <2>1, <2>3, <2>4
<1>4. CASE pc[a] = "nestedB"
  <2>1. a \in Threads /\ b = m_mutexInternalBufferPtrs /\ b \in Threads /\ b # a
    BY <1>1, <1>4 DEF WaitsFor, OwnLabels, WriterLabels
  <2>2. Quiet /\ QuietInv
    BY <1>4 DEF LockInv
  <2>3. Flushing(a) /\ a = Main
    BY <1>1, <1>4, <2>1, <2>2 DEF QuietInv, InsideOwnLock, FileLabels, OnlyMainFlushes
  <2>4. pc[b] = "idle"
    BY <2>1, <2>2, <2>3 DEF QuietInv, OthersAtRest, ShuttingDown
  <2> QED  BY <2>1, <2>4 DEF LockInv, SwapLabels, FileLabels
<1>5. CASE pc[a] = "lockF"
  <2>1. b = m_mutexWriteToFile /\ b \in Actors
    BY <1>1, <1>5 DEF WaitsFor
  <2>2. pc[b] \in {"open", "nestedB", "write"}
    BY <2>1 DEF LockInv, FileLabels
  <2>3. Rank(a) = 1 /\ Rank(b) = 0
    BY <1>5, <2>2 DEF Rank
  <2> QED  BY <2>1, <2>3
<1>6. CASE pc[a] \in {"waitDone", "join"}
  <2>1. b = Writer
    BY <1>6 DEF WaitsFor
  <2>2. Rank(a) = 2
    BY <1>6 DEF Rank
  <2> QED  BY <1>2, <2>1, <2>2
<1>7. CASE pc[a] \notin {"lockB", "flushB", "nestedB", "lockF", "waitDone", "join"}
  BY <1>7 DEF WaitsFor
<1> QED  BY <1>3, <1>4, <1>5, <1>6, <1>7

\* The recursion by which NoWaitCycle follows the waiting.
Reaches(m, g) ==
  g = [n \in 0..m |-> IF n = 0 THEN [a \in Actors |-> WaitsFor(a)]
                      ELSE [a \in Actors |-> g[n - 1][a] \cup
                                             UNION {WaitsFor(b) : b \in g[n - 1][a]}]]

LEMMA ReachesExist ==
  ASSUME NEW m \in Nat
  PROVE  \E g : Reaches(m, g)
<1> DEFINE G == {k \in Nat : \E g : Reaches(k, g)}
           More(h) == [a \in Actors |-> h[a] \cup UNION {WaitsFor(b) : b \in h[a]}]
           First == [a \in Actors |-> WaitsFor(a)]
<1>0. \A k, g : Reaches(k, g) <=>
                  g = [n \in 0..k |-> IF n = 0 THEN First ELSE More(g[n - 1])]
  BY DEF Reaches
<1> HIDE DEF More, First
<1>1. 0 \in G
  <2> DEFINE g == [n \in 0..0 |-> First]
  <2>1. g = [n \in 0..0 |-> IF n = 0 THEN First ELSE More(g[n - 1])]
    OBVIOUS
  <2> HIDE DEF g
  <2> QED  BY <1>0, <2>1
<1>2. ASSUME NEW k \in G PROVE k + 1 \in G
  <2>1. PICK f : f = [n \in 0..k |-> IF n = 0 THEN First ELSE More(f[n - 1])]
    BY <1>0
  <2> DEFINE g == [n \in 0..(k + 1) |-> IF n <= k THEN f[n] ELSE More(f[n - 1])]
  <2>2. \A n \in 0..(k + 1) : g[n] = IF n = 0 THEN First ELSE More(g[n - 1])
    <3>1. \A n \in 0..k : f[n] = IF n = 0 THEN First ELSE More(f[n - 1])
      BY <2>1
    <3>2. g[k + 1] = More(f[k])
      OBVIOUS
    <3>3. \A n \in 0..k : g[n] = f[n]
      OBVIOUS
    <3> HIDE DEF g
    <3> QED  BY <3>1, <3>2, <3>3
  <2>3. g = [n \in 0..(k + 1) |-> IF n = 0 THEN First ELSE More(g[n - 1])]
    BY <2>2
  <2> HIDE DEF g
  <2>4. Reaches(k + 1, g)
    BY <2>3 DEF Reaches, More, First
  <2> QED  BY <2>4
<1>3. G = Nat
  <2>1. G \in SUBSET Nat
    OBVIOUS
  <2> HIDE DEF G
  <2> QED  BY <1>1, <1>2, <2>1, NatInduct
<1> QED  BY <1>3

\* Whoever is reached is nearer.
LEMMA ReachedNearer ==
  ASSUME \A a \in Actors : \A b \in WaitsFor(a) : b \in Actors /\ Rank(b) < Rank(a),
         NEW m \in Nat, NEW g, Reaches(m, g)
  PROVE  \A a \in Actors : \A b \in g[m][a] : b \in Actors /\ Rank(b) < Rank(a)
<1> DEFINE Near(k) == \A a \in Actors : \A b \in g[k][a] : b \in Actors /\ Rank(b) < Rank(a)
           G == {k \in Nat : k <= m => Near(k)}
<1>0. \A a \in Actors : Rank(a) \in Nat
  BY DEF Rank
<1>1. \A n \in 0..m :
        g[n] = IF n = 0 THEN [a \in Actors |-> WaitsFor(a)]
               ELSE [a \in Actors |-> g[n - 1][a] \cup
                                      UNION {WaitsFor(b) : b \in g[n - 1][a]}]
  BY DEF Reaches
<1>2. 0 \in G
  <2>1. g[0] = [a \in Actors |-> WaitsFor(a)]
    <3>1. 0 \in 0..m /\ 0 = 0
      OBVIOUS
    <3>2. g[0] = IF 0 = 0 THEN [a \in Actors |-> WaitsFor(a)]
                 ELSE [a \in Actors |-> g[0 - 1][a] \cup
                                        UNION {WaitsFor(b) : b \in g[0 - 1][a]}]
      BY <1>1, <3>1, Zenon
    <3> QED  BY <3>2
  <2>2. \A a \in Actors : g[0][a] = WaitsFor(a)
    BY <2>1
  <2>3. Near(0)
    BY <2>2
  <2> QED  BY <2>3
<1>3. ASSUME NEW k \in G PROVE k + 1 \in G
  <2> SUFFICES ASSUME k + 1 <= m, NEW a \in Actors, NEW b \in g[k + 1][a]
               PROVE  b \in Actors /\ Rank(b) < Rank(a)
    OBVIOUS
  <2>1. k + 1 \in 0..m /\ k + 1 # 0 /\ (k + 1) - 1 = k /\ Near(k)
    OBVIOUS
  <2>2. g[k + 1][a] = g[k][a] \cup UNION {WaitsFor(c) : c \in g[k][a]}
    <3>1. g[k + 1] = [c \in Actors |-> g[k][c] \cup UNION {WaitsFor(d) : d \in g[k][c]}]
      BY <1>1, <2>1
    <3> QED  BY <3>1
  <2>3. CASE b \in g[k][a]
    BY <2>1, <2>3
  <2>4. ASSUME NEW c \in g[k][a], b \in WaitsFor(c)
        PROVE  b \in Actors /\ Rank(b) < Rank(a)
    <3>1. c \in Actors /\ Rank(c) < Rank(a)
      BY <2>1
    <3>2. b \in Actors /\ Rank(b) < Rank(c)
      BY <2>4, <3>1
    <3>3. Rank(a) \in Nat /\ Rank(b) \in Nat /\ Rank(c) \in Nat
      BY <1>0, <3>1, <3>2
    <3> QED  BY <3>1, <3>2, <3>3
  <2> QED  BY <2>2, <2>3, <2>4
<1>4. G = Nat
  <2>1. G \in SUBSET Nat
    OBVIOUS
  <2> HIDE DEF G
  <2> QED  BY <1>2, <1>3, <2>1, NatInduct
<1> QED  BY <1>4

\* No actor waits, through any chain of others, for itself, if the threads are at
\* rest during the shutdown, or if the allocations of fopen are not hooked: the
\* buffer lock comes before the writer, and the writer before the file lock.
THEOREM NobodyWaitsForItself ==
  ASSUME ~Reentrant \/ Quiet
  PROVE  Spec => []NoWaitCycle
<1> DEFINE N == Cardinality(Actors)
<1>1. N \in Nat
  BY ThreadsAssumption, FS_AddElement, FS_CardinalityType DEF Actors
<1>2. ASSUME HandoffInv, LockInv, ~Reentrant \/ (Quiet /\ QuietInv)
      PROVE  NoWaitCycle
  <2> DEFINE g == CHOOSE g : Reaches(N, g)
  <2>1. Reaches(N, g)
    BY <1>1, ReachesExist
  <2>2. NoWaitCycle <=> \A a \in Actors : a \notin g[N][a]
    BY DEF NoWaitCycle, Reaches
  <2> HIDE DEF g, N
  <2>3. \A a \in Actors : \A b \in WaitsFor(a) : b \in Actors /\ Rank(b) < Rank(a)
    BY <1>2, WaitsForNearer
  <2>4. \A a \in Actors : \A b \in g[N][a] : b \in Actors /\ Rank(b) < Rank(a)
    BY <1>1, <2>1, <2>3, ReachedNearer
  <2>5. \A a \in Actors : Rank(a) \in Nat
    BY DEF Rank
  <2>6. \A a \in Actors : ~(Rank(a) < Rank(a))
    BY <2>5
  <2> QED  BY <2>2, <2>4, <2>6
<1>3. CASE Quiet
  <2>1. HandoffInv /\ LockInv /\ QuietInv => NoWaitCycle
    BY <1>2, <1>3
  <2> QED  BY <1>3, <2>1, LockInvariant, QuietInvariant, PTL
<1>4. CASE ~Reentrant
  <2>1. HandoffInv /\ LockInv => NoWaitCycle
    BY <1>2, <1>4
  <2> QED  BY <2>1, LockInvariant, PTL
<1> QED  BY <1>3, <1>4
===============================================================================
