------------------------------ MODULE MemoryHook ------------------------------
(***************************************************************************)
(* The recording core of rmem: the double buffer filled by the hooked      *)
(* threads (MemoryHook::writeToBuffer), the background writer that saves a *)
(* full half (writerPost, writerWaitIdle, writerLoop), and the shutdown    *)
(* that drains both (~MemoryHook, writerStop, flush; rmemShutDown).        *)
(*                                                                         *)
(* Actors: the hooked Threads, one of which, Main, shuts rmem down, and    *)
(* the Writer.  Init is the state rmemInit leaves: the header is in the    *)
(* buffer, the writer runs, or its creation failed.                        *)
(*                                                                         *)
(* Grain: a critical section of m_mutexInternalBufferPtrs that ends before *)
(* any blocking call is one step, and so is each critical section of       *)
(* m_writerLock, which holds nothing but the job slot, the flags and the   *)
(* condition variables.  Reads of m_writerStarted and of the hook pointer  *)
(* that the code does outside every lock are steps of their own.           *)
(***************************************************************************)
EXTENDS CaptureFile, FiniteSets

CONSTANTS
  Threads,      \* threads whose allocations are recorded
  Main,         \* the one that calls rmemShutDown
  Writer,       \* the background writer
  RecordSizes,  \* sizes a record may have, in bytes
  MaxCalls,     \* bound on the calls that record something
  Quiet,        \* do the other threads stop recording before the shutdown?
  Reentrant,    \* are the allocations fopen makes hooked too? (Windows heap hooks)
  NONE          \* the null pointer, and the owner of a free lock

ASSUME ThreadsAssumption == IsFiniteSet(Threads)
ASSUME MainAssumption == Main \in Threads
ASSUME WriterAssumption == Writer \notin Threads
ASSUME NoneAssumption == NONE \notin Threads \cup {Writer} /\ NONE \notin Nat
\* The code rests on it: "Records are always far smaller than BufferSize".
ASSUME RecordSizesAssumption == RecordSizes \subseteq 1..(BufferSize - 1)
\* The header leaves room in the first half.
ASSUME HeaderAssumption == BufferSize > 1
ASSUME MaxCallsAssumption == MaxCalls \in Nat
ASSUME SwitchesAssumption == Quiet \in BOOLEAN /\ Reentrant \in BOOLEAN

VARIABLES
  hook,                       \* getMemoryHookPtr() is not null
  destroyed,                  \* the destructor has run: the locks are destroyed
  m_mutexInternalBufferPtrs,  \* owner of the buffer lock
  m_mutexWriteToFile,         \* owner of the file lock
  m_bufferPtr,                \* the half being filled: 0 or 1
  m_bufferBytesWritten,
  mem,                        \* m_bufferData[0], m_bufferData[1] and s_tempBuffer
  m_writeJobPtr,              \* the half posted to the writer, or NONE
  m_writeJobSize,
  m_writerStop,
  m_writerStarted,
  pc,                         \* where each actor is
  src,                        \* the chunk each actor has in its hands
  op,                         \* tmpBuffer: the record each actor is recording
  calls,                      \* calls made so far
  log,                        \* every byte inserted so far, in lock order (history)
  mustSave                    \* records complete when the shutdown began (history)

lockVars == <<m_mutexInternalBufferPtrs, m_mutexWriteToFile>>
bufferVars == <<m_bufferPtr, m_bufferBytesWritten, mem>>
jobVars == <<m_writeJobPtr, m_writeJobSize>>
flagVars == <<m_writerStop, m_writerStarted>>
lifeVars == <<hook, destroyed, mustSave>>
callVars == <<op, calls, log>>
vars == <<fileVars, lockVars, bufferVars, jobVars, flagVars, lifeVars,
          callVars, pc, src>>

Actors == Threads \cup {Writer}
Halves == {0, 1}
Temp == 2                  \* s_tempBuffer
NullByte == Byte(0, FALSE) \* what the static buffers hold at first
Chunk(buf, size) == [buf |-> buf, size |-> size]
Contents(c) == SubSeq(mem[c.buf], 1, c.size)

\* memcpy(&buffer[at], bytes): what the buffer holds further on stays.
Copied(buffer, at, bytes) ==
  [i \in 1..BufferSize |->
     IF i \in (at + 1)..(at + Len(bytes)) THEN bytes[i - at] ELSE buffer[i]]

Header == RecordBytes(0, 1)

Init ==
  /\ FileInit
  /\ hook = TRUE
  /\ destroyed = FALSE
  /\ m_mutexInternalBufferPtrs = NONE
  /\ m_mutexWriteToFile = NONE
  /\ m_bufferPtr = 0
  /\ m_bufferBytesWritten = 1
  /\ mem = [b \in {0, 1, Temp} |->
              IF b = 0 THEN Copied([i \in 1..BufferSize |-> NullByte], 0, Header)
                       ELSE [i \in 1..BufferSize |-> NullByte]]
  /\ m_writeJobPtr = NONE
  /\ m_writeJobSize = 0
  /\ m_writerStop = FALSE
  /\ m_writerStarted \in BOOLEAN
  /\ pc = [a \in Actors |->
             IF a # Writer THEN "idle"
             ELSE IF m_writerStarted THEN "testJob" ELSE "exited"]
  /\ src = [a \in Actors |-> Chunk(0, 0)]
  /\ op = [a \in Actors |-> <<>>]
  /\ calls = 0
  /\ log = Header
  /\ mustSave = {}

At(a, l) == pc[a] = l
Goto(a, l) == pc' = [pc EXCEPT ![a] = l]

\* flush hands s_tempBuffer to writeToFile; every other caller a half.
Flushing(a) == src[a].buf = Temp

\* A destroyed mutex excludes nobody: lock fails at once and the caller goes on.
LockFree(owner) == owner = NONE \/ destroyed
Released(owner, a) == IF owner = a THEN NONE ELSE owner

-----------------------------------------------------------------------------
(***************************************************************************)
(* The hooked threads: rmemAlloc, rmemFree, ... and writeToBuffer.         *)
(***************************************************************************)

\* The API entry: the hook pointer is tested, the record is composed.
Call(t) ==
  /\ At(t, "idle") /\ hook
  /\ calls < MaxCalls
  /\ Quiet => At(Main, "idle")
  /\ calls' = calls + 1
  /\ \E n \in RecordSizes : op' = [op EXCEPT ![t] = RecordBytes(calls + 1, n)]
  /\ Goto(t, "lockB")
  /\ UNCHANGED <<fileVars, lockVars, bufferVars, jobVars, flagVars, lifeVars, log, src>>

Needed(t) == m_bufferBytesWritten + Len(op[t])
BugFitsExactly(t) == Needed(t) <= BufferSize
Fits(t) == Needed(t) < BufferSize

CopyToBuffer(t) ==
  mem' = [mem EXCEPT ![m_bufferPtr] = Copied(@, m_bufferBytesWritten, op[t])]

\* The record fits and leaves room.
AppendRecord(t) ==
  /\ At(t, "lockB") /\ LockFree(m_mutexInternalBufferPtrs)
  /\ Fits(t)
  /\ CopyToBuffer(t)
  /\ m_bufferBytesWritten' = Needed(t)
  /\ log' = log \o op[t]
  /\ Goto(t, "idle")
  /\ UNCHANGED <<fileVars, lockVars, m_bufferPtr, jobVars, flagVars, lifeVars,
                 op, calls, src>>

\* The record ends exactly on the boundary: it is copied, then the halves are
\* to be swapped, with the lock held throughout.
FillBuffer(t) ==
  /\ At(t, "lockB") /\ LockFree(m_mutexInternalBufferPtrs)
  /\ Needed(t) = BufferSize
  /\ CopyToBuffer(t)
  /\ m_mutexInternalBufferPtrs' = t
  /\ src' = [src EXCEPT ![t] = Chunk(m_bufferPtr, BufferSize)]
  /\ Goto(t, "waitIdle")
  /\ UNCHANGED <<fileVars, m_mutexWriteToFile, m_bufferPtr, m_bufferBytesWritten,
                 jobVars, flagVars, lifeVars, callVars>>

\* The record does not fit: the partial half is to be swapped out first.
OverflowBuffer(t) ==
  /\ At(t, "lockB") /\ LockFree(m_mutexInternalBufferPtrs)
  /\ Needed(t) > BufferSize
  /\ m_mutexInternalBufferPtrs' = t
  /\ src' = [src EXCEPT ![t] = Chunk(m_bufferPtr, m_bufferBytesWritten)]
  /\ Goto(t, "waitIdle")
  /\ UNCHANGED <<fileVars, m_mutexWriteToFile, bufferVars, jobVars, flagVars,
                 lifeVars, callVars>>

-----------------------------------------------------------------------------
(* writerWaitIdle: before a swap, and in flush. *)

BugNeverPending == FALSE
JobPending == m_writeJobPtr # NONE

AfterIdle(t) == IF Flushing(t) THEN "lockF" ELSE "swap"

\* The unlocked test of m_writerStarted.
WaitIdle(t) ==
  /\ At(t, "waitIdle")
  /\ Goto(t, IF m_writerStarted THEN "testIdle" ELSE AfterIdle(t))
  /\ UNCHANGED <<fileVars, lockVars, bufferVars, jobVars, flagVars, lifeVars,
                 callVars, src>>

\* The loop over m_writerDoneCv: "waitDone" is asleep on it, and a thread that
\* wakes tests again.
BugIfNotWhile(t) == AfterIdle(t)
AfterWake(t) == "testIdle"

TestIdle(t) ==
  /\ At(t, "testIdle")
  /\ Goto(t, IF JobPending THEN "waitDone" ELSE AfterIdle(t))
  /\ UNCHANGED <<fileVars, lockVars, bufferVars, jobVars, flagVars, lifeVars,
                 callVars, src>>

-----------------------------------------------------------------------------
(* doubleBuffer, and writerPost.  src[t].size tells which of the two cases *)
(* above t is in: only a full half has BufferSize bytes.                   *)

BugSizeBeforeLast(t, size) ==
  /\ src' = [src EXCEPT ![t] = Chunk(m_bufferPtr, m_bufferBytesWritten)]
  /\ m_bufferPtr' = 1 - m_bufferPtr

BugWholeHalf(t, size) ==
  /\ src' = [src EXCEPT ![t] = Chunk(m_bufferPtr, BufferSize)]
  /\ m_bufferPtr' = 1 - m_bufferPtr

doubleBuffer(t, size) ==
  /\ src' = [src EXCEPT ![t] = Chunk(m_bufferPtr, size)]
  /\ m_bufferPtr' = 1 - m_bufferPtr

SwapFull(t) ==
  /\ At(t, "swap") /\ src[t].size = BufferSize
  /\ doubleBuffer(t, BufferSize)
  /\ m_bufferBytesWritten' = 0
  /\ log' = log \o op[t]
  /\ Goto(t, "post")
  /\ UNCHANGED <<fileVars, lockVars, mem, jobVars, flagVars, lifeVars, op, calls>>

SwapPartial(t) ==
  /\ At(t, "swap") /\ src[t].size # BufferSize
  /\ doubleBuffer(t, m_bufferBytesWritten)
  /\ mem' = [mem EXCEPT ![1 - m_bufferPtr] = Copied(@, 0, op[t])]
  /\ m_bufferBytesWritten' = Len(op[t])
  /\ log' = log \o op[t]
  /\ Goto(t, "post")
  /\ UNCHANGED <<fileVars, lockVars, jobVars, flagVars, lifeVars, op, calls>>

\* The unlocked test of m_writerStarted: without a writer, write here and now.
Post(t) ==
  /\ At(t, "post")
  /\ Goto(t, IF m_writerStarted THEN "postJob" ELSE "lockF")
  /\ UNCHANGED <<fileVars, lockVars, bufferVars, jobVars, flagVars, lifeVars,
                 callVars, src>>

\* Signalling m_writerJobCv wakes the writer if it sleeps there.
BugNoSignal(f) == f
WithWriterWoken(f) ==
  [f EXCEPT ![Writer] = IF At(Writer, "waitJob") THEN "testJob" ELSE @]

PostJob(t) ==
  /\ At(t, "postJob")
  /\ m_writeJobPtr' = src[t].buf
  /\ m_writeJobSize' = src[t].size
  /\ pc' = WithWriterWoken([pc EXCEPT ![t] = "unlockB"])
  /\ UNCHANGED <<fileVars, lockVars, bufferVars, flagVars, lifeVars, callVars, src>>

UnlockB(t) ==
  /\ At(t, "unlockB")
  /\ m_mutexInternalBufferPtrs' = Released(m_mutexInternalBufferPtrs, t)
  /\ Goto(t, "idle")
  /\ UNCHANGED <<fileVars, m_mutexWriteToFile, bufferVars, jobVars, flagVars,
                 lifeVars, callVars, src>>

-----------------------------------------------------------------------------
(***************************************************************************)
(* writeToFile, called by the writer, by a thread without a writer, or by  *)
(* flush: lock, fopen, write, unlock.                                      *)
(***************************************************************************)
AfterWrite(a) ==
  IF a = Writer THEN "jobDone" ELSE IF Flushing(a) THEN "close" ELSE "unlockB"

LockFile(a) ==
  /\ At(a, "lockF") /\ LockFree(m_mutexWriteToFile)
  /\ m_mutexWriteToFile' = a
  /\ Goto(a, "open")
  /\ UNCHANGED <<fileVars, m_mutexInternalBufferPtrs, bufferVars, jobVars, flagVars,
                 lifeVars, callVars, src>>

Fopen(a) ==
  /\ At(a, "open")
  /\ \E ok \in FopenOutcomes : OpenFile(ok)
  /\ Goto(a, "write")
  /\ UNCHANGED <<m_excessBufferPtr, excess, disk, dropped, lockVars, bufferVars,
                 jobVars, flagVars, lifeVars, callVars, src>>

WriteToFile(a) ==
  /\ At(a, "write")
  /\ WriteChunk(Contents(src[a]), m_file)
  /\ m_mutexWriteToFile' = Released(m_mutexWriteToFile, a)
  /\ Goto(a, AfterWrite(a))
  /\ UNCHANGED <<m_file, m_mutexInternalBufferPtrs, bufferVars, jobVars, flagVars,
                 lifeVars, callVars, src>>

\* RMEM_WRITER_GUARD: the writer's own allocations are not recorded.
BugNoGuard(a) == FALSE
Suppressed(a) == a = Writer

\* An allocation made by fopen, recorded by the thread inside writeToFile.  The
\* half has room for it: "The code assumes that buffer is big enough to store
\* all information resulting from file writing calls".
NestedCall(a) ==
  /\ Reentrant /\ ~m_file /\ hook
  /\ At(a, "open") /\ ~Suppressed(a)
  /\ calls < MaxCalls /\ m_bufferBytesWritten + 1 < BufferSize
  /\ calls' = calls + 1
  /\ op' = [op EXCEPT ![a] = RecordBytes(calls + 1, 1)]
  /\ Goto(a, "nestedB")
  /\ UNCHANGED <<fileVars, lockVars, bufferVars, jobVars, flagVars, lifeVars, log, src>>

\* The buffer lock is recursive where heap calls are hooked (CRITICAL_SECTION).
NestedRecord(a) ==
  /\ At(a, "nestedB")
  /\ LockFree(m_mutexInternalBufferPtrs) \/ m_mutexInternalBufferPtrs = a
  /\ Fits(a)
  /\ CopyToBuffer(a)
  /\ m_bufferBytesWritten' = Needed(a)
  /\ log' = log \o op[a]
  /\ Goto(a, "open")
  /\ UNCHANGED <<fileVars, lockVars, m_bufferPtr, jobVars, flagVars, lifeVars,
                 op, calls, src>>

-----------------------------------------------------------------------------
(* The background writer: writerLoop. *)

\* The loop over m_writerJobCv: "waitJob" is asleep on it.  A job posted
\* before the stop is still taken.
BugExitsOnStop == m_writerStop
WriterExits == m_writeJobPtr = NONE /\ m_writerStop
WriterSleeps == m_writeJobPtr = NONE /\ ~m_writerStop

TakeJob ==
  /\ At(Writer, "testJob") /\ m_writeJobPtr # NONE /\ ~WriterExits
  /\ src' = [src EXCEPT ![Writer] = Chunk(m_writeJobPtr, m_writeJobSize)]
  /\ Goto(Writer, "lockF")
  /\ UNCHANGED <<fileVars, lockVars, bufferVars, jobVars, flagVars, lifeVars, callVars>>

NoJob ==
  /\ At(Writer, "testJob")
  /\ \/ WriterSleeps /\ Goto(Writer, "waitJob")
     \/ WriterExits /\ Goto(Writer, "exited")
  /\ UNCHANGED <<fileVars, lockVars, bufferVars, jobVars, flagVars, lifeVars,
                 callVars, src>>

\* Signalling m_writerDoneCv wakes one of the threads that sleep there.
BugNobodyWoken(f) == {f}
WithOneWoken(f) ==
  LET asleep == {t \in Threads : At(t, "waitDone")} IN
  IF asleep = {} THEN {f} ELSE {[f EXCEPT ![t] = AfterWake(t)] : t \in asleep}

JobDone ==
  /\ At(Writer, "jobDone")
  /\ m_writeJobPtr' = NONE
  /\ pc' \in WithOneWoken([pc EXCEPT ![Writer] = "testJob"])
  /\ UNCHANGED <<fileVars, lockVars, bufferVars, m_writeJobSize, flagVars, lifeVars,
                 callVars, src>>

\* Both condition variables may wake a sleeper for no reason.
SpuriousWake(a) ==
  /\ \/ At(a, "waitJob") /\ Goto(a, "testJob")
     \/ At(a, "waitDone") /\ Goto(a, AfterWake(a))
  /\ UNCHANGED <<fileVars, lockVars, bufferVars, jobVars, flagVars, lifeVars,
                 callVars, src>>

-----------------------------------------------------------------------------
(* Shutdown, by Main: rmemShutDown, ~MemoryHook, writerStop, flush. *)

\* The records of the calls that have returned, and the header.
Complete == {r \in RecordsIn(log) :
               \A t \in Threads : ~At(t, "idle") => r \notin RecordsIn(op[t])}

\* ~MemoryHook stops the writer, if there is one, before it flushes.
BugFlushFirst == "flushB"
FirstStep == IF m_writerStarted THEN "stop" ELSE "flushB"

rmemShutDown ==
  /\ At(Main, "idle") /\ hook
  /\ Quiet => \A t \in Threads : At(t, "idle")
  /\ mustSave' = Complete
  /\ Goto(Main, FirstStep)
  /\ UNCHANGED <<fileVars, lockVars, bufferVars, jobVars, flagVars, hook, destroyed,
                 callVars, src>>

writerStop ==
  /\ At(Main, "stop")
  /\ m_writerStop' = TRUE
  /\ pc' = WithWriterWoken([pc EXCEPT ![Main] = "join"])
  /\ UNCHANGED <<fileVars, lockVars, bufferVars, jobVars, m_writerStarted, lifeVars,
                 callVars, src>>

BugNoJoin == TRUE
WriterJoined == At(Writer, "exited")

writerJoin ==
  /\ At(Main, "join") /\ WriterJoined
  /\ m_writerStarted' = FALSE
  /\ Goto(Main, "flushB")
  /\ UNCHANGED <<fileVars, lockVars, bufferVars, jobVars, m_writerStop, lifeVars,
                 callVars, src>>

\* flush, first half: snapshot and reset under the buffer lock.
flushSnapshot ==
  /\ At(Main, "flushB") /\ LockFree(m_mutexInternalBufferPtrs)
  /\ mem' = [mem EXCEPT ![Temp] =
               Copied(@, 0, SubSeq(mem[m_bufferPtr], 1, m_bufferBytesWritten))]
  /\ src' = [src EXCEPT ![Main] = Chunk(Temp, m_bufferBytesWritten)]
  /\ m_bufferBytesWritten' = 0
  /\ Goto(Main, "waitIdle")
  /\ UNCHANGED <<fileVars, lockVars, m_bufferPtr, jobVars, flagVars, lifeVars, callVars>>

\* flush, last: close the file, outside every lock.
flushClose ==
  /\ At(Main, "close")
  /\ CloseFile
  /\ Goto(Main, "destroy")
  /\ UNCHANGED <<lockVars, bufferVars, jobVars, flagVars, lifeVars, callVars, src>>

\* The end of the destructor: the two mutexes are destroyed.
destroyLocks ==
  /\ At(Main, "destroy")
  /\ destroyed' = TRUE
  /\ Goto(Main, "unhook")
  /\ UNCHANGED <<fileVars, lockVars, bufferVars, jobVars, flagVars, hook, mustSave,
                 callVars, src>>

unhook ==
  /\ At(Main, "unhook")
  /\ hook' = FALSE
  /\ Goto(Main, "idle")
  /\ UNCHANGED <<fileVars, lockVars, bufferVars, jobVars, flagVars, destroyed, mustSave,
                 callVars, src>>

-----------------------------------------------------------------------------
RecordStep(t) ==
  \/ AppendRecord(t) \/ FillBuffer(t) \/ OverflowBuffer(t)
  \/ WaitIdle(t) \/ TestIdle(t)
  \/ SwapFull(t) \/ SwapPartial(t)
  \/ Post(t) \/ PostJob(t) \/ UnlockB(t)

FileStep(a) == LockFile(a) \/ Fopen(a) \/ WriteToFile(a) \/ NestedRecord(a)

WriterStep == TakeJob \/ NoJob \/ JobDone

ShutdownStep ==
  \/ writerStop \/ writerJoin \/ flushSnapshot \/ flushClose
  \/ destroyLocks \/ unhook

\* After the shutdown the process ends.
Ended ==
  /\ ~hook /\ \A t \in Threads : At(t, "idle")
  /\ UNCHANGED vars

Next ==
  \/ \E t \in Threads : Call(t) \/ RecordStep(t)
  \/ \E a \in Actors : FileStep(a) \/ NestedCall(a) \/ SpuriousWake(a)
  \/ WriterStep \/ ShutdownStep \/ rmemShutDown
  \/ Ended

Spec == Init /\ [][Next]_vars

\* The scheduler runs every thread that can run.  Nobody has to call into rmem,
\* to shut it down, to allocate inside fopen or to wake for no reason.
Fairness ==
  /\ \A t \in Threads : WF_vars(RecordStep(t))
  /\ \A a \in Actors : WF_vars(FileStep(a))
  /\ WF_vars(WriterStep)
  /\ WF_vars(ShutdownStep)

FairSpec == Spec /\ Fairness
=============================================================================
