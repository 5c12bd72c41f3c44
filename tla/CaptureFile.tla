----------------------------- MODULE CaptureFile -----------------------------
(***************************************************************************)
(* The capture file: MemoryHook::writeToFile (src/rmem_hook.cpp) and the   *)
(* end of MemoryHook::flush.  A caller hands over a chunk of bytes; the    *)
(* file is opened on demand; while it cannot be opened the bytes are kept  *)
(* in the excess buffer (the last third of m_bufferData), and when that is *)
(* full the chunk is dropped.                                              *)
(*                                                                         *)
(* A byte of the stream is modelled by the record it belongs to and by     *)
(* whether it is that record's last byte; what the byte says is left out.  *)
(* LZ4 framing is one chunk of the file per fwrite group.                  *)
(*                                                                         *)
(* MemoryHook EXTENDS this module: its actors call the operators below,    *)
(* the fopen and the writing that follows it as two steps of the caller.   *)
(***************************************************************************)
EXTENDS Sifting, SequencesExt

CONSTANTS
  BufferSize,     \* bytes in one half of the buffer, and in the excess buffer
  OpenMayFail     \* may fopen fail?

ASSUME BufferSizeAssumption == BufferSize \in Nat \ {0}
ASSUME OpenMayFailAssumption == OpenMayFail \in BOOLEAN

VARIABLES
  m_file,             \* is the FILE* open?
  m_excessBufferPtr,  \* is the excess buffer in use?
  excess,             \* its contents; Len(excess) is m_excessBufferSize
  disk,               \* the chunks in the file, oldest first
  dropped             \* records given up so far (history)

fileVars == <<m_file, m_excessBufferPtr, excess, disk, dropped>>

Byte(rec, last) == [rec |-> rec, last |-> last]
Bytes == [rec : Nat, last : BOOLEAN]

\* The n bytes of record rec.
RecordBytes(rec, n) == [i \in 1..n |-> Byte(rec, i = n)]

LastBytes == {b \in Bytes : b.last}

RecordsIn(bytes) == {bytes[i].rec : i \in DOMAIN bytes}

\* The bytes a loader reads back: chunk after chunk, then what would follow
\* if the file could be opened again.
Saved == FlattenSeq(disk) \o excess

FileInit ==
  /\ m_file = FALSE
  /\ m_excessBufferPtr = FALSE
  /\ excess = <<>>
  /\ disk = <<>>
  /\ dropped = {}

\* fopen(m_fileName, "ab"), skipped when the file is open already.
FopenOutcomes == IF OpenMayFail THEN BOOLEAN ELSE {TRUE}
OpenFile(ok) == m_file' = (m_file \/ ok)

\* The file is open: the excess bytes go first, then the chunk.
BugChunkFirst(bytes) ==
  /\ disk' = disk \o <<bytes>> \o (IF m_excessBufferPtr THEN <<excess>> ELSE <<>>)
  /\ m_excessBufferPtr' = FALSE
  /\ excess' = <<>>
  /\ UNCHANGED dropped

WriteThrough(bytes) ==
  /\ disk' = disk \o (IF m_excessBufferPtr THEN <<excess>> ELSE <<>>) \o <<bytes>>
  /\ m_excessBufferPtr' = FALSE
  /\ excess' = <<>>
  /\ UNCHANGED dropped

BugChunkOnly(bytes) == Len(bytes) <= BufferSize
ExcessFits(bytes) == Len(excess) + Len(bytes) <= BufferSize

\* The file is not open and there is room: keep the chunk for later.
KeepExcess(bytes) ==
  /\ m_excessBufferPtr' = TRUE
  /\ excess' = excess \o bytes
  /\ UNCHANGED <<disk, dropped>>

\* "no choice but to drop data"
DropChunk(bytes) ==
  /\ dropped' = dropped \cup RecordsIn(bytes)
  /\ UNCHANGED <<m_excessBufferPtr, excess, disk>>

\* writeToFile after the fopen, which left the file open or not.
WriteChunk(bytes, open) ==
  \/ open /\ WriteThrough(bytes)
  \/ ~open /\ ExcessFits(bytes) /\ KeepExcess(bytes)
  \/ ~open /\ ~ExcessFits(bytes) /\ DropChunk(bytes)

\* The fclose at the end of flush.
CloseFile ==
  /\ m_file' = FALSE
  /\ UNCHANGED <<m_excessBufferPtr, excess, disk, dropped>>

=============================================================================
