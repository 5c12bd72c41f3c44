----------------------------- MODULE StackTraces -----------------------------
(***************************************************************************)
(* Stack trace deduplication: MemoryHook::addStackTrace and the part of    *)
(* writeToBuffer around it.  A record ends either with a whole stack trace *)
(* (EntryTags::Add, which carries the 32-bit hash too) or with nothing but *)
(* the hash of a trace already written (EntryTags::Exists).                *)
(*                                                                         *)
(* Records are written to the file of CaptureFile, a half at a time and by *)
(* the thread that fills it: what the background writer adds is the topic  *)
(* of MemoryHook, which shows that it keeps the order.                     *)
(***************************************************************************)
EXTENDS CaptureFile, FiniteSets

CONSTANTS
  Threads,
  Stacks,      \* stack traces
  Hash,        \* hashStackTrace: the 64-bit hash of each
  Words,       \* number of 32-bit values; a 64-bit one is below Words * Words
  HashArraySize,
  AddSize,     \* bytes of a record with a whole trace
  ExistsSize,  \* bytes of a record with a hash only
  MaxRecords,  \* bound on the records made
  NONE         \* the owner of a free lock

ASSUME WordsAssumption == Words \in Nat \ {0}
ASSUME HashArrayAssumption == HashArraySize \in Nat \ {0}
\* The 64-bit hash is taken to tell traces apart, and never to be 0.
ASSUME HashAssumption ==
  /\ Hash \in [Stacks -> 1..(Words * Words - 1)]
  /\ \A s1, s2 \in Stacks : Hash[s1] = Hash[s2] => s1 = s2
ASSUME TraceSizesAssumption ==
  AddSize \in 1..(BufferSize - 1) /\ ExistsSize \in 1..(BufferSize - 1)
ASSUME MaxRecordsAssumption == MaxRecords \in Nat
ASSUME OwnerAssumption == NONE \notin Threads

VARIABLES
  m_stackTraceHashes,  \* 32-bit hash of the trace that owns each slot; 0: none
  m_stackTraceHash2,   \* its 64-bit hash
  m_mutexInternalBufferPtrs,
  active,              \* the bytes of the half being filled
  entries,             \* the records inserted so far (history)
  pc,
  trace,               \* the stack trace of each thread's record
  rec                  \* how the record ends, once addStackTrace has run

tableVars == <<m_stackTraceHashes, m_stackTraceHash2>>
vars == <<fileVars, tableVars, m_mutexInternalBufferPtrs, active, entries, pc,
          trace, rec>>

Slots == 0..(HashArraySize - 1)

\* (uint32_t)_stackHash, and the slot it selects.
BugNotTruncated(s) == Hash[s]
Hash32(s) == Hash[s] % Words
Slot(s) == Hash32(s) % HashArraySize

Record(tag, s) == [tag |-> tag, hash |-> Hash32(s), stack |-> s]
Size(r) == IF r.tag = "Add" THEN AddSize ELSE ExistsSize

Init ==
  /\ FileInit
  /\ m_stackTraceHashes = [i \in Slots |-> 0]
  /\ m_stackTraceHash2 = [i \in Slots |-> 0]
  /\ m_mutexInternalBufferPtrs = NONE
  /\ active = <<>>
  /\ entries = <<>>
  /\ pc = [t \in Threads |-> "idle"]
  /\ trace \in [Threads -> Stacks]
  /\ \E s \in Stacks : rec = [t \in Threads |-> Record("Add", s)]

\* alloc, free, ...: the trace is taken and hashed before the lock.
Call(t, s) ==
  /\ pc[t] = "idle"
  /\ Len(entries) + Cardinality({u \in Threads : pc[u] \in {"lock", "insert"}}) < MaxRecords
  /\ trace' = [trace EXCEPT ![t] = s]
  /\ pc' = [pc EXCEPT ![t] = "lock"]
  /\ UNCHANGED <<fileVars, tableVars, m_mutexInternalBufferPtrs, active, entries, rec>>

BugNeverLocked(t) == TRUE
CanLock(t) == m_mutexInternalBufferPtrs = NONE

-----------------------------------------------------------------------------
(* addStackTrace: one disjunct per way out. *)

BugNotConfirmed(s) == m_stackTraceHashes[Slot(s)] = Hash32(s)
BugShortCompare(s) ==
  /\ m_stackTraceHashes[Slot(s)] = Hash32(s)
  /\ m_stackTraceHash2[Slot(s)] = Hash32(s)
Known(s) ==
  /\ m_stackTraceHashes[Slot(s)] = Hash32(s)
  /\ m_stackTraceHash2[Slot(s)] = Hash[s]

BugAnySlot(s) == m_stackTraceHashes[Slot(s)] # Hash32(s)
FreeSlot(s) ==
  /\ m_stackTraceHashes[Slot(s)] # Hash32(s)
  /\ m_stackTraceHashes[Slot(s)] = 0

TakeSlot(s) ==
  /\ m_stackTraceHashes' = [m_stackTraceHashes EXCEPT ![Slot(s)] = Hash32(s)]
  /\ m_stackTraceHash2' = [m_stackTraceHash2 EXCEPT ![Slot(s)] = Hash[s]]

addStackTrace(t) ==
  LET s == trace[t] IN
  /\ pc[t] = "lock" /\ CanLock(t)
  /\ m_mutexInternalBufferPtrs' = t
  /\ \/ Known(s) /\ rec' = [rec EXCEPT ![t] = Record("Exists", s)] /\ UNCHANGED tableVars
     \/ ~Known(s) /\ FreeSlot(s) /\ rec' = [rec EXCEPT ![t] = Record("Add", s)] /\ TakeSlot(s)
     \/ ~Known(s) /\ ~FreeSlot(s) /\ rec' = [rec EXCEPT ![t] = Record("Add", s)] /\ UNCHANGED tableVars
  /\ pc' = [pc EXCEPT ![t] = "insert"]
  /\ UNCHANGED <<fileVars, active, entries, trace>>

-----------------------------------------------------------------------------
(* The rest of writeToBuffer: insert the record, write a half that is done. *)

WriteHalf(bytes) ==
  \E ok \in FopenOutcomes : OpenFile(ok) /\ WriteChunk(bytes, m_file \/ ok)

Insert(t) ==
  LET bytes == RecordBytes(Len(entries) + 1, Size(rec[t]))
      fill == Len(active) + Len(bytes) IN
  /\ pc[t] = "insert"
  /\ entries' = Append(entries, rec[t])
  /\ \/ fill < BufferSize /\ active' = active \o bytes /\ UNCHANGED fileVars
     \/ fill = BufferSize /\ active' = <<>> /\ WriteHalf(active \o bytes)
     \/ fill > BufferSize /\ active' = bytes /\ WriteHalf(active)
  /\ m_mutexInternalBufferPtrs' =
       IF m_mutexInternalBufferPtrs = t THEN NONE ELSE m_mutexInternalBufferPtrs
  /\ pc' = [pc EXCEPT ![t] = "idle"]
  /\ UNCHANGED <<tableVars, trace, rec>>

\* flush, with every thread at rest.
flush ==
  /\ \A t \in Threads : pc[t] = "idle"
  /\ WriteHalf(active)
  /\ active' = <<>>
  /\ pc' = [t \in Threads |-> "ended"]
  /\ UNCHANGED <<tableVars, m_mutexInternalBufferPtrs, entries, trace, rec>>

Ended ==
  /\ \A t \in Threads : pc[t] = "ended"
  /\ UNCHANGED vars

Next ==
  \/ \E t \in Threads : (\E s \in Stacks : Call(t, s)) \/ addStackTrace(t) \/ Insert(t)
  \/ flush
  \/ Ended

Spec == Init /\ [][Next]_vars

-----------------------------------------------------------------------------
(* Properties. *)

TypeOK ==
  /\ m_stackTraceHashes \in [Slots -> 0..(Words - 1)]
  /\ m_stackTraceHash2 \in [Slots -> 0..(Words * Words - 1)]
  /\ m_mutexInternalBufferPtrs \in Threads \cup {NONE}
  /\ entries \in Seq([tag : {"Add", "Exists"}, hash : 0..(Words - 1), stack : Stacks])
  /\ pc \in [Threads -> {"idle", "lock", "insert", "ended"}]
  /\ trace \in [Threads -> Stacks]
  /\ rec \in [Threads -> [tag : {"Add", "Exists"}, hash : 0..(Words - 1), stack : Stacks]]

\* Entry n is the first of its hash that carries a whole trace.
FirstAdd(seq, n) ==
  /\ seq[n].tag = "Add"
  /\ \A m \in 1..(n - 1) : ~(seq[m].tag = "Add" /\ seq[m].hash = seq[n].hash)

\* A loader that takes the first trace it reads for a hash as the meaning of
\* that hash gives every record the trace it was made with.
Resolves(seq) ==
  \A n \in DOMAIN seq :
    seq[n].tag = "Exists" =>
      \E m \in 1..(n - 1) : /\ FirstAdd(seq, m)
                            /\ seq[m].hash = seq[n].hash
                            /\ seq[m].stack = seq[n].stack

\* addStackTrace: a hash stands for a trace that was inserted before, in the
\* order of the stream, whatever 32-bit hashes and slots collide.
TracesResolve == Resolves(entries)

\* The records a sequence of bytes holds, in order.
EntriesIn(bytes) ==
  LET ends == Sift(bytes, LastBytes)
  IN [i \in DOMAIN ends |-> entries[ends[i].rec]]

\* "keeping a recored of already saved stack traces and storing their hash
\* instead" (rmem_config.h): at any moment, so after a crash too, the traces of
\* the records in the file are in the file.
FileResolves == Resolves(EntriesIn(FlattenSeq(disk)))

\* The same as long as writeToFile has dropped nothing, with what is waiting in
\* the excess buffer.
SavedResolves == dropped = {} => Resolves(EntriesIn(Saved))

\* The table does its work: the trace that owns a slot is written in full once.
OwnerAddedOnce ==
  \A m, n \in DOMAIN entries :
    /\ entries[m].tag = "Add" /\ entries[n].tag = "Add"
    /\ entries[m].stack = entries[n].stack
    /\ m_stackTraceHash2[Slot(entries[m].stack)] = Hash[entries[m].stack]
    => m = n

\* A slot never changes its owner: a hash that stood for a trace always will.
OwnersStay ==
  [][\A i \in Slots : m_stackTraceHash2[i] # 0 =>
       /\ m_stackTraceHashes'[i] = m_stackTraceHashes[i]
       /\ m_stackTraceHash2'[i] = m_stackTraceHash2[i]]_vars

-----------------------------------------------------------------------------
(***************************************************************************)
(* The inductive invariant behind TracesResolve and OwnerAddedOnce.        *)
(***************************************************************************)

Inserting(t) == pc[t] = "insert"
Owns(s) == m_stackTraceHash2[Slot(s)] = Hash[s]
AddOf(h, n) == entries[n].tag = "Add" /\ entries[n].hash = h
NoAddOf(h) == \A n \in DOMAIN entries : ~AddOf(h, n)
Explained(s) == \E n \in DOMAIN entries : entries[n].stack = s /\ FirstAdd(entries, n)

\* addStackTrace and the insertion are one critical section.
LockHeld == \A t \in Threads : Inserting(t) => m_mutexInternalBufferPtrs = t

\* A record carries the hash of its own trace.
HashesOwn ==
  /\ \A t \in Threads : rec[t].hash = Hash32(rec[t].stack)
  /\ \A n \in DOMAIN entries : entries[n].hash = Hash32(entries[n].stack)

\* A slot is free, or both of its hashes are those of its owner.
SlotsConsistent ==
  \A i \in Slots :
    \/ m_stackTraceHashes[i] = 0 /\ m_stackTraceHash2[i] = 0
    \/ m_stackTraceHashes[i] # 0 /\ \E s \in Stacks :
          Slot(s) = i /\ m_stackTraceHashes[i] = Hash32(s) /\ m_stackTraceHash2[i] = Hash[s]

\* No whole trace goes past a free slot without taking it, unless its 32-bit
\* hash is the one that marks a free slot.
AddTakesSlot ==
  /\ \A n \in DOMAIN entries :
       entries[n].tag = "Add" /\ entries[n].hash # 0
         => m_stackTraceHashes[Slot(entries[n].stack)] # 0
  /\ \A t \in Threads :
       Inserting(t) /\ rec[t].tag = "Add" /\ rec[t].hash # 0
         => m_stackTraceHashes[Slot(rec[t].stack)] # 0

\* An owner's trace is the first of its hash in the stream, or about to be.
OwnerIsFirst ==
  \A s \in Stacks : Owns(s) =>
    \/ Explained(s)
    \/ \E t \in Threads : Inserting(t) /\ rec[t] = Record("Add", s)

\* What is about to be inserted fits what has been.
PendingFits ==
  \A t \in Threads : Inserting(t) =>
    /\ rec[t].tag = "Exists" => Explained(rec[t].stack)
    /\ rec[t].tag = "Add" /\ Owns(rec[t].stack) => NoAddOf(rec[t].hash)

TableInv ==
  /\ LockHeld /\ HashesOwn /\ SlotsConsistent
  /\ AddTakesSlot /\ OwnerIsFirst /\ PendingFits
  /\ TracesResolve /\ OwnerAddedOnce

-----------------------------------------------------------------------------
(***************************************************************************)
(* The inductive invariant behind SavedResolves.  Nothing is dropped while *)
(* the file can be opened or the excess buffer has room; until then the    *)
(* ends of the records in the file, in the excess buffer and in the half   *)
(* being filled are those of the entries, in order.                        *)
(***************************************************************************)

BytesTyped ==
  /\ active \in Seq(Bytes)
  /\ excess \in Seq(Bytes)
  /\ disk \in Seq(Seq(Bytes))

ExcessInUse == excess = <<>> \/ m_excessBufferPtr

EndsOf(seq) == [n \in DOMAIN seq |-> Byte(n, TRUE)]
StreamComplete == dropped = {} => Sift(Saved \o active, LastBytes) = EndsOf(entries)

FileInv == BytesTyped /\ ExcessInUse /\ StreamComplete
=============================================================================
