-------------------------- MODULE StackTraceProofs --------------------------
(***************************************************************************)
(* Proofs about StackTraces: the inductive invariant TableInv, and what    *)
(* follows from it, for every set of threads, every hash function that     *)
(* tells the traces apart and every size of the table.                     *)
(***************************************************************************)
EXTENDS StackTraces, SequenceLemmas, TLAPS

RecordType == [tag : {"Add", "Exists"}, hash : 0..(Words - 1), stack : Stacks]

\* The hash of a trace is a 32-bit value, and selects a slot of the table.
LEMMA HashFacts ==
  ASSUME NEW s \in Stacks
  PROVE  /\ Hash32(s) \in 0..(Words - 1)
         /\ Slot(s) \in Slots
         /\ Hash[s] \in 1..(Words * Words - 1)
<1>1. Hash[s] \in 1..(Words * Words - 1) /\ Hash[s] \in Nat
  BY HashAssumption, WordsAssumption
<1>2. Hash32(s) \in 0..(Words - 1)
  BY <1>1, WordsAssumption DEF Hash32
<1>3. Slot(s) \in Slots
  BY <1>2, HashArrayAssumption, WordsAssumption DEF Slot, Slots
<1> QED BY <1>1, <1>2, <1>3

\* A record composed for a trace has the type of records.
LEMMA RecordFacts ==
  ASSUME NEW s \in Stacks, NEW tag \in {"Add", "Exists"}
  PROVE  /\ Record(tag, s) \in RecordType
         /\ Record(tag, s).tag = tag
         /\ Record(tag, s).hash = Hash32(s)
         /\ Record(tag, s).stack = s
BY HashFacts DEF Record, RecordType

\* A record of the stream has the type of records.
LEMMA EntryFacts ==
  ASSUME TypeOK, NEW n \in DOMAIN entries
  PROVE  entries[n] \in RecordType /\ entries[n].stack \in Stacks
<1>1. entries \in Seq(RecordType)
  BY DEF TypeOK, RecordType
<1>2. n \in 1..Len(entries)
  BY <1>1
<1>3. entries[n] \in RecordType
  BY <1>1, <1>2, ElementOfSeq
<1> QED BY <1>3 DEF RecordType

LEMMA TypeInit == Init => TypeOK
BY HashFacts, RecordFacts, WordsAssumption DEF Init, TypeOK, RecordType

LEMMA TypeStep == TypeOK /\ [Next]_vars => TypeOK'
<1> SUFFICES ASSUME TypeOK, [Next]_vars PROVE TypeOK'
  OBVIOUS
<1> USE DEF TypeOK, RecordType
<1>1. ASSUME NEW t \in Threads, NEW s \in Stacks, Call(t, s) PROVE TypeOK'
  BY <1>1 DEF Call, tableVars
<1>2. ASSUME NEW t \in Threads, addStackTrace(t) PROVE TypeOK'
  <2> DEFINE s == trace[t]
  <2>1. s \in Stacks
    OBVIOUS
  <2>2. rec' \in [Threads -> RecordType]
    BY SMTT(30), <1>2, <2>1, RecordFacts DEF addStackTrace
  <2>3. UNCHANGED tableVars \/ TakeSlot(s)
    BY <1>2 DEF addStackTrace
  <2>4. /\ m_stackTraceHashes' \in [Slots -> 0..(Words - 1)]
        /\ m_stackTraceHash2' \in [Slots -> 0..(Words * Words - 1)]
    <3>1. CASE UNCHANGED tableVars
      BY <3>1 DEF tableVars
    <3>2. CASE TakeSlot(s)
      <4>1. Hash[s] \in 0..(Words * Words - 1)
        BY SMTT(30), <2>1, HashFacts, WordsAssumption
      <4> QED BY <3>2, <4>1, <2>1, HashFacts DEF TakeSlot
    <3> QED BY <2>3, <3>1, <3>2
  <2> QED BY <1>2, <2>2, <2>4 DEF addStackTrace
<1>3. ASSUME NEW t \in Threads, Insert(t) PROVE TypeOK'
  BY <1>3 DEF Insert, tableVars
<1>4. ASSUME flush PROVE TypeOK'
  BY <1>4 DEF flush, tableVars
<1>5. ASSUME UNCHANGED vars PROVE TypeOK'
  BY <1>5 DEF vars, tableVars
<1> QED BY <1>1, <1>2, <1>3, <1>4, <1>5 DEF Next, Ended

-----------------------------------------------------------------------------
(* The table invariant. *)

LEMMA TableInit == Init => TableInv
<1> SUFFICES ASSUME Init PROVE TableInv
  OBVIOUS
<1>1. \A s \in Stacks : ~Owns(s)
  BY HashFacts DEF Init, Owns
<1>2. HashesOwn
  BY RecordFacts DEF Init, HashesOwn
<1> QED
  BY <1>1, <1>2 DEF Init, TableInv, LockHeld, SlotsConsistent, AddTakesSlot,
     OwnerIsFirst, PendingFits, Inserting, TracesResolve, Resolves, OwnerAddedOnce

\* Steps that leave the table, the stream and every critical section alone.
LEMMA TableFrame ==
  ASSUME TypeOK, TableInv, UNCHANGED <<tableVars, entries, rec>>,
         \A t \in Threads : Inserting(t)' => Inserting(t),
         \A t \in Threads : Inserting(t) => Inserting(t)',
         LockHeld'
  PROVE  TableInv'
<1> USE DEF TableInv
<1>1. HashesOwn' /\ SlotsConsistent' /\ AddTakesSlot'
  BY DEF HashesOwn, SlotsConsistent, AddTakesSlot, tableVars, TypeOK
<1>2. OwnerIsFirst' /\ PendingFits'
  BY DEF OwnerIsFirst, PendingFits, tableVars, Owns, Explained, NoAddOf, AddOf, FirstAdd
<1>3. TracesResolve' /\ OwnerAddedOnce'
  BY DEF TracesResolve, OwnerAddedOnce, tableVars
<1> QED BY <1>1, <1>2, <1>3

LEMMA TableCall ==
  ASSUME TypeOK, TableInv, NEW t \in Threads, NEW s \in Stacks, Call(t, s)
  PROVE  TableInv'
<1>1. \A u \in Threads : Inserting(u)' <=> Inserting(u)
  BY DEF Call, Inserting, TypeOK
<1>2. LockHeld'
  BY <1>1 DEF Call, LockHeld, TableInv
<1> QED BY <1>1, <1>2, TableFrame DEF Call

LEMMA TableFlush ==
  ASSUME TypeOK, TableInv, flush
  PROVE  TableInv'
<1>1. \A u \in Threads : ~Inserting(u)' /\ ~Inserting(u)
  BY DEF flush, Inserting, TypeOK
<1>2. LockHeld'
  BY <1>1 DEF LockHeld
<1> QED BY <1>1, <1>2, TableFrame DEF flush

-----------------------------------------------------------------------------
(* addStackTrace: t enters its critical section, alone. *)

\* What a trace that owns its slot means: both hashes of the slot are its own.
LEMMA OwnerKnown ==
  ASSUME TypeOK, SlotsConsistent, NEW s \in Stacks
  PROVE  Owns(s) <=> Known(s)
<1>1. ASSUME Owns(s) PROVE Known(s)
  <2>1. m_stackTraceHash2[Slot(s)] # 0
    BY <1>1, HashFacts DEF Owns
  <2>2. PICK r \in Stacks : /\ Slot(r) = Slot(s)
                            /\ m_stackTraceHashes[Slot(s)] = Hash32(r)
                            /\ m_stackTraceHash2[Slot(s)] = Hash[r]
    BY <2>1, HashFacts DEF SlotsConsistent
  <2>3. r = s
    BY <1>1, <2>2, HashAssumption DEF Owns
  <2> QED BY <1>1, <2>2, <2>3 DEF Owns, Known
<1> QED BY <1>1 DEF Owns, Known

LEMMA TableAddStackTrace ==
  ASSUME TypeOK, TableInv, NEW t \in Threads, addStackTrace(t)
  PROVE  TableInv'
<1> DEFINE s == trace[t]
<1> USE DEF TableInv
<1>1. s \in Stacks
  BY DEF TypeOK
<1>2. \A u \in Threads : ~Inserting(u)
  BY OwnerAssumption DEF addStackTrace, CanLock, LockHeld
<1>3. /\ \A u \in Threads : Inserting(u)' <=> u = t
      /\ UNCHANGED entries /\ m_mutexInternalBufferPtrs' = t
      /\ \E tag \in {"Add", "Exists"} : rec' = [rec EXCEPT ![t] = Record(tag, s)]
  BY <1>2 DEF addStackTrace, Inserting, TypeOK
<1>4. LockHeld'
  BY <1>3 DEF LockHeld
<1>5. HashesOwn'
  BY <1>1, <1>3, RecordFacts DEF HashesOwn, TypeOK
<1>6. TracesResolve'
  BY <1>3 DEF TracesResolve
<1>7. CASE Known(s) /\ rec' = [rec EXCEPT ![t] = Record("Exists", s)] /\ UNCHANGED tableVars
  <2>1. rec'[t].tag = "Exists" /\ rec'[t].stack = s
    BY <1>1, <1>7, RecordFacts DEF TypeOK
  <2>2. Explained(s)
    BY <1>1, <1>2, <1>7, OwnerKnown DEF OwnerIsFirst
  <2>3. SlotsConsistent' /\ AddTakesSlot' /\ OwnerAddedOnce'
    BY <1>3, <1>7, <2>1 DEF SlotsConsistent, AddTakesSlot, OwnerAddedOnce, tableVars
  <2>4. OwnerIsFirst'
    BY <1>2, <1>3, <1>7 DEF OwnerIsFirst, Owns, Explained, FirstAdd, tableVars
  <2>5. PendingFits'
    BY <1>3, <2>1, <2>2 DEF PendingFits, Explained, FirstAdd
  <2> QED BY <1>4, <1>5, <1>6, <2>3, <2>4, <2>5
<1>8. CASE ~Known(s) /\ FreeSlot(s) /\ rec' = [rec EXCEPT ![t] = Record("Add", s)] /\ TakeSlot(s)
  <2>1. rec'[t] = Record("Add", s) /\ rec'[t].tag = "Add" /\ rec'[t].stack = s
         /\ rec'[t].hash = Hash32(s)
    BY <1>1, <1>8, RecordFacts DEF TypeOK
  <2>2. Hash32(s) # 0 /\ m_stackTraceHashes[Slot(s)] = 0 /\ Slot(s) \in Slots
    BY <1>1, <1>8, HashFacts DEF FreeSlot
  <2>3. /\ m_stackTraceHashes'[Slot(s)] = Hash32(s)
        /\ m_stackTraceHash2'[Slot(s)] = Hash[s]
        /\ \A i \in Slots \ {Slot(s)} : /\ m_stackTraceHashes'[i] = m_stackTraceHashes[i]
                                        /\ m_stackTraceHash2'[i] = m_stackTraceHash2[i]
    BY <1>8, <2>2 DEF TakeSlot, TypeOK
  <2>4. NoAddOf(Hash32(s))
    <3>1. ASSUME NEW n \in DOMAIN entries, AddOf(Hash32(s), n) PROVE FALSE
      <4>1. entries[n].hash = Hash32(entries[n].stack)
        BY DEF HashesOwn
      <4>2. Slot(entries[n].stack) = Slot(s)
        BY <3>1, <4>1 DEF AddOf, Slot
      <4> QED BY <2>2, <3>1, <4>2 DEF AddOf, AddTakesSlot
    <3> QED BY <3>1 DEF NoAddOf
  <2>5. \A r \in Stacks : r # s /\ Owns(r)' => Owns(r)
    BY <1>1, <2>3, HashFacts, HashAssumption DEF Owns
  <2>6. SlotsConsistent'
    BY <1>1, <2>2, <2>3 DEF SlotsConsistent
  <2>7. AddTakesSlot'
    <3>1. \A i \in Slots : m_stackTraceHashes[i] # 0 => m_stackTraceHashes'[i] # 0
      BY <2>2, <2>3
    <3>2. \A n \in DOMAIN entries : entries[n].stack \in Stacks
      BY EntryFacts
    <3>3. \A n \in DOMAIN entries : entries[n].tag = "Add" /\ entries[n].hash # 0
             => m_stackTraceHashes'[Slot(entries[n].stack)] # 0
      BY <3>1, <3>2, HashFacts DEF AddTakesSlot
    <3> QED BY <1>3, <2>1, <2>2, <2>3, <3>3 DEF AddTakesSlot
  <2>8. OwnerIsFirst'
    BY <1>2, <1>3, <2>1, <2>5 DEF OwnerIsFirst, Explained, FirstAdd
  <2>9. PendingFits'
    BY <1>3, <2>1, <2>4 DEF PendingFits, NoAddOf, AddOf
  <2>10. OwnerAddedOnce'
    <3> SUFFICES ASSUME NEW m \in DOMAIN entries, NEW n \in DOMAIN entries,
                        entries[m].tag = "Add", entries[n].tag = "Add",
                        entries[m].stack = entries[n].stack,
                        m_stackTraceHash2'[Slot(entries[m].stack)] = Hash[entries[m].stack]
                 PROVE  m = n
      BY <1>3 DEF OwnerAddedOnce
    <3>1. entries[m].stack \in Stacks /\ entries[m].hash = Hash32(entries[m].stack)
      BY EntryFacts DEF HashesOwn
    <3>2. entries[m].stack # s
      BY <2>4, <3>1 DEF NoAddOf, AddOf
    <3>3. Owns(entries[m].stack)
      BY <2>5, <3>1, <3>2 DEF Owns
    <3> QED BY <3>3 DEF OwnerAddedOnce, Owns
  <2> QED BY <1>4, <1>5, <1>6, <2>6, <2>7, <2>8, <2>9, <2>10
<1>9. CASE ~Known(s) /\ ~FreeSlot(s) /\ rec' = [rec EXCEPT ![t] = Record("Add", s)]
           /\ UNCHANGED tableVars
  <2>1. rec'[t].tag = "Add" /\ rec'[t].stack = s /\ rec'[t].hash = Hash32(s)
    BY <1>1, <1>9, RecordFacts DEF TypeOK
  <2>2. ~Owns(s)
    BY <1>1, <1>9, OwnerKnown
  <2>3. SlotsConsistent' /\ OwnerAddedOnce'
    BY <1>3, <1>9 DEF SlotsConsistent, OwnerAddedOnce, tableVars
  <2>4. AddTakesSlot'
    BY <1>3, <1>9, <2>1 DEF AddTakesSlot, tableVars, FreeSlot
  <2>5. OwnerIsFirst'
    BY <1>2, <1>3, <1>9 DEF OwnerIsFirst, Owns, Explained, FirstAdd, tableVars
  <2>6. PendingFits'
    BY <1>3, <1>9, <2>1, <2>2 DEF PendingFits, Owns, tableVars
  <2> QED BY <1>4, <1>5, <1>6, <2>3, <2>4, <2>5, <2>6
<1> QED BY <1>7, <1>8, <1>9 DEF addStackTrace

-----------------------------------------------------------------------------
(* Insert: the record joins the stream and t leaves its critical section. *)

\* Appending a record keeps the first trace of every hash the first one, and
\* makes the new record first of its hash if it carries the only trace.
LEMMA FirstAddKept ==
  ASSUME NEW seq \in Seq(RecordType), NEW r \in RecordType, NEW n \in 1..Len(seq)
  PROVE  FirstAdd(Append(seq, r), n) <=> FirstAdd(seq, n)
<1>1. \A m \in 1..n : Append(seq, r)[m] = seq[m]
  OBVIOUS
<1> QED BY <1>1 DEF FirstAdd

LEMMA FirstAddNew ==
  ASSUME NEW seq \in Seq(RecordType), NEW r \in RecordType, r.tag = "Add",
         \A m \in 1..Len(seq) : ~(seq[m].tag = "Add" /\ seq[m].hash = r.hash)
  PROVE  FirstAdd(Append(seq, r), Len(seq) + 1)
<1>1. Append(seq, r)[Len(seq) + 1] = r
  OBVIOUS
<1>2. \A m \in 1..Len(seq) : Append(seq, r)[m] = seq[m]
  OBVIOUS
<1>3. 1..((Len(seq) + 1) - 1) = 1..Len(seq)
  BY LenProperties
<1> QED BY <1>1, <1>2, <1>3 DEF FirstAdd

LEMMA TableInsert ==
  ASSUME TypeOK, TableInv, NEW t \in Threads, Insert(t)
  PROVE  TableInv'
<1> DEFINE r == rec[t]
           L == Len(entries)
<1> USE DEF TableInv
<1>1. /\ Inserting(t) /\ \A u \in Threads : ~Inserting(u)'
      /\ \A u \in Threads : Inserting(u) => u = t
      /\ UNCHANGED tableVars /\ UNCHANGED rec
  BY OwnerAssumption DEF Insert, Inserting, LockHeld, TypeOK
<1>2. entries \in Seq(RecordType) /\ r \in RecordType /\ entries' = Append(entries, r)
  BY DEF Insert, TypeOK, RecordType
<1>3. /\ L \in Nat /\ DOMAIN entries = 1..L /\ DOMAIN entries' = 1..(L + 1)
      /\ entries'[L + 1] = r
      /\ \A n \in 1..L : entries'[n] = entries[n]
  BY <1>2
<1>4. \A n \in 1..L : FirstAdd(entries', n) <=> FirstAdd(entries, n)
  BY <1>2, FirstAddKept
<1>5. r.tag \in {"Add", "Exists"} /\ r.stack \in Stacks /\ r.hash = Hash32(r.stack)
  BY <1>2 DEF RecordType, HashesOwn
<1>6. \A s \in Stacks : Explained(s) => Explained(s)'
  BY <1>3, <1>4 DEF Explained
<1>7. LockHeld' /\ PendingFits'
  BY <1>1 DEF LockHeld, PendingFits
<1>8. HashesOwn'
  BY <1>1, <1>3, <1>5 DEF HashesOwn
<1>9. SlotsConsistent'
  BY <1>1 DEF SlotsConsistent, tableVars
<1>10. AddTakesSlot'
  BY <1>1, <1>3 DEF AddTakesSlot, tableVars
<1>11. OwnerIsFirst'
  <2> SUFFICES ASSUME NEW s \in Stacks, Owns(s) PROVE Explained(s)'
    BY <1>1 DEF OwnerIsFirst, Owns, tableVars
  <2>1. CASE Explained(s)
    BY <1>6, <2>1
  <2>2. CASE ~Explained(s)
    <3>1. r = Record("Add", s)
      BY <1>1, <2>2 DEF OwnerIsFirst
    <3>2. r.tag = "Add" /\ r.stack = s
      BY <3>1, RecordFacts
    <3>3. NoAddOf(r.hash)
      BY <1>1, <3>2 DEF PendingFits
    <3>4. FirstAdd(entries', L + 1)
      BY <1>2, <1>3, <3>2, <3>3, FirstAddNew DEF NoAddOf, AddOf
    <3> QED BY <1>3, <3>2, <3>4 DEF Explained
  <2> QED BY <2>1, <2>2
<1>12. TracesResolve'
  <2> SUFFICES ASSUME NEW n \in 1..(L + 1), entries'[n].tag = "Exists"
               PROVE  \E m \in 1..(n - 1) : /\ FirstAdd(entries', m)
                                            /\ entries'[m].hash = entries'[n].hash
                                            /\ entries'[m].stack = entries'[n].stack
    BY <1>3 DEF TracesResolve, Resolves
  <2>1. CASE n \in 1..L
    <3>1. PICK m \in 1..(n - 1) : /\ FirstAdd(entries, m)
                                  /\ entries[m].hash = entries[n].hash
                                  /\ entries[m].stack = entries[n].stack
      BY <1>3, <2>1 DEF TracesResolve, Resolves
    <3>2. m \in 1..L
      BY <1>3, <2>1
    <3> QED BY <1>3, <1>4, <2>1, <3>1, <3>2
  <2>2. CASE n = L + 1
    <3>1. PICK m \in 1..L : entries[m].stack = r.stack /\ FirstAdd(entries, m)
      BY <1>1, <1>3, <2>2 DEF PendingFits, Explained
    <3>2. entries[m].hash = r.hash
      BY <1>3, <1>5, <3>1 DEF HashesOwn
    <3>3. m \in 1..(n - 1)
      BY <1>3, <2>2
    <3> QED BY <1>3, <1>4, <2>2, <3>1, <3>2, <3>3
  <2> QED BY <1>3, <2>1, <2>2
<1>13. OwnerAddedOnce'
  <2>1. ASSUME NEW n \in 1..L, r.tag = "Add", entries[n].tag = "Add",
               entries[n].stack = r.stack, Owns(r.stack)
        PROVE  FALSE
    <3>1. NoAddOf(r.hash)
      BY <1>1, <2>1 DEF PendingFits
    <3>2. entries[n].hash = r.hash
      BY <1>3, <1>5, <2>1 DEF HashesOwn
    <3> QED BY <1>3, <2>1, <3>1, <3>2 DEF NoAddOf, AddOf
  <2>2. \A m, n \in 1..L :
          /\ entries[m].tag = "Add" /\ entries[n].tag = "Add"
          /\ entries[m].stack = entries[n].stack
          /\ Owns(entries[m].stack)
          => m = n
    BY <1>3 DEF OwnerAddedOnce, Owns
  <2> SUFFICES ASSUME NEW m \in 1..(L + 1), NEW n \in 1..(L + 1),
                      entries'[m].tag = "Add", entries'[n].tag = "Add",
                      entries'[m].stack = entries'[n].stack, Owns(entries'[m].stack)
               PROVE  m = n
    BY <1>1, <1>3 DEF OwnerAddedOnce, Owns, tableVars
  <2> QED BY <1>3, <2>1, <2>2
<1> QED BY <1>7, <1>8, <1>9, <1>10, <1>11, <1>12, <1>13

-----------------------------------------------------------------------------

LEMMA TableStep == TypeOK /\ TableInv /\ [Next]_vars => TableInv'
<1> SUFFICES ASSUME TypeOK, TableInv, [Next]_vars PROVE TableInv'
  OBVIOUS
<1>1. ASSUME UNCHANGED vars PROVE TableInv'
  <2>1. LockHeld' /\ \A t \in Threads : Inserting(t)' <=> Inserting(t)
    BY <1>1 DEF vars, LockHeld, Inserting, TableInv
  <2> QED BY <1>1, <2>1, TableFrame DEF vars
<1> QED
  BY <1>1, TableCall, TableAddStackTrace, TableInsert, TableFlush DEF Next, Ended

\* Types hold throughout.
THEOREM TraceTypes == Spec => []TypeOK
<1> QED BY TypeInit, TypeStep, PTL DEF Spec

\* addStackTrace keeps its table and the stream in agreement: the inductive
\* invariant holds throughout.
THEOREM TableInvariant == Spec => []TableInv
<1> QED BY TypeInit, TypeStep, TableInit, TableStep, PTL DEF Spec

\* Every hash in the stream stands for a trace inserted before it, and the first
\* trace of that hash is the right one, whatever 32-bit hashes collide.
THEOREM HashesResolve == Spec => []TracesResolve
<1>1. TableInv => TracesResolve
  BY DEF TableInv
<1> QED BY <1>1, TableInvariant, PTL

\* The trace that owns a slot is written in full exactly once.
THEOREM NoRepeatedTrace == Spec => []OwnerAddedOnce
<1>1. TableInv => OwnerAddedOnce
  BY DEF TableInv
<1> QED BY <1>1, TableInvariant, PTL

\* A slot that has an owner keeps it.
THEOREM SlotsKeepOwners == Spec => OwnersStay
<1>1. ASSUME TypeOK, TableInv, [Next]_vars, NEW i \in Slots, m_stackTraceHash2[i] # 0
      PROVE  /\ m_stackTraceHashes'[i] = m_stackTraceHashes[i]
             /\ m_stackTraceHash2'[i] = m_stackTraceHash2[i]
  <2>1. CASE UNCHANGED tableVars
    BY <2>1 DEF tableVars
  <2>2. ASSUME NEW t \in Threads, FreeSlot(trace[t]), TakeSlot(trace[t])
        PROVE  /\ m_stackTraceHashes'[i] = m_stackTraceHashes[i]
               /\ m_stackTraceHash2'[i] = m_stackTraceHash2[i]
    <3>1. m_stackTraceHashes[i] # 0
      BY <1>1 DEF TableInv, SlotsConsistent
    <3>2. Slot(trace[t]) # i /\ Slot(trace[t]) \in Slots
      BY <1>1, <2>2, <3>1, HashFacts DEF FreeSlot, TypeOK
    <3> QED BY <1>1, <2>2, <3>2 DEF TakeSlot, TypeOK
  <2>3. \/ UNCHANGED tableVars
        \/ \E t \in Threads : FreeSlot(trace[t]) /\ TakeSlot(trace[t])
    <3>1. ASSUME NEW t \in Threads, addStackTrace(t)
          PROVE  \/ UNCHANGED tableVars
                 \/ FreeSlot(trace[t]) /\ TakeSlot(trace[t])
      BY <3>1 DEF addStackTrace
    <3>2. ASSUME NEW t \in Threads, NEW s \in Stacks, Call(t, s) PROVE UNCHANGED tableVars
      BY <3>2 DEF Call, tableVars
    <3>3. ASSUME NEW t \in Threads, Insert(t) PROVE UNCHANGED tableVars
      BY <3>3 DEF Insert, tableVars
    <3>4. (flush \/ UNCHANGED vars) => UNCHANGED tableVars
      BY DEF flush, vars
    <3> QED BY <1>1, <3>1, <3>2, <3>3, <3>4 DEF Next, Ended
  <2> QED BY <2>1, <2>2, <2>3
<1>2. TypeOK /\ TableInv /\ [Next]_vars =>
        [\A i \in Slots : m_stackTraceHash2[i] # 0 =>
           /\ m_stackTraceHashes'[i] = m_stackTraceHashes[i]
           /\ m_stackTraceHash2'[i] = m_stackTraceHash2[i]]_vars
  BY <1>1
<1> QED BY <1>2, TraceTypes, TableInvariant, PTL DEF Spec, OwnersStay

-----------------------------------------------------------------------------
(* The file: until something is dropped, no record is missing from it. *)

\* A record ends once, and its bytes are bytes.
LEMMA RecordEnds ==
  ASSUME NEW r \in RecordType, NEW n \in Nat
  PROVE  /\ RecordBytes(n, Size(r)) \in Seq(Bytes)
         /\ Sift(RecordBytes(n, Size(r)), LastBytes) = <<Byte(n, TRUE)>>
<1> DEFINE m == Size(r)
           s == RecordBytes(n, m)
<1>1. m \in Nat /\ m > 0
  BY TraceSizesAssumption, BufferSizeAssumption DEF Size
<1> HIDE DEF m
<1>2. s \in [1..m -> Bytes]
  BY DEF RecordBytes, Byte, Bytes
<1>3. s \in Seq(Bytes) /\ Len(s) = m
  BY <1>1, <1>2, SeqDef
<1>4. \A i \in 1..m : s[i] \in LastBytes <=> i = m
  BY DEF RecordBytes, LastBytes, Bytes, Byte
<1>5. s[m] = Byte(n, TRUE)
  <2>1. m \in 1..m /\ (m = m) = TRUE
    BY <1>1
  <2> QED  BY <2>1 DEF RecordBytes, Byte
<1> HIDE DEF s
<1>6. s # << >>
  BY <1>1, <1>3
<1>7. Sift(s, LastBytes) = <<s[m]>>
  BY <1>3, <1>4, <1>6, SiftLast
<1> QED  BY <1>3, <1>5, <1>7 DEF s, m

LEMMA SavedType ==
  ASSUME BytesTyped
  PROVE  Saved \in Seq(Bytes) /\ FlattenSeq(disk) \in Seq(Bytes)
<1>1. FlattenSeq(disk) \in Seq(Bytes)
  BY FlattenType DEF BytesTyped
<1> QED  BY <1>1, ConcatProperties DEF BytesTyped, Saved

LEMMA Concats ==
  ASSUME NEW s \in Seq(Bytes), NEW u \in Seq(Bytes), NEW v \in Seq(Bytes)
  PROVE  /\ u \o v \in Seq(Bytes) /\ s \o (u \o v) \in Seq(Bytes)
         /\ s \o (u \o v) = (s \o u) \o v
<1>1. u \o v \in Seq(Bytes)
  BY ConcatProperties
<1>2. s \o (u \o v) \in Seq(Bytes)
  BY <1>1, ConcatProperties
<1> QED  BY SMTT(30), <1>1, <1>2, ConcatAssociative

\* A half that is written joins what is saved, or some of its records are lost.
LEMMA HalfSaved ==
  ASSUME BytesTyped, ExcessInUse, NEW half \in Seq(Bytes), WriteHalf(half)
  PROVE  /\ excess' \in Seq(Bytes) /\ disk' \in Seq(Seq(Bytes)) /\ ExcessInUse'
         /\ dropped' = {} => dropped = {} /\ Saved' = Saved \o half
<1>1. /\ excess \in Seq(Bytes) /\ disk \in Seq(Seq(Bytes))
      /\ FlattenSeq(disk) \in Seq(Bytes) /\ Saved \in Seq(Bytes)
  BY SavedType DEF BytesTyped
<1>2. PICK open : WriteChunk(half, open)
  BY DEF WriteHalf
<1>3. CASE WriteThrough(half)
  <2> DEFINE full == Append(disk, excess)
  <2>1. full \in Seq(Seq(Bytes)) /\ FlattenSeq(full) = Saved
    BY <1>1, FlattenAppend DEF Saved
  <2>2. disk' \in Seq(Seq(Bytes)) /\ FlattenSeq(disk') = Saved \o half
    <3>1. CASE m_excessBufferPtr
      <4>1. disk' = Append(full, half)
        <5>1. disk' = disk \o <<excess>> \o <<half>>
          BY <1>3, <3>1 DEF WriteThrough
        <5> QED  BY <1>1, <2>1, <5>1
      <4> HIDE DEF full
      <4>2. FlattenSeq(Append(full, half)) = FlattenSeq(full) \o half
        BY <2>1, FlattenAppend
      <4>3. Append(full, half) \in Seq(Seq(Bytes))
        BY <2>1, AppendProperties
      <4> QED  BY <2>1, <4>1, <4>2, <4>3
    <3>2. CASE ~m_excessBufferPtr
      <4>1. excess = << >> /\ Saved = FlattenSeq(disk)
        BY <1>1, <3>2, ConcatEmptySeq DEF ExcessInUse, Saved
      <4>2. disk' = Append(disk, half)
        <5>1. disk' = disk \o << >> \o <<half>>
          BY <1>3, <3>2 DEF WriteThrough
        <5> QED  BY <1>1, <5>1
      <4>3. FlattenSeq(Append(disk, half)) = FlattenSeq(disk) \o half
        BY <1>1, FlattenAppend
      <4>4. Append(disk, half) \in Seq(Seq(Bytes))
        BY <1>1, AppendProperties
      <4> QED  BY <4>1, <4>2, <4>3, <4>4
    <3> QED  BY <3>1, <3>2
  <2> HIDE DEF full
  <2>3. excess' = << >> /\ dropped' = dropped
    BY <1>3 DEF WriteThrough
  <2>4. excess' \in Seq(Bytes)
    BY <2>3
  <2>5. Saved' = Saved \o half
    <3>1. Saved \o half \in Seq(Bytes)
      BY <1>1, ConcatProperties
    <3> QED  BY <2>2, <2>3, <3>1, ConcatEmptySeq DEF Saved
  <2> QED  BY <2>2, <2>3, <2>4, <2>5 DEF ExcessInUse
<1>4. CASE KeepExcess(half)
  <2>1. /\ excess' = excess \o half /\ m_excessBufferPtr'
        /\ disk' = disk /\ dropped' = dropped
    BY <1>4 DEF KeepExcess
  <2>2. excess' \in Seq(Bytes)
    BY <1>1, <2>1, ConcatProperties
  <2>3. Saved' = Saved \o half
    <3>1. Saved' = FlattenSeq(disk) \o (excess \o half)
      BY <2>1 DEF Saved
    <3> DEFINE file == FlattenSeq(disk)
    <3>2. file \in Seq(Bytes) /\ excess \in Seq(Bytes) /\ half \in Seq(Bytes)
      BY <1>1
    <3> HIDE DEF file
    <3>3. file \o (excess \o half) = (file \o excess) \o half
      BY SMTT(30), <3>2, ConcatAssociative
    <3> QED  BY <3>1, <3>3 DEF Saved, file
  <2> QED  BY <1>1, <2>1, <2>2, <2>3 DEF ExcessInUse
<1>5. CASE DropChunk(half)
  <2>1. UNCHANGED <<m_excessBufferPtr, excess, disk>> /\ Saved' = Saved
    BY <1>5 DEF DropChunk, Saved
  <2>2. dropped' = {} => dropped = {} /\ half = << >>
    <3>1. dropped' = dropped \cup RecordsIn(half)
      BY <1>5 DEF DropChunk
    <3>2. half # << >> => half[1].rec \in RecordsIn(half)
      <4>1. half # << >> => 1 \in DOMAIN half
        OBVIOUS
      <4> QED  BY <4>1 DEF RecordsIn
    <3> QED  BY <3>1, <3>2
  <2>3. Saved \o << >> = Saved
    BY <1>1, ConcatEmptySeq
  <2> QED  BY <1>1, <2>1, <2>2, <2>3 DEF ExcessInUse
<1> QED  BY <1>2, <1>3, <1>4, <1>5 DEF WriteChunk

LEMMA FileInitially == Init => FileInv
<1> SUFFICES ASSUME Init PROVE FileInv
  OBVIOUS
<1>1. active = << >> /\ excess = << >> /\ disk = << >> /\ entries = << >>
  BY DEF Init, FileInit
<1>2. active \in Seq(Bytes) /\ excess \in Seq(Bytes) /\ disk \in Seq(Seq(Bytes))
  BY <1>1
<1>3. Sift(Saved \o active, LastBytes) = << >>
  BY <1>1, FlattenEmpty, SiftEmpty DEF Saved
<1>4. EndsOf(entries) = << >>
  BY <1>1 DEF EndsOf
<1> QED  BY <1>1, <1>2, <1>3, <1>4 DEF FileInv, BytesTyped, ExcessInUse, StreamComplete

LEMMA FileFrame ==
  ASSUME FileInv, UNCHANGED <<fileVars, active, entries>>
  PROVE  FileInv'
BY DEF FileInv, BytesTyped, ExcessInUse, StreamComplete, Saved, EndsOf, fileVars

\* The ends of a longer stream.
LEMMA EndsAppend ==
  ASSUME NEW T, NEW seq \in Seq(T), NEW x \in T
  PROVE  EndsOf(Append(seq, x)) = EndsOf(seq) \o <<Byte(Len(seq) + 1, TRUE)>>
<1> DEFINE k == Len(seq)
           E == [n \in 1..k |-> Byte(n, TRUE)]
           last == Byte(k + 1, TRUE)
           whole == [n \in 1..(k + 1) |-> Byte(n, TRUE)]
<1>1. k \in Nat /\ EndsOf(seq) = E /\ EndsOf(Append(seq, x)) = whole
  BY AppendProperties, LenProperties DEF EndsOf
<1>2. /\ last \in Bytes /\ \A n \in 1..k : E[n] = whole[n]
      /\ whole[k + 1] = last
  BY <1>1 DEF Byte, Bytes
<1>3. E \in [1..k -> Bytes] /\ whole \in [1..(k + 1) -> Bytes]
  BY <1>1 DEF Byte, Bytes
<1> HIDE DEF k, E, last, whole
<1>4. E \in Seq(Bytes) /\ Len(E) = k /\ whole \in Seq(Bytes) /\ Len(whole) = k + 1
  BY <1>1, <1>3, SeqDef
<1>5. E \o <<last>> \in Seq(Bytes) /\ Len(E \o <<last>>) = k + 1
  BY <1>1, <1>2, <1>4
<1>6. \A n \in 1..(k + 1) : (E \o <<last>>)[n] = whole[n]
  BY <1>1, <1>2, <1>4
<1>7. E \o <<last>> = whole
  BY <1>4, <1>5, <1>6, SeqEqual
<1> QED  BY <1>1, <1>7 DEF k, last

\* Bytes that join the stream bring the ends of their records.
LEMMA StreamGrows ==
  ASSUME BytesTyped, StreamComplete, NEW x \in Seq(Bytes),
         BytesTyped',
         dropped' = {} => dropped = {} /\ Saved' \o active' = (Saved \o active) \o x,
         EndsOf(entries)' = EndsOf(entries) \o Sift(x, LastBytes)
  PROVE  StreamComplete'
<1> DEFINE stream == Saved \o active
<1>1. stream \in Seq(Bytes)
  BY SavedType, ConcatProperties DEF BytesTyped
<1> HIDE DEF stream
<1>2. Sift(stream \o x, LastBytes) = Sift(stream, LastBytes) \o Sift(x, LastBytes)
  BY <1>1, SiftConcats
<1> QED  BY <1>2 DEF StreamComplete, stream

LEMMA FileInsert ==
  ASSUME TypeOK, FileInv, NEW t \in Threads, Insert(t)
  PROVE  FileInv'
<1> DEFINE L == Len(entries)
           x == RecordBytes(L + 1, Size(rec[t]))
<1>1. /\ entries \in Seq(RecordType) /\ rec[t] \in RecordType
      /\ entries' = Append(entries, rec[t]) /\ L + 1 \in Nat
  BY LenProperties DEF TypeOK, Insert, RecordType
<1>2. x \in Seq(Bytes) /\ Sift(x, LastBytes) = <<Byte(L + 1, TRUE)>>
  BY <1>1, RecordEnds
<1>3. EndsOf(entries)' = EndsOf(entries) \o Sift(x, LastBytes)
  <2>1. EndsOf(entries)' = EndsOf(entries')
    BY DEF EndsOf
  <2> QED  BY <1>1, <1>2, <2>1, EndsAppend
<1>4. \/ active' = active \o x /\ UNCHANGED fileVars
      \/ active' = << >> /\ WriteHalf(active \o x)
      \/ active' = x /\ WriteHalf(active)
  BY DEF Insert
<1> HIDE DEF x
<1>5. /\ active \in Seq(Bytes) /\ active \o x \in Seq(Bytes) /\ << >> \in Seq(Bytes)
      /\ Saved \in Seq(Bytes) /\ Saved \o (active \o x) \in Seq(Bytes)
      /\ Saved \o (active \o x) = (Saved \o active) \o x
  BY SMTT(30), <1>2, SavedType, Concats DEF FileInv, BytesTyped
<1>6. /\ BytesTyped' /\ ExcessInUse'
      /\ dropped' = {} => dropped = {} /\ Saved' \o active' = (Saved \o active) \o x
  <2>1. CASE active' = active \o x /\ UNCHANGED fileVars
    BY <1>5, <2>1 DEF fileVars, FileInv, BytesTyped, ExcessInUse, Saved
  <2>2. CASE active' = << >> /\ WriteHalf(active \o x)
    <3>1. /\ excess' \in Seq(Bytes) /\ disk' \in Seq(Seq(Bytes)) /\ ExcessInUse'
          /\ dropped' = {} => dropped = {} /\ Saved' = Saved \o (active \o x)
      BY <1>5, <2>2, HalfSaved DEF FileInv
    <3>2. (Saved \o (active \o x)) \o << >> = Saved \o (active \o x)
      BY <1>5, ConcatEmptySeq
    <3> QED  BY <1>5, <2>2, <3>1, <3>2 DEF BytesTyped
  <2>3. CASE active' = x /\ WriteHalf(active)
    <3>1. /\ excess' \in Seq(Bytes) /\ disk' \in Seq(Seq(Bytes)) /\ ExcessInUse'
          /\ dropped' = {} => dropped = {} /\ Saved' = Saved \o active
      BY <1>5, <2>3, HalfSaved DEF FileInv
    <3> QED  BY <1>2, <2>3, <3>1 DEF BytesTyped
  <2> QED  BY <1>4, <2>1, <2>2, <2>3
<1>7. StreamComplete'
  BY <1>2, <1>3, <1>6, StreamGrows DEF FileInv
<1> QED  BY <1>6, <1>7 DEF FileInv

LEMMA FileFlush ==
  ASSUME FileInv, flush
  PROVE  FileInv'
<1>1. active' = << >> /\ WriteHalf(active) /\ entries' = entries
  BY DEF flush
<1>2. active \in Seq(Bytes)
  BY DEF FileInv, BytesTyped
<1>3. /\ excess' \in Seq(Bytes) /\ disk' \in Seq(Seq(Bytes)) /\ ExcessInUse'
      /\ dropped' = {} => dropped = {} /\ Saved' = Saved \o active
  BY <1>1, <1>2, HalfSaved DEF FileInv
<1>4. (Saved \o active) \o << >> = Saved \o active
  BY <1>2, SavedType, ConcatProperties, ConcatEmptySeq DEF FileInv
<1>5. EndsOf(entries)' = EndsOf(entries)
  BY <1>1 DEF EndsOf
<1>6. BytesTyped'
  BY <1>1, <1>3 DEF BytesTyped
<1> QED  BY <1>1, <1>3, <1>4, <1>5, <1>6 DEF FileInv, StreamComplete

LEMMA FileStep == TypeOK /\ FileInv /\ [Next]_vars => FileInv'
<1> SUFFICES ASSUME TypeOK, FileInv, [Next]_vars PROVE FileInv'
  OBVIOUS
<1>1. ASSUME NEW t \in Threads, NEW s \in Stacks, Call(t, s) PROVE FileInv'
  BY <1>1, FileFrame DEF Call
<1>2. ASSUME NEW t \in Threads, addStackTrace(t) PROVE FileInv'
  BY <1>2, FileFrame DEF addStackTrace
<1>3. ASSUME UNCHANGED vars PROVE FileInv'
  BY <1>3, FileFrame DEF vars
<1> QED  BY <1>1, <1>2, <1>3, FileInsert, FileFlush DEF Next, Ended

\* The records in the first bytes of a complete stream are the first entries.
LEMMA PrefixEntries ==
  ASSUME TypeOK, NEW s \in Seq(Bytes), NEW u \in Seq(Bytes),
         Sift(s \o u, LastBytes) = EndsOf(entries)
  PROVE  /\ DOMAIN EntriesIn(s) \in {1..k : k \in 0..Len(entries)}
         /\ \A i \in DOMAIN EntriesIn(s) : EntriesIn(s)[i] = entries[i]
<1> DEFINE p == Sift(s, LastBytes)
           q == Sift(u, LastBytes)
           all == EndsOf(entries)
           L == Len(entries)
<1>1. p \in Seq(Bytes) /\ q \in Seq(Bytes) /\ p \o q = all
  <2>1. p \in Seq(Bytes) /\ q \in Seq(Bytes)
    BY SiftType
  <2>2. Sift(s \o u, LastBytes) = p \o q
    BY SiftConcat
  <2> QED  BY <2>1, <2>2
<1>2. L \in Nat /\ DOMAIN all = 1..L /\ \A i \in 1..L : all[i] = Byte(i, TRUE)
  <2>1. L \in Nat /\ DOMAIN entries = 1..L
    BY DEF TypeOK
  <2> HIDE DEF L
  <2> QED  BY <2>1 DEF EndsOf
<1>3. EntriesIn(s) = [i \in DOMAIN p |-> entries[p[i].rec]]
  BY DEF EntriesIn
<1> HIDE DEF p, q, all, L
<1>4. /\ DOMAIN p = 1..Len(p) /\ Len(p) \in Nat /\ Len(q) \in Nat
      /\ Len(p \o q) = Len(p) + Len(q) /\ DOMAIN (p \o q) = 1..(Len(p) + Len(q))
      /\ \A i \in 1..Len(p) : (p \o q)[i] = p[i]
  BY <1>1, ConcatProperties, LenProperties
<1>5. Len(p) + Len(q) = L
  <2>1. 1..L = 1..(Len(p) + Len(q))
    BY <1>1, <1>2, <1>4
  <2> QED  BY <1>2, <1>4, <2>1
<1>6. \A i \in 1..Len(p) : i \in 1..L /\ p[i] = Byte(i, TRUE)
  <2> SUFFICES ASSUME NEW i \in 1..Len(p) PROVE i \in 1..L /\ p[i] = Byte(i, TRUE)
    OBVIOUS
  <2>1. i \in 1..L
    BY <1>4, <1>5
  <2>2. p[i] = all[i]
    BY <1>1, <1>4
  <2> QED  BY <1>2, <2>1, <2>2
<1>7. \A i \in 1..Len(p) : EntriesIn(s)[i] = entries[i]
  BY <1>3, <1>4, <1>6 DEF Byte
<1>8. DOMAIN EntriesIn(s) = 1..Len(p) /\ Len(p) \in 0..L
  BY <1>2, <1>3, <1>4, <1>5
<1> QED  BY <1>7, <1>8 DEF L

\* The first records of a stream that resolves resolve.
LEMMA PrefixResolves ==
  ASSUME TypeOK, TracesResolve, NEW k \in 0..Len(entries), NEW seq,
         DOMAIN seq = 1..k, \A i \in 1..k : seq[i] = entries[i]
  PROVE  Resolves(seq)
<1> SUFFICES ASSUME NEW n \in 1..k, seq[n].tag = "Exists"
             PROVE  \E m \in 1..(n - 1) : /\ FirstAdd(seq, m)
                                          /\ seq[m].hash = seq[n].hash
                                          /\ seq[m].stack = seq[n].stack
  BY DEF Resolves
<1>1. Len(entries) \in Nat /\ DOMAIN entries = 1..Len(entries)
  BY DEF TypeOK
<1>2. PICK m \in 1..(n - 1) : /\ FirstAdd(entries, m)
                              /\ entries[m].hash = entries[n].hash
                              /\ entries[m].stack = entries[n].stack
  BY <1>1 DEF TracesResolve, Resolves
<1>3. \A i \in 1..m : i \in 1..k
  OBVIOUS
<1>4. \A i \in 1..m : seq[i] = entries[i]
  BY <1>3
<1>5. FirstAdd(seq, m)
  <2>1. m \in 1..m /\ \A i \in 1..(m - 1) : i \in 1..m
    OBVIOUS
  <2> QED  BY <1>2, <1>4, <2>1 DEF FirstAdd
<1> QED  BY <1>2, <1>5

LEMMA SavedPrefix ==
  ASSUME TypeOK, TracesResolve, FileInv, dropped = {},
         NEW s \in Seq(Bytes), NEW u \in Seq(Bytes), s \o u = Saved \o active
  PROVE  Resolves(EntriesIn(s))
<1>1. Sift(s \o u, LastBytes) = EndsOf(entries)
  BY DEF FileInv, StreamComplete
<1>2. /\ DOMAIN EntriesIn(s) \in {1..k : k \in 0..Len(entries)}
      /\ \A i \in DOMAIN EntriesIn(s) : EntriesIn(s)[i] = entries[i]
  BY <1>1, PrefixEntries
<1> QED  BY <1>2, PrefixResolves

THEOREM FileInvariant == Spec => []FileInv
<1> QED BY TraceTypes, FileInitially, FileStep, PTL DEF Spec

\* As long as nothing had to be dropped, the traces of the records in the file and
\* in the excess buffer are there too, before the records that stand for them.
THEOREM SavedTracesResolve == Spec => []SavedResolves
<1>1. TypeOK /\ TableInv /\ FileInv => SavedResolves
  <2> SUFFICES ASSUME TypeOK, TracesResolve, FileInv, dropped = {}
               PROVE  Resolves(EntriesIn(Saved))
    BY DEF SavedResolves, TableInv
  <2>1. Saved \in Seq(Bytes) /\ active \in Seq(Bytes)
    BY SavedType DEF FileInv, BytesTyped
  <2> QED  BY <2>1, SavedPrefix
<1> QED BY <1>1, TraceTypes, TableInvariant, FileInvariant, PTL

\* The same of the file alone, which is what a crash leaves.
THEOREM FileTracesResolve == Spec => [](dropped = {} => FileResolves)
<1>1. TypeOK /\ TableInv /\ FileInv => (dropped = {} => FileResolves)
  <2> SUFFICES ASSUME TypeOK, TracesResolve, FileInv, dropped = {}
               PROVE  Resolves(EntriesIn(FlattenSeq(disk)))
    BY DEF FileResolves, TableInv
  <2> DEFINE file == FlattenSeq(disk)
  <2>1. file \in Seq(Bytes) /\ excess \in Seq(Bytes) /\ active \in Seq(Bytes)
    BY SavedType DEF FileInv, BytesTyped
  <2>2. Saved = file \o excess
    BY DEF Saved
  <2> HIDE DEF file
  <2>3. excess \o active \in Seq(Bytes) /\ file \o (excess \o active) = Saved \o active
    BY <2>1, <2>2, Concats
  <2>4. Resolves(EntriesIn(file))
    BY <2>1, <2>3, SavedPrefix
  <2> QED  BY <2>4 DEF file
<1> QED BY <1>1, TraceTypes, TableInvariant, FileInvariant, PTL
=============================================================================
