--------------------------- MODULE HeapHookProofs ---------------------------
(***************************************************************************)
(* Theorems about the hooks around the allocator, for any number of        *)
(* threads and addresses and any interleaving.                             *)
(***************************************************************************)
EXTENDS HeapHooks, TLAPS

\* A free is recorded before it is done.
LEMMA FreeOrder ==
  /\ FreeSteps[1] = "recFree"
  /\ AfterFreeStep("recFree") = "realFree"
  /\ AfterFreeStep("realFree") = "idle"
BY DEF FreeSteps, AfterFreeStep

\* The real allocator returns something of its type.
LEMMA AllocateTypes ==
  ASSUME TypeOK, NEW t \in Threads, NEW f \in HeapFlags, Allocate(t, f)
  PROVE  /\ flags' \in [Threads -> Flags]
         /\ heap' \subseteq Blocks
         /\ res' \in [Threads -> Blocks \cup {NULL}]
BY DEF TypeOK, Allocate, HeapFlags, Flags

\* Type correctness, by the actions of a hook.
LEMMA TypesKept == TypeOK /\ [Next]_vars => TypeOK'
<1> SUFFICES ASSUME TypeOK, [Next]_vars PROVE TypeOK'
  OBVIOUS
<1>1. CASE Start
  BY <1>1 DEF Start, TypeOK
<1>2. ASSUME NEW t \in Threads, HookStep(t) PROVE TypeOK'
  <2>1. CASE malloc(t)
    BY <2>1, AllocateTypes DEF malloc, Enter, TypeOK
  <2>2. CASE rmemAlloc(t)
    BY <2>2 DEF rmemAlloc, TypeOK
  <2>3. CASE free(t)
    BY <2>3, FreeOrder DEF free, HeapFlags, Flags, Enter, TypeOK
  <2>4. CASE rmemFree(t)
    BY <2>4, FreeOrder DEF rmemFree, TypeOK
  <2>5. CASE realFree(t)
    BY <2>5, FreeOrder DEF realFree, Release, TypeOK
  <2>6. CASE reallocNull(t)
    BY <2>6, AllocateTypes DEF reallocNull, Enter, TypeOK
  <2>7. CASE realloc(t)
    BY <2>7 DEF realloc, MovesTo, Release, HeapFlags, Flags, Enter, TypeOK
  <2>8. CASE rmemRealloc(t)
    BY <2>8 DEF rmemRealloc, AfterRealloc, TypeOK
  <2> QED
    BY <1>2, <2>1, <2>2, <2>3, <2>4, <2>5, <2>6, <2>7, <2>8 DEF HookStep
<1>3. CASE Ended \/ UNCHANGED vars
  BY <1>3 DEF Ended, vars, TypeOK
<1> QED
  BY <1>1, <1>2, <1>3 DEF Next

\* Type correctness of the hooks around the allocator.
THEOREM HeapTypes == Spec => []TypeOK
<1>1. Init => TypeOK
  <2> SUFFICES ASSUME Init PROVE TypeOK
    OBVIOUS
  <2>1. capture \in BOOLEAN
    BY DEF Init
  <2> QED
    BY <2>1 DEF Init, TypeOK, Flags
<1> QED
  BY <1>1, TypesKept, PTL DEF Spec

-----------------------------------------------------------------------------
(* HeapInv: one lemma per action of a hook. *)

\* The allocation of a block that nobody uses.
LEMMA AllocateKeeps ==
  ASSUME TypeOK, HeapInv, NEW t \in Threads, NEW f \in HeapFlags,
         Allocate(t, f), pc[t] = "idle",
         pc' = [pc EXCEPT ![t] = "recAlloc"] \/
           (pc' = [pc EXCEPT ![t] = "recRealloc"] /\ arg'[t] = NULL),
         \A u \in Threads : u # t => arg'[u] = arg[u],
         UNCHANGED <<capture, hidden, held, known>>
  PROVE  HeapInv'
<1>1. \A u \in Threads : u # t => /\ Own(u)' = Own(u) /\ flags'[u] = flags[u]
                                 /\ pc'[u] = pc[u] /\ arg'[u] = arg[u]
  BY ZenonT(30) DEF Own, Allocate, TypeOK
<1>2. Own(t)' = {res'[t]} \ {NULL} /\ pc'[t] # "realFree"
  BY DEF Own, TypeOK
<1>3. heap \subseteq heap' /\ heap' \ heap \subseteq {res'[t]}
  BY DEF Allocate, TypeOK
<1>4. Own(t)' \cap heap = {} /\ Own(t)' \subseteq heap'
  BY <1>2 DEF Allocate, TypeOK
<1>5. OwnedApart'
  BY <1>1, <1>3, <1>4 DEF OwnedApart, HeapInv
<1>6. KnownKept'
  <2> SUFFICES ASSUME NEW p \in known \ {NULL}
               PROVE  \/ \E u \in Threads : Reallocating(u, p)' /\ RecordsAlloc(flags'[u])
                      \/ p \in hidden' \ heap'
                      \/ p \in heap' /\ \A u \in Threads : ~FreeRecorded(u, p)'
    BY DEF KnownKept
  <2>0. ~FreeRecorded(t, p)'
    BY <1>2 DEF FreeRecorded, Releasing
  <2>1. CASE \E u \in Threads : Reallocating(u, p) /\ RecordsAlloc(flags[u])
    BY <2>1, <1>1 DEF Reallocating
  <2>2. CASE p \in hidden \ heap
    <3>1. \A u \in Threads : u # t => ~FreeRecorded(u, p)'
      BY <2>2, <1>1, <1>3 DEF FreeRecorded, Releasing, Own, OwnedApart, HeapInv
    <3> QED
      BY <2>0, <2>2, <3>1
  <2>3. CASE p \in heap /\ \A u \in Threads : ~FreeRecorded(u, p)
    BY <2>0, <2>3, <1>1, <1>3 DEF FreeRecorded, Releasing
  <2> QED
    BY <2>1, <2>2, <2>3 DEF KnownKept, HeapInv
<1> QED
  BY <1>5, <1>6 DEF HeapInv

\* A step of one thread leaves the calls of the others alone.
LEMMA OthersUntouched ==
  ASSUME TypeOK, NEW t \in Threads, HookStep(t), NEW u \in Threads, u # t
  PROVE  /\ Own(u)' = Own(u) /\ flags'[u] = flags[u]
         /\ pc'[u] = pc[u] /\ arg'[u] = arg[u] /\ res'[u] = res[u]
         /\ \A p : Reallocating(u, p)' = Reallocating(u, p)
         /\ \A p : Releasing(u, p)' = Releasing(u, p)
         /\ \A p : FreeRecorded(u, p)' = FreeRecorded(u, p)
<1>1. /\ flags'[u] = flags[u] /\ pc'[u] = pc[u] /\ arg'[u] = arg[u] /\ res'[u] = res[u]
  BY DEF HookStep, malloc, rmemAlloc, free, rmemFree, realFree, reallocNull, realloc,
         rmemRealloc, Enter, Allocate, TypeOK
<1> QED
  BY <1>1 DEF Own, Reallocating, Releasing, FreeRecorded, RecordsFree

LEMMA MallocKeeps ==
  ASSUME TypeOK, HeapInv, NEW t \in Threads, malloc(t)
  PROVE  HeapInv'
BY AllocateKeeps DEF malloc, Enter, TypeOK

LEMMA ReallocNullKeeps ==
  ASSUME TypeOK, HeapInv, NEW t \in Threads, reallocNull(t)
  PROVE  HeapInv'
BY AllocateKeeps DEF reallocNull, Enter, TypeOK

\* The record of an allocation: the block is the caller's, so nobody releases it.
LEMMA RmemAllocKeeps ==
  ASSUME TypeOK, HeapInv, NEW t \in Threads, rmemAlloc(t)
  PROVE  HeapInv'
<1>0. HookStep(t)
  BY DEF HookStep
<1>1. /\ Own(t) = {res[t]} \ {NULL} /\ Own(t)' = {} /\ heap' = heap /\ hidden' = hidden
      /\ held' = held \cup Own(t) /\ capture' = capture /\ pc'[t] = "idle"
  BY DEF rmemAlloc, Own, TypeOK
<1>2. OwnedApart'
  BY <1>0, <1>1, OthersUntouched DEF OwnedApart, HeapInv
<1>4. KnownKept'
  <2> SUFFICES ASSUME NEW p \in known' \ {NULL}
               PROVE  \/ \E u \in Threads : Reallocating(u, p)' /\ RecordsAlloc(flags'[u])
                      \/ p \in hidden' \ heap'
                      \/ p \in heap' /\ \A u \in Threads : ~FreeRecorded(u, p)'
    BY DEF KnownKept
  <2>1. ~Reallocating(t, p) /\ ~FreeRecorded(t, p)'
    BY <1>1 DEF Reallocating, FreeRecorded, Releasing, rmemAlloc
  <2>2. CASE p \in known
    BY <2>1, <2>2, <1>0, <1>1, OthersUntouched DEF KnownKept, HeapInv
  <2>3. CASE p \notin known
    <3>1. p = res[t]
      BY <2>3 DEF rmemAlloc
    <3>2. p \in heap
      BY <3>1, <1>1 DEF HeapInv, OwnedApart
    <3>3. \A u \in Threads : u # t => ~FreeRecorded(u, p)
      BY <3>1, <1>1 DEF HeapInv, OwnedApart, FreeRecorded, Releasing, Own
    <3> QED
      BY <3>2, <3>3, <2>1, <1>0, <1>1, OthersUntouched
  <2> QED
    BY <2>2, <2>3
<1> QED
  BY <1>1, <1>2, <1>4 DEF HeapInv, rmemAlloc

\* free takes a block the program holds.
LEMMA FreeKeeps ==
  ASSUME TypeOK, HeapInv, NEW t \in Threads, free(t)
  PROVE  HeapInv'
<1>0. HookStep(t)
  BY DEF HookStep
<1> PICK p \in held : held' = held \ {p} /\ arg' = [arg EXCEPT ![t] = p]
  BY DEF free
<1>1. /\ Own(t)' = {p} /\ heap' = heap /\ hidden' = hidden /\ known' = known
      /\ capture' = capture /\ pc[t] = "idle" /\ pc'[t] = "recFree"
  BY FreeOrder DEF free, Enter, Own, TypeOK
<1>2. OwnedApart'
  BY <1>0, <1>1, OthersUntouched DEF OwnedApart, HeapInv
<1>4. \A q : ~Reallocating(t, q) /\ ~FreeRecorded(t, q)'
  BY <1>1 DEF Reallocating, FreeRecorded, Releasing
<1>5. KnownKept'
  BY <1>0, <1>1, <1>4, OthersUntouched DEF KnownKept, HeapInv
<1> QED
  BY <1>1, <1>2, <1>5 DEF HeapInv

\* The record of a free: from here on the block is not known any more.
LEMMA RmemFreeKeeps ==
  ASSUME TypeOK, HeapInv, NEW t \in Threads, rmemFree(t)
  PROVE  HeapInv'
<1>0. HookStep(t)
  BY DEF HookStep
<1>1. /\ Own(t)' = {arg[t]} /\ Own(t) = {arg[t]} /\ heap' = heap /\ hidden' = hidden /\ held' = held
      /\ capture' = capture /\ flags' = flags /\ known' \subseteq known
      /\ pc[t] = "recFree" /\ pc'[t] = "realFree" /\ arg' = arg
  BY FreeOrder DEF rmemFree, Own, TypeOK
<1>2. OwnedApart'
  BY <1>0, <1>1, OthersUntouched DEF OwnedApart, HeapInv
<1>4. capture /\ RecordsFree(flags[t]) => arg[t] \notin known'
  BY DEF rmemFree
<1>5. \A p : FreeRecorded(t, p)' => p = arg[t] /\ RecordsFree(flags[t])
  BY <1>1 DEF FreeRecorded, Releasing
<1>6. KnownKept'
  <2> SUFFICES ASSUME NEW p \in known' \ {NULL}
               PROVE  \/ \E u \in Threads : Reallocating(u, p)' /\ RecordsAlloc(flags'[u])
                      \/ p \in hidden' \ heap'
                      \/ p \in heap' /\ \A u \in Threads : ~FreeRecorded(u, p)'
    BY DEF KnownKept
  <2>1. p \in known \ {NULL} /\ capture
    BY <1>1 DEF HeapInv
  <2>2. ~Reallocating(t, p)
    BY <1>1 DEF Reallocating
  <2>3. ~FreeRecorded(t, p)'
    BY <2>1, <1>4, <1>5
  <2> QED
    BY <2>1, <2>2, <2>3, <1>0, <1>1, OthersUntouched DEF KnownKept, HeapInv
<1> QED
  BY <1>1, <1>2, <1>6 DEF HeapInv

\* The free itself: its record has been made, or is hidden.
LEMMA RealFreeKeeps ==
  ASSUME TypeOK, HeapInv, NEW t \in Threads, realFree(t)
  PROVE  HeapInv'
<1>0. HookStep(t)
  BY DEF HookStep
<1>1. /\ Own(t) = {arg[t]} /\ Own(t)' = {} /\ heap' = heap \ {arg[t]} /\ held' = held
      /\ hidden' = (IF RecordsFree(flags[t]) THEN hidden \ {arg[t]} ELSE hidden \cup {arg[t]})
      /\ arg[t] \in heap /\ capture' = capture /\ known' = known /\ pc[t] = "realFree" /\ pc'[t] = "idle"
  BY FreeOrder DEF realFree, Release, Own, OwnedApart, HeapInv, TypeOK
<1>2. OwnedApart'
  BY <1>0, <1>1, OthersUntouched DEF OwnedApart, HeapInv
<1>4. \A p : ~Reallocating(t, p) /\ ~FreeRecorded(t, p)'
  BY <1>1 DEF Reallocating, FreeRecorded, Releasing
<1>5. RecordsFree(flags[t]) => FreeRecorded(t, arg[t])
  BY <1>1 DEF FreeRecorded, Releasing
<1>6. KnownKept'
  <2> SUFFICES ASSUME NEW p \in known' \ {NULL}
               PROVE  \/ \E u \in Threads : Reallocating(u, p)' /\ RecordsAlloc(flags'[u])
                      \/ p \in hidden' \ heap'
                      \/ p \in heap' /\ \A u \in Threads : ~FreeRecorded(u, p)'
    BY DEF KnownKept
  <2>1. CASE p = arg[t]
    BY <2>1, <1>0, <1>1, <1>4, <1>5, OthersUntouched DEF KnownKept, HeapInv
  <2>2. CASE p # arg[t]
    BY <2>2, <1>0, <1>1, <1>4, OthersUntouched DEF KnownKept, HeapInv
  <2> QED
    BY <2>1, <2>2
<1> QED
  BY <1>1, <1>2, <1>6 DEF HeapInv

\* realloc: the old block may be gone although it is known; its record is due.
LEMMA ReallocKeeps ==
  ASSUME TypeOK, HeapInv, NEW t \in Threads, realloc(t)
  PROVE  HeapInv'
<1>0. HookStep(t)
  BY DEF HookStep
<1> PICK p \in held, f \in HeapFlags :
      /\ held' = held \ {p} /\ arg' = [arg EXCEPT ![t] = p]
      /\ flags' = [flags EXCEPT ![t] = f]
      /\ \/ \E q \in MovesTo :
              /\ heap' = (heap \ {p}) \cup {q}
              /\ Release(p, RecordsAlloc(f))
              /\ res' = [res EXCEPT ![t] = q]
         \/ res' = [res EXCEPT ![t] = p] /\ UNCHANGED <<heap, hidden>>
         \/ MayFail /\ res' = [res EXCEPT ![t] = NULL] /\ UNCHANGED <<heap, hidden>>
  BY DEF realloc
<1>1. /\ known' = known /\ capture' = capture /\ pc[t] = "idle" /\ pc'[t] = "recRealloc"
      /\ flags'[t] = f /\ arg'[t] = p /\ p \in Blocks /\ p \in heap
  BY DEF realloc, Enter, TypeOK, HeapInv, OwnedApart
<1>2. Own(t)' = (IF res'[t] = NULL THEN {p} ELSE {res'[t]}) \ {NULL}
  BY <1>1 DEF Own
<1>3. /\ Own(t)' \subseteq heap' /\ Own(t)' \cap heap \subseteq {p}
      /\ heap \ {p} \subseteq heap' /\ heap' \ heap \subseteq Own(t)'
      /\ hidden \ {p} \subseteq hidden'
      /\ ~RecordsAlloc(f) => p \in heap' \cup hidden'
  <2>1. CASE \E q \in Blocks \ heap :
               /\ heap' = (heap \ {p}) \cup {q} /\ Release(p, RecordsAlloc(f))
               /\ res' = [res EXCEPT ![t] = q]
    BY <2>1, <1>1, <1>2, NullAssumption DEF Release, TypeOK
  <2>2. CASE UNCHANGED <<heap, hidden>> /\ res'[t] \in {p, NULL}
    BY <2>2, <1>1, <1>2
  <2> QED
    BY <2>1, <2>2 DEF MovesTo, TypeOK
<1>4. OwnedApart'
  BY <1>0, <1>1, <1>3, OthersUntouched DEF OwnedApart, HeapInv
<1>5. \A u \in Threads : \A q : FreeRecorded(u, q)' => q \in heap \ {p} /\ FreeRecorded(u, q)
  <2> SUFFICES ASSUME NEW u \in Threads, NEW q, FreeRecorded(u, q)'
               PROVE  q \in heap \ {p} /\ FreeRecorded(u, q)
    OBVIOUS
  <2>1. u # t /\ FreeRecorded(u, q)
    BY <1>0, <1>1, OthersUntouched DEF FreeRecorded, Releasing
  <2>2. q \in Own(u)
    BY <2>1 DEF FreeRecorded, Releasing, Own
  <2> QED
    BY <2>1, <2>2 DEF OwnedApart, HeapInv
<1>6. KnownKept'
  <2> SUFFICES ASSUME NEW q \in known \ {NULL}
               PROVE  \/ \E u \in Threads : Reallocating(u, q)' /\ RecordsAlloc(flags'[u])
                      \/ q \in hidden' \ heap'
                      \/ q \in heap' /\ \A u \in Threads : ~FreeRecorded(u, q)'
    BY <1>1 DEF KnownKept
  <2>1. ~Reallocating(t, q)
    BY <1>1 DEF Reallocating
  <2>2. CASE \E u \in Threads : Reallocating(u, q) /\ RecordsAlloc(flags[u])
    BY <2>1, <2>2, <1>0, OthersUntouched
  <2>3. CASE q \in hidden \ heap
    BY <2>3, <1>1, <1>3, <1>5
  <2>4. CASE q \in heap /\ \A u \in Threads : ~FreeRecorded(u, q)
    <3>1. CASE q = p /\ RecordsAlloc(f)
      BY <3>1, <1>1 DEF Reallocating
    <3>2. CASE ~(q = p /\ RecordsAlloc(f))
      BY <3>2, <2>4, <1>3, <1>5
    <3> QED
      BY <3>1, <3>2
  <2> QED
    BY <2>2, <2>3, <2>4 DEF KnownKept, HeapInv
<1> QED
  BY <1>1, <1>4, <1>6 DEF HeapInv

\* The record of a realloc: its old block is forgotten, its new one is its own.
LEMMA RmemReallocKeeps ==
  ASSUME TypeOK, HeapInv, NEW t \in Threads, rmemRealloc(t)
  PROVE  HeapInv'
<1>0. HookStep(t)
  BY DEF HookStep
<1>1. /\ Own(t) = (IF res[t] = NULL THEN {arg[t]} ELSE {res[t]}) \ {NULL} /\ Own(t)' = {}
      /\ heap' = heap /\ hidden' = hidden /\ held' = held \cup Own(t)
      /\ capture' = capture /\ pc[t] = "recRealloc" /\ pc'[t] = "idle"
  BY DEF rmemRealloc, Own, TypeOK
<1>2. OwnedApart'
  BY <1>0, <1>1, OthersUntouched DEF OwnedApart, HeapInv
<1>4. KnownKept'
  <2> SUFFICES ASSUME NEW p \in known' \ {NULL}
               PROVE  \/ \E u \in Threads : Reallocating(u, p)' /\ RecordsAlloc(flags'[u])
                      \/ p \in hidden' \ heap'
                      \/ p \in heap' /\ \A u \in Threads : ~FreeRecorded(u, p)'
    BY DEF KnownKept
  <2>1. ~FreeRecorded(t, p)'
    BY <1>1 DEF FreeRecorded, Releasing
  <2>2. CASE capture /\ RecordsAlloc(flags[t]) /\ p = res[t]
    <3>1. p \in heap
      BY <2>2, <1>1 DEF HeapInv, OwnedApart
    <3>2. \A u \in Threads : u # t => ~FreeRecorded(u, p)
      BY <2>2, <1>1 DEF HeapInv, OwnedApart, FreeRecorded, Releasing, Own
    <3> QED
      BY <3>1, <3>2, <2>1, <1>0, <1>1, OthersUntouched
  <2>3. CASE ~(capture /\ RecordsAlloc(flags[t]) /\ p = res[t])
    <3>1. p \in known /\ ~(Reallocating(t, p) /\ RecordsAlloc(flags[t]))
      BY <2>3 DEF rmemRealloc, AfterRealloc, Reallocating, HeapInv
    <3> QED
      BY <3>1, <2>1, <1>0, <1>1, OthersUntouched DEF KnownKept, HeapInv
  <2> QED
    BY <2>2, <2>3
<1> QED
  BY <1>1, <1>2, <1>4 DEF HeapInv, rmemRealloc

\* HeapInv is inductive.
THEOREM HeapInvariant == Spec => []HeapInv
<1>1. Init => HeapInv
  BY DEF Init, HeapInv, OwnedApart, KnownKept, Own
<1>2. TypeOK /\ HeapInv /\ [Next]_vars => HeapInv'
  <2> SUFFICES ASSUME TypeOK, HeapInv, [Next]_vars PROVE HeapInv'
    OBVIOUS
  <2>1. CASE Start
    BY <2>1 DEF Start, HeapInv, OwnedApart, KnownKept, Own, Reallocating, Releasing, FreeRecorded
  <2>2. ASSUME NEW t \in Threads, HookStep(t) PROVE HeapInv'
    BY <2>2, MallocKeeps, RmemAllocKeeps, FreeKeeps, RmemFreeKeeps, RealFreeKeeps,
       ReallocNullKeeps, ReallocKeeps, RmemReallocKeeps DEF HookStep
  <2>3. CASE Ended \/ UNCHANGED vars
    BY <2>3 DEF Ended, vars, HeapInv, OwnedApart, KnownKept, Own, Reallocating, Releasing, FreeRecorded
  <2> QED
    BY <2>1, <2>2, <2>3 DEF Next
<1> QED
  BY <1>1, <1>2, HeapTypes, PTL DEF Spec

\* What the capture takes for live is live, or its reallocation is about to be
\* recorded, or the very call that released it has flags the mask of its detour
\* hides: the wrappers and the detours record a free before they do it and an
\* allocation after, and each tests the flags of its own call.
THEOREM FreedForgotten == Spec => []NoFalseLeak
<1>1. HeapInv => NoFalseLeak
  BY DEF HeapInv, KnownKept, NoFalseLeak, Reallocating
<1> QED
  BY <1>1, HeapInvariant, PTL

-----------------------------------------------------------------------------
(* Programs that are inPlace: nothing moves, fails, or comes too early.    *)

\* What a call obtains from such an allocator.
LEMMA InPlaceAllocate ==
  ASSUME inPlace, TypeOK, NEW t \in Threads, NEW f \in HeapFlags, Allocate(t, f)
  PROVE  /\ f = "plain" /\ res'[t] \in Blocks \ heap
         /\ heap' = heap \cup {res'[t]}
         /\ flags'[t] = "plain"
BY NullAssumption DEF HeapFlags, MayFail, Allocate, TypeOK

LEMMA InPlaceStep ==
  ASSUME inPlace, TypeOK, HeapInv, InPlaceInv, NEW t \in Threads, HookStep(t)
  PROVE  InPlaceInv'
<1> USE NullAssumption
<1>0. \A u \in Threads : u # t => /\ flags'[u] = flags[u] /\ pc'[u] = pc[u] /\ arg'[u] = arg[u]
                                  /\ res'[u] = res[u]
                                  /\ \A p : Releasing(u, p)' = Releasing(u, p)
  BY OthersUntouched
<1>1. CASE malloc(t) \/ reallocNull(t)
  <2>1. /\ res'[t] \in Blocks \ heap /\ heap' = heap \cup {res'[t]} /\ flags'[t] = "plain"
        /\ known' = known /\ capture' = capture /\ pc[t] = "idle"
        /\ pc'[t] \in {"recAlloc", "recRealloc"}
        /\ pc'[t] = "recRealloc" => arg'[t] = NULL
    <3>1. PICK f \in HeapFlags : Allocate(t, f)
      BY <1>1 DEF malloc, reallocNull
    <3>2. CASE malloc(t)
      BY <3>1, <3>2, InPlaceAllocate DEF malloc, Enter, TypeOK, InPlaceInv
    <3>3. CASE reallocNull(t)
      BY <3>1, <3>3, InPlaceAllocate DEF reallocNull, Enter, TypeOK, InPlaceInv
    <3> QED
      BY <1>1, <3>2, <3>3
  <2> QED
    BY <1>0, <2>1 DEF InPlaceInv, Releasing
<1>2. CASE rmemAlloc(t)
  <2>1. /\ known' = known \cup {res[t]} /\ pc[t] = "recAlloc" /\ pc'[t] = "idle"
        /\ heap' = heap /\ capture' = capture /\ flags' = flags /\ res' = res
        /\ Own(t) = {res[t]} /\ res[t] \in heap
    BY <1>2 DEF rmemAlloc, RecordsAlloc, InPlaceInv, Own, HeapInv, OwnedApart, TypeOK
  <2>2. \A u \in Threads : u # t /\ pc[u] = "recAlloc" => res[u] # res[t]
    BY <2>1 DEF HeapInv, OwnedApart, Own, InPlaceInv
  <2>3. \A p : ~Releasing(t, p)
    BY <2>1 DEF Releasing
  <2> QED
    BY <1>0, <2>1, <2>2, <2>3 DEF InPlaceInv
<1>3. CASE free(t)
  <2>1. /\ known' = known /\ pc[t] = "idle" /\ pc'[t] = "recFree" /\ heap' = heap
        /\ capture' = capture /\ res' = res
    BY <1>3, FreeOrder DEF free, Enter, TypeOK
  <2>2. flags'[t] = "plain"
    BY <1>3 DEF free, HeapFlags, TypeOK
  <2> QED
    BY <1>0, <2>1, <2>2 DEF InPlaceInv, Releasing
<1>4. CASE rmemFree(t)
  <2>1. /\ known' = known \ {arg[t]} /\ pc[t] = "recFree" /\ pc'[t] = "realFree"
        /\ heap' = heap /\ capture' = capture /\ flags' = flags /\ res' = res /\ arg' = arg
    BY <1>4, FreeOrder DEF rmemFree, RecordsFree, InPlaceInv, TypeOK
  <2>2. Releasing(t, arg[t])' /\ \A p : ~Releasing(t, p)
    BY <2>1 DEF Releasing
  <2> QED
    BY <1>0, <2>1, <2>2 DEF InPlaceInv
<1>5. CASE realFree(t)
  <2>1. /\ known' = known /\ pc[t] = "realFree" /\ pc'[t] = "idle"
        /\ heap' = heap \ {arg[t]} /\ capture' = capture /\ flags' = flags /\ res' = res
    BY <1>5, FreeOrder DEF realFree, TypeOK
  <2>2. Releasing(t, arg[t]) /\ \A p : p # arg[t] => ~Releasing(t, p)
    BY <2>1 DEF Releasing
  <2>3. arg[t] \notin known
    <3>1. \A u \in Threads : u # t => ~Reallocating(u, arg[t])
      BY <2>1 DEF Reallocating, InPlaceInv, HeapInv, OwnedApart, Own, TypeOK
    <3>2. arg[t] # NULL /\ ~Reallocating(t, arg[t])
      BY <2>1 DEF Reallocating, HeapInv, OwnedApart, Own, TypeOK
    <3>3. arg[t] \in heap
      BY <2>1 DEF HeapInv, OwnedApart, Own
    <3>4. FreeRecorded(t, arg[t])
      BY <2>2 DEF FreeRecorded, RecordsFree, InPlaceInv
    <3> QED
      BY <3>1, <3>2, <3>3, <3>4 DEF HeapInv, KnownKept
  <2> QED
    BY <1>0, <2>1, <2>2, <2>3 DEF InPlaceInv
<1>6. CASE realloc(t)
  <2>1. PICK p \in held : /\ res' = [res EXCEPT ![t] = p] /\ arg' = [arg EXCEPT ![t] = p]
                          /\ heap' = heap /\ flags'[t] = "plain"
    BY <1>6 DEF realloc, MovesTo, MayFail, HeapFlags, TypeOK
  <2>2. /\ known' = known /\ pc[t] = "idle" /\ pc'[t] = "recRealloc" /\ capture' = capture
        /\ flags'[t] = "plain" /\ arg'[t] = res'[t] /\ res'[t] # NULL
    BY <1>6, <2>1 DEF realloc, Enter, TypeOK, InPlaceInv
  <2> QED
    BY <1>0, <2>1, <2>2 DEF InPlaceInv, Releasing
<1>7. CASE rmemRealloc(t)
  <2>1. /\ known' = known \cup {res[t]} /\ pc[t] = "recRealloc" /\ pc'[t] = "idle"
        /\ heap' = heap /\ capture' = capture /\ flags' = flags /\ res' = res /\ arg' = arg
        /\ Own(t) = {res[t]} /\ res[t] \in heap
    <3>1. arg[t] \in {NULL, res[t]} /\ res[t] # NULL /\ NULL \notin known
      BY <1>7 DEF rmemRealloc, InPlaceInv, TypeOK
    <3> QED
      BY <1>7, <3>1 DEF rmemRealloc, RecordsAlloc, AfterRealloc, InPlaceInv, Own, HeapInv,
                        OwnedApart, TypeOK
  <2>2. \A u \in Threads : u # t /\ pc[u] = "recAlloc" => res[u] # res[t]
    BY <2>1 DEF HeapInv, OwnedApart, Own, InPlaceInv
  <2>3. \A p : ~Releasing(t, p)
    BY <2>1 DEF Releasing
  <2> QED
    BY <1>0, <2>1, <2>2, <2>3 DEF InPlaceInv
<1> QED
  BY <1>1, <1>2, <1>3, <1>4, <1>5, <1>6, <1>7 DEF HookStep

\* What is live is known, or its record is due, for ever.
THEOREM InPlaceInvariant == Spec => []InPlaceInv
<1>1. Init => InPlaceInv
  <2> SUFFICES ASSUME Init, inPlace PROVE InPlaceInv
    BY DEF InPlaceInv
  <2>1. capture
    BY DEF Init
  <2> QED
    BY <2>1 DEF Init, InPlaceInv
<1>2. TypeOK /\ HeapInv /\ InPlaceInv /\ [Next]_vars => InPlaceInv'
  <2> SUFFICES ASSUME TypeOK, HeapInv, InPlaceInv, [Next]_vars, inPlace' PROVE InPlaceInv'
    BY DEF InPlaceInv
  <2>0. inPlace
    BY DEF Next, Start, Ended, HookStep, malloc, rmemAlloc, free, rmemFree, realFree,
           reallocNull, realloc, rmemRealloc, vars
  <2>1. CASE Start
    BY <2>0, <2>1 DEF Start, InPlaceInv
  <2>2. ASSUME NEW t \in Threads, HookStep(t) PROVE InPlaceInv'
    BY <2>0, <2>2, InPlaceStep
  <2>3. CASE Ended \/ UNCHANGED vars
    <3>1. UNCHANGED vars
      BY <2>3 DEF Ended
    <3>2. \A t \in Threads : \A p : Releasing(t, p)' = Releasing(t, p)
      BY <3>1 DEF vars, Releasing
    <3> QED
      BY <2>0, <3>1, <3>2 DEF vars, InPlaceInv
  <2> QED
    BY <2>1, <2>2, <2>3 DEF Next
<1> QED
  BY <1>1, <1>2, HeapTypes, HeapInvariant, PTL DEF Spec

\* With nothing in flight, the capture knows every live block.
THEOREM NothingForgotten == Spec => []LiveKnown
<1>1. InPlaceInv => LiveKnown
  BY DEF InPlaceInv, LiveKnown, Releasing
<1> QED
  BY <1>1, InPlaceInvariant, PTL

\* Nobody records an allocation at an address that the capture has in use: the
\* free of the block that was there has been recorded before it was done.
THEOREM AddressesFresh == Spec => NoDoubleAlloc
<1>1. InPlaceInv /\ [Next]_vars =>
        [inPlace => \A t \in Threads :
           (pc[t] = "recAlloc" /\ pc'[t] = "idle") => res[t] \notin known]_vars
  BY DEF InPlaceInv
<1> QED
  BY <1>1, InPlaceInvariant, PTL DEF Spec, NoDoubleAlloc
=============================================================================
