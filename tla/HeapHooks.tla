------------------------------ MODULE HeapHooks ------------------------------
(***************************************************************************)
(* The hooks around the allocator: the linker and dynamic-loader wrappers  *)
(* of inc/rmem_entry.h and the Windows heap detours of                     *)
(* src/rmem_wrap_win.cpp.  A hook calls the real allocator and records the *)
(* operation as two steps, in an order that depends on the operation; the  *)
(* threads of the program interleave between them, and the allocator may   *)
(* give a released address to anybody at once.                             *)
(*                                                                         *)
(* known is what somebody who reads the capture so far takes for the live  *)
(* blocks.  One record is inserted in one step: MemoryHook shows why.      *)
(***************************************************************************)
EXTENDS Naturals, FiniteSets

CONSTANTS
  Threads,
  Blocks,   \* addresses
  NULL,     \* the null pointer
  MaxOps    \* bound on the calls of the allocator

\* How the heap flags of a call meet the masks of the detours: recorded always,
\* caught by the mask of allocations only, or by both.  Each call has flags of
\* its own: a block may be allocated with 0 and freed with HEAP_NO_SERIALIZE.
\* The wrappers of rmem_entry.h know only "plain".
Flags == {"plain", "masked", "internal"}

ASSUME NullAssumption == NULL \notin Blocks
ASSUME MaxOpsAssumption == MaxOps \in Nat

VARIABLES
  inPlace,  \* the program's setting, see below
  capture,  \* the hook exists
  heap,     \* the blocks that are allocated
  hidden,   \* history: the addresses last released by a call that is not recorded
            \* because of its flags
  held,     \* the blocks the program may pass to free or realloc
  known,    \* the live blocks according to the capture
  pc,
  arg,      \* the block each thread passes to free or realloc
  res,      \* what the real allocator returned to it
  flags,    \* the flags of its call
  ops       \* calls so far

vars == <<inPlace, capture, heap, hidden, held, known, pc, arg, res, flags, ops>>

\* In a program that is inPlace all allocations come after rmemInit and have
\* plain flags, realloc never moves a block and nothing fails.  The others meet
\* all of that, in any mixture.
HeapFlags == IF inPlace THEN {"plain"} ELSE Flags
MovesTo == IF inPlace THEN {} ELSE Blocks \ heap
MayFail == ~inPlace

Init ==
  /\ inPlace \in BOOLEAN
  /\ capture \in IF inPlace THEN {TRUE} ELSE BOOLEAN
  /\ heap = {}
  /\ hidden = {}
  /\ held = {}
  /\ known = {}
  /\ pc = [t \in Threads |-> "idle"]
  /\ arg = [t \in Threads |-> NULL]
  /\ res = [t \in Threads |-> NULL]
  /\ flags = [t \in Threads |-> "plain"]
  /\ ops = 0

\* rmemInit, called by the constructor of the wrappers or by rmemHookAllocs.
Start ==
  /\ ~capture
  /\ capture' = TRUE
  /\ UNCHANGED <<inPlace, heap, hidden, held, known, pc, arg, res, flags, ops>>

\* The masks of the detours: a call whose flags meet its mask is not recorded.
\* The one for freeing spares a flag that the one for allocating does not.
RecordsAlloc(f) == f = "plain"
RecordsFree(f) == f \in {"plain", "masked"}

\* The real allocator returns a free address, or null.
Allocate(t, f) ==
  /\ flags' = [flags EXCEPT ![t] = f]
  /\ \/ \E p \in Blocks \ heap :
          /\ heap' = heap \cup {p}
          /\ res' = [res EXCEPT ![t] = p]
     \/ /\ MayFail
        /\ res' = [res EXCEPT ![t] = NULL]
        /\ heap' = heap

\* p goes back to the allocator; recorded is whether the capture hears of it.
Release(p, recorded) ==
  hidden' = IF recorded THEN hidden \ {p} ELSE hidden \cup {p}

Enter(t, label) ==
  /\ pc[t] = "idle" /\ ops < MaxOps
  /\ ops' = ops + 1
  /\ pc' = [pc EXCEPT ![t] = label]

-----------------------------------------------------------------------------
(* malloc, calloc, RtlAllocateHeap: allocate, then record. *)

malloc(t) ==
  /\ Enter(t, "recAlloc")
  /\ \E f \in HeapFlags : Allocate(t, f)
  /\ UNCHANGED <<inPlace, capture, hidden, held, known, arg>>

rmemAlloc(t) ==
  /\ pc[t] = "recAlloc"
  /\ known' = IF capture /\ RecordsAlloc(flags[t]) THEN known \cup {res[t]} ELSE known
  /\ held' = held \cup ({res[t]} \ {NULL})
  /\ pc' = [pc EXCEPT ![t] = "idle"]
  /\ UNCHANGED <<inPlace, capture, heap, hidden, arg, res, flags, ops>>

-----------------------------------------------------------------------------
(* free, RtlFreeHeap: record, then free.  A null pointer is not recorded. *)

BugFreeFirst == <<"realFree", "recFree", "idle">>
FreeSteps == <<"recFree", "realFree", "idle">>

AfterFreeStep(label) == IF label = FreeSteps[1] THEN FreeSteps[2] ELSE FreeSteps[3]

free(t) ==
  /\ Enter(t, FreeSteps[1])
  /\ \E p \in held :
       /\ held' = held \ {p}
       /\ arg' = [arg EXCEPT ![t] = p]
  /\ \E f \in HeapFlags : flags' = [flags EXCEPT ![t] = f]
  /\ UNCHANGED <<inPlace, capture, heap, hidden, known, res>>

rmemFree(t) ==
  /\ pc[t] = "recFree"
  /\ known' = IF capture /\ RecordsFree(flags[t]) THEN known \ {arg[t]} ELSE known
  /\ pc' = [pc EXCEPT ![t] = AfterFreeStep("recFree")]
  /\ UNCHANGED <<inPlace, capture, heap, hidden, held, arg, res, flags, ops>>

realFree(t) ==
  /\ pc[t] = "realFree"
  /\ heap' = heap \ {arg[t]}
  /\ Release(arg[t], RecordsFree(flags[t]))
  /\ pc' = [pc EXCEPT ![t] = AfterFreeStep("realFree")]
  /\ UNCHANGED <<inPlace, capture, held, known, arg, res, flags, ops>>

-----------------------------------------------------------------------------
(* realloc, RtlReAllocateHeap: reallocate, which may free, then record. *)

\* realloc(NULL, n) allocates.
reallocNull(t) ==
  /\ Enter(t, "recRealloc")
  /\ arg' = [arg EXCEPT ![t] = NULL]
  /\ \E f \in HeapFlags : Allocate(t, f)
  /\ UNCHANGED <<inPlace, capture, hidden, held, known>>

realloc(t) ==
  /\ Enter(t, "recRealloc")
  /\ \E p \in held, f \in HeapFlags :
       /\ held' = held \ {p}
       /\ arg' = [arg EXCEPT ![t] = p]
       /\ flags' = [flags EXCEPT ![t] = f]
       /\ \/ \E q \in MovesTo :
               /\ heap' = (heap \ {p}) \cup {q}
               /\ Release(p, RecordsAlloc(f))
               /\ res' = [res EXCEPT ![t] = q]
          \/ res' = [res EXCEPT ![t] = p] /\ UNCHANGED <<heap, hidden>>
          \/ MayFail /\ res' = [res EXCEPT ![t] = NULL] /\ UNCHANGED <<heap, hidden>>
  /\ UNCHANGED <<inPlace, capture, known>>

BugOldKept(t) == known \cup {res[t]}
AfterRealloc(t) == (known \ {arg[t]}) \cup {res[t]}

\* A realloc that failed leaves the program its old block.
rmemRealloc(t) ==
  /\ pc[t] = "recRealloc"
  /\ known' = IF capture /\ RecordsAlloc(flags[t]) THEN AfterRealloc(t) ELSE known
  /\ held' = held \cup ((IF res[t] = NULL THEN {arg[t]} ELSE {res[t]}) \ {NULL})
  /\ pc' = [pc EXCEPT ![t] = "idle"]
  /\ UNCHANGED <<inPlace, capture, heap, hidden, arg, res, flags, ops>>

-----------------------------------------------------------------------------
HookStep(t) ==
  \/ malloc(t) \/ rmemAlloc(t)
  \/ free(t) \/ rmemFree(t) \/ realFree(t)
  \/ reallocNull(t) \/ realloc(t) \/ rmemRealloc(t)

\* The program makes no more calls.
Ended ==
  /\ \A t \in Threads : pc[t] = "idle"
  /\ UNCHANGED vars

Next == Start \/ Ended \/ \E t \in Threads : HookStep(t)

Spec == Init /\ [][Next]_vars

-----------------------------------------------------------------------------
(* Properties. *)

TypeOK ==
  /\ inPlace \in BOOLEAN /\ capture \in BOOLEAN
  /\ heap \subseteq Blocks /\ held \subseteq Blocks
  /\ known \subseteq Blocks \cup {NULL}
  /\ hidden \subseteq Blocks \cup {NULL}
  /\ pc \in [Threads -> {"idle", "recAlloc", "recFree", "realFree", "recRealloc"}]
  /\ arg \in [Threads -> Blocks \cup {NULL}] /\ res \in [Threads -> Blocks \cup {NULL}]
  /\ flags \in [Threads -> Flags]
  /\ ops \in Nat

\* A block that the capture takes for live is live, or the reallocation that
\* released it is about to be recorded, or the call that released it last has
\* flags that keep it from the capture.  So a leak is reported of a block that
\* was freed only on account of the flags of that very call, and no race, move,
\* failure, reuse of the address, late start or flag of an earlier call adds
\* another: a free is recorded before the address can be given away again and an
\* allocation after it has been obtained.  (The masks test each call by itself,
\* so a block allocated with plain flags may be freed with others: that leak
\* is false and the detours report it.  A failed allocation is recorded with
\* the null pointer.)
NoFalseLeak ==
  \A p \in known \ {NULL} :
    \/ p \in heap
    \/ p \in hidden
    \/ \E t \in Threads : pc[t] = "recRealloc" /\ arg[t] = p /\ RecordsAlloc(flags[t])

\* With nothing in flight, the capture knows every live block.  This holds in
\* the programs that are inPlace; see README.md for the others.
LiveKnown == inPlace /\ (\A t \in Threads : pc[t] = "idle") => heap \subseteq known

\* In such a program nobody records an allocation at an address that the
\* capture has in use.
NoDoubleAlloc ==
  [][inPlace =>
       \A t \in Threads : (pc[t] = "recAlloc" /\ pc'[t] = "idle") => res[t] \notin known]_vars

-----------------------------------------------------------------------------
(***************************************************************************)
(* The inductive invariants: HeapInv behind NoFalseLeak, InPlaceInv behind *)
(* LiveKnown and NoDoubleAlloc.                                            *)
(***************************************************************************)

\* The block that a call in flight has for itself.
Own(t) ==
  CASE pc[t] = "recAlloc"   -> {res[t]} \ {NULL}
    [] pc[t] = "recRealloc" -> (IF res[t] = NULL THEN {arg[t]} ELSE {res[t]}) \ {NULL}
    [] pc[t] \in {"recFree", "realFree"} -> {arg[t]}
    [] OTHER -> {}

Reallocating(t, p) == pc[t] = "recRealloc" /\ arg[t] = p
Releasing(t, p) == pc[t] = "realFree" /\ arg[t] = p

\* Everybody uses blocks that are allocated, and nobody else's.
OwnedApart ==
  /\ held \subseteq heap
  /\ \A t \in Threads : Own(t) \subseteq heap \ held
  /\ \A t, u \in Threads : t # u => Own(t) \cap Own(u) = {}

\* Of a free that is not hidden, the record has been made.
FreeRecorded(t, p) == Releasing(t, p) /\ RecordsFree(flags[t])

\* What is known is live and the record of its end, if that is near, is still to
\* come; or it was released by a call whose record is due, or never comes.
KnownKept ==
  \A p \in known \ {NULL} :
    \/ \E t \in Threads : Reallocating(t, p) /\ RecordsAlloc(flags[t])
    \/ p \in hidden \ heap
    \/ p \in heap /\ \A t \in Threads : ~FreeRecorded(t, p)

HeapInv == OwnedApart /\ KnownKept /\ (~capture => known = {})

\* In a program that is inPlace what is live is known or in somebody's hands,
\* and a new block is not known yet.
InPlaceInv ==
  inPlace =>
  /\ capture
  /\ \A t \in Threads : flags[t] = "plain"
  /\ \A t \in Threads : pc[t] = "recRealloc" => arg[t] \in {NULL, res[t]} /\ res[t] # NULL
  /\ \A t \in Threads : pc[t] = "recAlloc" => res[t] # NULL /\ res[t] \notin known
  /\ known \subseteq heap
  /\ \A p \in heap :
       \/ p \in known
       \/ \E t \in Threads : pc[t] \in {"recAlloc", "recRealloc"} /\ res[t] = p
       \/ \E t \in Threads : Releasing(t, p)
=============================================================================
