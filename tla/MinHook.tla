-------------------------------- MODULE MinHook --------------------------------
(***************************************************************************)
(* The hooking library of 3rd/minhook/src/hook.c, which rmem_wrap_win.cpp  *)
(* compiles in.  A call of its interface runs under one spin lock; while   *)
(* it rewrites code it has suspended the other threads one by one and has  *)
(* moved each that stood in bytes about to change.                         *)
(*                                                                         *)
(* The threads are in the model to the instruction: a thread is in a       *)
(* function, in the jump above it, in a relay, a detour or a trampoline.   *)
(* Where the machine code no longer makes sense under it, it is "lost".    *)
(***************************************************************************)
EXTENDS HookBuffer, Trampoline, FiniteSets

CONSTANTS
  Threads, NoThread,
  Fns, NoFn,       \* the functions that may be hooked; NoFn is also MH_ALL_HOOKS
  FnCode,          \* their code, in the form of module Trampoline
  Address,         \* and their addresses, in the unit of module HookBuffer
  Executable,      \* the functions IsExecutableAddress accepts: the others are
                   \* those GetProcAddress does not find
  InitialCapacity, \* INITIAL_HOOK_CAPACITY
  MaxFails         \* bound on the failures of system calls and of the heap

ASSUME ThreadsAssumption == NoThread \notin Threads
ASSUME FnsAssumption == NoFn \notin Fns /\ Executable \subseteq Fns
ASSUME AddressAssumption == Address \in [Fns -> Nat]
\* The threads run straight through a function, to the ret at its end.
ASSUME CodeAssumption ==
  /\ FnCode \in [Fns -> Code]
  /\ \A f \in Fns :
       LET insts == FnCode[f].insts IN
         /\ insts # << >> /\ insts[Len(insts)].kind = "ret"
         /\ \A i \in DOMAIN insts : insts[i].kind \in {"plain", "rip", "ret"}
ASSUME CapacityAssumption == InitialCapacity \in Nat \ {0} /\ MaxFails \in Nat

VARIABLES
  owner,     \* g_isLocked, and who holds it
  job,       \* the call the owner is in
  inited,    \* g_hHeap # NULL
  hooks,     \* g_hooks.pItems[0 .. size - 1]
  capacity,  \* g_hooks.capacity
  blocks,    \* g_pMemoryBlocks
  code,      \* the bytes at each function: its own, or the jump
  original,  \* where MH_CreateHook stored the trampoline (fn_..._t)
  listed,    \* FROZEN_THREADS: what EnumerateThreads found
  frozen,    \* the threads that this call has suspended
  skipped,   \* the threads that Freeze could not open, or could not examine and move
  surplus,   \* how often each thread was suspended and Unfreeze could not open it
  at,        \* where each thread is
  fails      \* failures so far

hookVars == <<inited, hooks, capacity, blocks, original>>
minVars == <<owner, job, hookVars, code, listed, frozen, skipped, surplus, at, fails>>

Idle == [op |-> "none", fn |-> NoFn, phase |-> "none", ok |-> TRUE]

\* A place: off counts bytes, in the function or in the trampoline; slot is the
\* trampoline's; via says that a detour made the call of the original, late that
\* it did so when the function was already restored.
Place(in, fn, off, slot, via, late) ==
  [in |-> in, fn |-> fn, off |-> off, slot |-> slot, via |-> via, late |-> late]
Outside == Place("app", NoFn, 0, NoAddress, FALSE, FALSE)
Unborn == [Outside EXCEPT !.in = "unborn"]
Lost == [Outside EXCEPT !.in = "lost"]

\* The trampoline each function gets, and the offset of its i-th instruction.
TrampolineOf == [f \in Fns |-> CreateTrampolineFunction(FnCode[f])]
StartOf ==
  [f \in Fns |-> [i \in DOMAIN FnCode[f].insts |->
     Offsets(FnCode[f].insts)[i - 1]]]

Alive == {t \in Threads : at[t].in # "unborn"}

MinInit ==
  /\ owner = NoThread /\ job = Idle
  /\ inited = FALSE /\ hooks = << >> /\ capacity = 0 /\ blocks = << >>
  /\ code = [f \in Fns |-> "original"]
  /\ original = [f \in Fns |-> NoAddress]
  /\ listed = {} /\ frozen = {} /\ skipped = {}
  /\ surplus = [t \in Threads |-> 0]
  /\ fails = 0
-------------------------------------------------------------------------------
\* The table of hooks.

FindHookEntry(f) == {i \in DOMAIN hooks : hooks[i].target = f}
Hook(f) == hooks[CHOOSE i \in FindHookEntry(f) : TRUE]
Hooked(f) == FindHookEntry(f) # {}

BugNeverGrows(hook) ==
  hooks' = Append(hooks, hook) /\ capacity' = IF capacity = 0 THEN InitialCapacity ELSE capacity
AddHookEntry(hook) ==
  /\ hooks' = Append(hooks, hook)
  /\ capacity' = IF hooks = << >> /\ capacity = 0 THEN InitialCapacity
                 ELSE IF Len(hooks) >= capacity THEN capacity * 2
                 ELSE capacity

\* The last entry takes the place of the one that goes; the array shrinks when
\* half of it is enough and the heap grants it.
BugLastDropped(pos) ==
  pos \in DOMAIN hooks /\ hooks' = Front(hooks) /\ UNCHANGED <<capacity, fails>>
DeleteHookEntry(pos) ==
  LET half == capacity \div 2
      enough == half >= InitialCapacity /\ half >= Len(hooks) - 1
  IN  /\ hooks' = Front([hooks EXCEPT ![pos] = Last(hooks)])
      /\ \/ capacity' = (IF enough THEN half ELSE capacity) /\ fails' = fails
         \/ enough /\ fails < MaxFails /\ capacity' = capacity /\ fails' = fails + 1

SetQueue(f, enable) ==
  hooks' = [i \in DOMAIN hooks |->
              IF f \in {NoFn, hooks[i].target} THEN [hooks[i] EXCEPT !.queueEnable = enable]
              ELSE hooks[i]]
-------------------------------------------------------------------------------
\* A thread that is suspended in bytes that will change.

InTrampoline(hook, place) ==
  place.in = "tramp" /\ place.slot = hook.slot /\ place.off \in ToSet(hook.ct.newIPs)

\* Is there an answer other than 0?
BugRelayForgotten(hook, place) == InTrampoline(hook, place)
HasOldIP(hook, place) ==
  \/ place.in = "above" /\ hook.ct.patchAbove /\ place.fn = hook.target
  \/ InTrampoline(hook, place)
  \/ place.in = "relay" /\ place.slot = hook.slot
BugStartOnly(hook, place) ==
  place.in = "target" /\ place.fn = hook.target /\ place.off = 0
HasNewIP(hook, place) ==
  place.in = "target" /\ place.fn = hook.target /\ place.off \in ToSet(hook.ct.oldIPs)

FindOldIP(hook, place) ==
  LET off == IF InTrampoline(hook, place)
             THEN hook.ct.oldIPs[CHOOSE i \in DOMAIN hook.ct.newIPs :
                                   hook.ct.newIPs[i] = place.off]
             ELSE 0
  IN  Place("target", hook.target, off, NoAddress, place.via, FALSE)

FindNewIP(hook, place) ==
  LET off == hook.ct.newIPs[CHOOSE i \in DOMAIN hook.ct.oldIPs :
                              hook.ct.oldIPs[i] = place.off]
  IN  Place("tramp", hook.target, off, hook.slot, place.via, FALSE)

\* What the call will make of a hook.
Wanted(op, hook) ==
  \/ op = "enable"
  \/ op = "apply" /\ hook.queueEnable

\* The direction in which Freeze moves the threads: MH_DisableHook of one
\* function passes ACTION_ENABLE, so that hook counts as done.
Direction(op, f, hook) == Wanted(op, hook) \/ (op = "disable" /\ f # NoFn)

\* The hooks Freeze was called for, one or all, that are not yet as wanted and
\* know the place.  A place belongs to one hook, and so does where it leads.
Movers(place) ==
  {i \in DOMAIN hooks :
     LET enable == Direction(job.op, job.fn, hooks[i]) IN
       /\ job.fn \in {NoFn, hooks[i].target}
       /\ hooks[i].isEnabled # enable
       /\ IF enable THEN HasNewIP(hooks[i], place) ELSE HasOldIP(hooks[i], place)}

ProcessThreadIPs(place) ==
  IF Movers(place) = {} THEN place
  ELSE LET hook == hooks[CHOOSE i \in Movers(place) : TRUE]
       IN  IF Direction(job.op, job.fn, hook) THEN FindNewIP(hook, place)
           ELSE FindOldIP(hook, place)
-------------------------------------------------------------------------------
\* A call of the interface: [op, fn].

\* The hooks the call in progress has yet to change, by their positions; a failure
\* ends the changing.
Pending ==
  {i \in DOMAIN hooks :
     /\ job.op \in {"remove", "enable", "disable", "uninit", "apply"} /\ job.ok
     /\ job.fn \in {NoFn, hooks[i].target}
     /\ hooks[i].isEnabled # Wanted(job.op, hooks[i])}

EnterSpinLock(t, c) ==
  /\ owner = NoThread
  /\ owner' = t
  /\ job' = [op |-> c.op, fn |-> c.fn, phase |-> "list", ok |-> TRUE]
  /\ UNCHANGED <<hookVars, code, listed, frozen, skipped, surplus, at, fails>>

\* A snapshot that fails or ends early and a heap that is exhausted leave a
\* shorter list, or none, and the call goes on with it.
EnumerateThreads(t) ==
  /\ owner = t /\ job.phase = "list" /\ Pending # {}
  /\ \/ listed' = Alive \ {t} /\ fails' = fails
     \/ listed' \in SUBSET (Alive \ {t}) /\ fails < MaxFails /\ fails' = fails + 1
  /\ job' = [job EXCEPT !.phase = "freeze"]
  /\ UNCHANGED <<owner, hookVars, code, frozen, skipped, surplus, at>>

\* A thread that OpenThread or SuspendThread fails for goes on running; one that
\* GetThreadContext or SetThreadContext fails for is suspended where it stands.
Freeze(t, u) ==
  /\ owner = t /\ job.phase = "freeze" /\ Pending # {}
  /\ u \in listed \ (frozen \cup skipped)
  /\ \/ /\ frozen' = frozen \cup {u}
        /\ at' = [at EXCEPT ![u] = ProcessThreadIPs(@)]
        /\ UNCHANGED <<skipped, fails>>
     \/ /\ fails < MaxFails /\ fails' = fails + 1
        /\ skipped' = skipped \cup {u}
        /\ frozen' \in {frozen, frozen \cup {u}}
        /\ UNCHANGED at
  /\ UNCHANGED <<owner, job, hookVars, code, listed, surplus>>

\* The next function in the table is rewritten.
EnableHookLL(t, works) ==
  /\ owner = t /\ job.phase = "freeze" /\ Pending # {} /\ listed \subseteq frozen \cup skipped
  /\ LET i == CHOOSE i \in Pending : \A j \in Pending : i <= j
         enable == Wanted(job.op, hooks[i])
     IN  \/ /\ works
            /\ code' = [code EXCEPT ![hooks[i].target] =
                          IF enable THEN "patched" ELSE "original"]
            /\ hooks' = [hooks EXCEPT ![i] =
                           [target |-> hooks[i].target, slot |-> hooks[i].slot,
                            ct |-> hooks[i].ct, isEnabled |-> enable, queueEnable |-> enable]]
            /\ UNCHANGED <<job, fails>>
         \/ /\ ~works /\ fails < MaxFails
            /\ job' = [job EXCEPT !.ok = FALSE]
            /\ fails' = fails + 1
            /\ UNCHANGED <<code, hooks>>
  /\ UNCHANGED <<owner, inited, capacity, blocks, original, listed, frozen, skipped, surplus, at>>

BugUnfreezeOnSuccess(t, u) ==
  /\ owner = t /\ Pending = {} /\ job.ok /\ u \in frozen \cup skipped
  /\ frozen' = frozen \ {u} /\ skipped' = skipped \ {u}
  /\ UNCHANGED <<owner, job, hookVars, code, listed, surplus, at, fails>>

\* Whom Freeze suspended and this loop cannot open stays suspended.  ResumeThread
\* of a thread that Freeze did not suspend takes one such surplus back.
Unfreeze(t, u) ==
  /\ owner = t /\ Pending = {}
  /\ u \in frozen \cup skipped
  /\ frozen' = frozen \ {u} /\ skipped' = skipped \ {u}
  /\ \/ /\ surplus' = [surplus EXCEPT ![u] = IF u \in frozen \/ @ = 0 THEN @ ELSE @ - 1]
        /\ fails' = fails
     \/ /\ fails < MaxFails /\ fails' = fails + 1
        /\ surplus' = [surplus EXCEPT ![u] = IF u \in frozen THEN @ + 1 ELSE @]
  /\ UNCHANGED <<owner, job, hookVars, code, listed, at>>

\* What is left of the call when no code is left to rewrite, and its end.
Ready(t, ops) == owner = t /\ job.op \in ops /\ frozen \cup skipped = {} /\ Pending = {}

LeaveSpinLock ==
  /\ owner' = NoThread /\ job' = Idle
  /\ UNCHANGED <<code, listed, frozen, skipped, surplus, at>>

\* HeapCreate may fail.
MH_Initialize(t) ==
  /\ Ready(t, {"init"})
  /\ \/ inited' = TRUE /\ fails' = fails
     \/ ~inited /\ inited' = FALSE /\ fails < MaxFails /\ fails' = fails + 1
  /\ LeaveSpinLock
  /\ UNCHANGED <<hooks, capacity, blocks, original>>

MH_Uninitialize(t) ==
  /\ Ready(t, {"uninit"})
  /\ IF inited /\ job.ok
     THEN inited' = FALSE /\ hooks' = << >> /\ capacity' = 0 /\ blocks' = UninitializeBuffer
     ELSE UNCHANGED <<inited, hooks, capacity, blocks>>
  /\ LeaveSpinLock
  /\ UNCHANGED <<original, fails>>

MH_CreateHook(t, enoughMemory) ==
  LET f == job.fn
      buffer == AllocateBuffer(blocks, Address[f])
      ct == TrampolineOf[f]
  IN  /\ Ready(t, {"create"})
      /\ enoughMemory \/ fails < MaxFails
      /\ fails' = IF enoughMemory THEN fails ELSE fails + 1
      /\ IF ~inited \/ f \notin Executable \/ Hooked(f) \/ buffer.slot = NoAddress
         THEN UNCHANGED <<hooks, capacity, blocks, original>>
         ELSE IF ct.ok /\ enoughMemory
         THEN /\ AddHookEntry([target |-> f, slot |-> buffer.slot, ct |-> ct,
                               isEnabled |-> FALSE, queueEnable |-> FALSE])
              /\ blocks' = buffer.blocks
              /\ original' = [original EXCEPT ![f] = buffer.slot]
         ELSE /\ blocks' = FreeBuffer(buffer.blocks, buffer.slot)
              /\ UNCHANGED <<hooks, capacity, original>>
      /\ LeaveSpinLock
      /\ UNCHANGED inited

MH_RemoveHook(t) ==
  /\ Ready(t, {"remove"})
  /\ IF inited /\ Hooked(job.fn) /\ job.ok
     THEN /\ blocks' = FreeBuffer(blocks, Hook(job.fn).slot)
          /\ DeleteHookEntry(CHOOSE i \in FindHookEntry(job.fn) : TRUE)
     ELSE UNCHANGED <<hooks, capacity, blocks, fails>>
  /\ LeaveSpinLock
  /\ UNCHANGED <<inited, original>>

\* MH_EnableHook, MH_DisableHook and MH_ApplyQueued have done all they do.
EnableHook(t) ==
  /\ Ready(t, {"enable", "disable", "apply"})
  /\ LeaveSpinLock
  /\ UNCHANGED <<hookVars, fails>>

QueueHook(t) ==
  /\ Ready(t, {"queueEnable", "queueDisable"})
  /\ IF inited THEN SetQueue(job.fn, job.op = "queueEnable") ELSE UNCHANGED hooks
  /\ LeaveSpinLock
  /\ UNCHANGED <<inited, capacity, blocks, original, fails>>

\* The steps of the thread that is in the library: to rewrite code, and the rest.
Rewriting(t) ==
  \/ EnumerateThreads(t)
  \/ \E u \in Threads : Freeze(t, u) \/ Unfreeze(t, u)
  \/ \E works \in BOOLEAN : EnableHookLL(t, works)

Library(t) ==
  \/ Rewriting(t)
  \/ MH_Initialize(t) \/ MH_Uninitialize(t) \/ MH_RemoveHook(t)
  \/ \E enough \in BOOLEAN : MH_CreateHook(t, enough)
  \/ EnableHook(t) \/ QueueHook(t)
-------------------------------------------------------------------------------
\* The code of the functions and of what MinHook writes, as a thread runs it.

Runs(t) == t \notin frozen /\ surplus[t] = 0 /\ owner # t

SlotLive(f, slot) == Hooked(f) /\ Hook(f).slot = slot

Go(t, place) == at' = [at EXCEPT ![t] = place]

Returned(place) ==
  IF place.via THEN Place("detour", place.fn, 1, NoAddress, FALSE, FALSE) ELSE Outside

\* One instruction of a function, or of the jump written over it.
StepTarget(t) ==
  LET p == at[t]
      fn == FnCode[p.fn]
      i == CHOOSE i \in DOMAIN fn.insts : StartOf[p.fn][i] = p.off
      ct == TrampolineOf[p.fn]
  IN  /\ Runs(t) /\ p.in = "target"
      /\ Go(t, IF code[p.fn] = "patched" /\ p.off = 0
               THEN IF ct.patchAbove THEN [p EXCEPT !.in = "above"]
                    ELSE [p EXCEPT !.in = "relay", !.slot = Hook(p.fn).slot]
               ELSE IF code[p.fn] = "patched" /\ p.off < PatchedBytes(ct) THEN Lost
               ELSE IF fn.insts[i].kind = "ret" THEN Returned(p)
               ELSE [p EXCEPT !.off = StartOf[p.fn][i + 1]])

StepAbove(t) ==
  /\ Runs(t) /\ at[t].in = "above"
  /\ Go(t, IF code[at[t].fn] = "patched"
           THEN [at[t] EXCEPT !.in = "relay", !.slot = Hook(at[t].fn).slot]
           ELSE Lost)

StepRelay(t) ==
  /\ Runs(t) /\ at[t].in = "relay"
  /\ Go(t, IF SlotLive(at[t].fn, at[t].slot)
           THEN Place("detour", at[t].fn, 0, NoAddress, FALSE, FALSE)
           ELSE Lost)

StepTrampoline(t) ==
  LET p == at[t]
      fn == FnCode[p.fn]
      ct == TrampolineOf[p.fn]
      i == CHOOSE i \in DOMAIN ct.newIPs : ct.newIPs[i] = p.off
  IN  /\ Runs(t) /\ p.in = "tramp"
      /\ Go(t, IF ~SlotLive(p.fn, p.slot) THEN Lost
               ELSE IF ct.oldIPs[i] >= JmpRel
               THEN [p EXCEPT !.in = "target", !.off = ct.oldIPs[i], !.slot = NoAddress,
                              !.late = FALSE]
               ELSE IF fn.insts[i].kind = "ret" THEN Returned(p)
               ELSE [p EXCEPT !.off = ct.newIPs[i + 1]])

\* CALL_ORIGINAL in a detour.
CallOriginal(t) ==
  LET f == at[t].fn IN
    Go(t, Place("tramp", f, 0, original[f], TRUE, code[f] = "original"))
===============================================================================
