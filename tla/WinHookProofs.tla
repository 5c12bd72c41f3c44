----------------------------- MODULE WinHookProofs -----------------------------
(***************************************************************************)
(* Theorems about MinHook under rmem (rmem_wrap_win.cpp, hook.c, buffer.c):*)
(* the table of hooks, the bytes in the code and the slots in memory agree *)
(* after any calls, failures and interleavings, for any functions, threads *)
(* and map of the address space; and the scripts of rmem leave the program *)
(* as they promise: intercepted while a recorder is there, restored after  *)
(* it, and with exit callable throughout.                                  *)
(***************************************************************************)
EXTENDS WinHookProperties, MinHookLemmas

\* The calls a script is made of; MH_Uninitialize is about all hooks.
Ops == {"init", "create", "enable", "disable", "queueEnable", "queueDisable", "apply",
        "remove", "uninit", "rmemInit", "rmemShutDown"}
ScriptCalls ==
  {c \in [op : Ops, fn : Fns \cup {NoFn}] : c.op = "uninit" => c.fn = NoFn}
Entries ==
  [target : Fns, slot : Nat, ct : {TrampolineOf[f] : f \in Fns},
   isEnabled : BOOLEAN, queueEnable : BOOLEAN]

JobTypes ==
  /\ job \in [op : Ops \cup {"none"}, fn : Fns \cup {NoFn}, phase : {"none", "list", "freeze"}, ok : BOOLEAN]
  /\ job.op = "uninit" => job.fn = NoFn
TodoTypes == todo \in [Threads -> Seq(ScriptCalls)]

TableTypes ==
  /\ inited \in BOOLEAN /\ hooks \in Seq(Entries) /\ capacity \in Nat
  /\ Len(hooks) <= capacity
  /\ hooks # << >> => inited
  /\ code \in [Fns -> {"original", "patched"}]

\* Threads are suspended, or skipped, only by the owner of the lock, in the phase in
\* which it rewrites code, and it is not one of them; none is skipped if nothing fails.
FreezeInv ==
  /\ owner \in Threads \cup {NoThread} /\ listed \subseteq Threads
  /\ frozen \subseteq listed /\ skipped \subseteq listed
  /\ surplus \in [Threads -> Nat] /\ fails \in Nat
  /\ fails = 0 => skipped = {}
  /\ frozen \cup skipped # {} => job.phase = "freeze"
  /\ job.phase = "freeze" => owner \in Threads /\ owner \notin listed

\* The table has a function once, and enabled exactly when its code has the jump.
TableInv ==
  /\ \A i, j \in DOMAIN hooks : hooks[i].target = hooks[j].target => i = j
  /\ \A f \in Fns : code[f] = "patched" <=>
       \E i \in DOMAIN hooks : hooks[i].target = f /\ hooks[i].isEnabled

\* The slots given out are those of the table, each once and near its function.
SlotInv ==
  /\ Sound(blocks)
  /\ SlotsInUse(blocks) = {hooks[i].slot : i \in DOMAIN hooks}
  /\ \A i, j \in DOMAIN hooks : hooks[i].slot = hooks[j].slot => i = j
  /\ \A i \in DOMAIN hooks :
       hooks[i].slot - Address[hooks[i].target] \in -MaxRange .. MaxRange

HookInv == JobTypes /\ TodoTypes /\ TableTypes /\ FreezeInv /\ TableInv /\ SlotInv
-------------------------------------------------------------------------------
\* What an action can be, for the library and its table.

tableVars == <<inited, hooks, capacity, blocks, code>>
lockVars == <<owner, job, listed, frozen, skipped, surplus, fails>>

\* The actions outside the library touch neither the table nor the lock, but for
\* the entry into it.
LEMMA StepKinds ==
  ASSUME [Next]_vars
  PROVE  \/ UNCHANGED <<tableVars, lockVars>>
         \/ UNCHANGED tableVars /\ \E t \in Threads : MinHookCall(t)
         \/ \E t \in Threads : LibraryStep(t)
<1>1. CASE UNCHANGED vars
  BY <1>1 DEF vars, minVars, hookVars, tableVars, lockVars
<1>2. CASE rmemHookAllocs \/ rmemUnhookAllocs
  BY <1>2 DEF rmemHookAllocs, rmemUnhookAllocs, minVars, hookVars, tableVars, lockVars
<1>3. ASSUME NEW t \in Threads,
             \/ Anything(t) \/ RecorderCall(t) \/ Spawn(t) \/ Detour(t) \/ detour_exit(t)
             \/ ProcessEnds(t) \/ Step(t) \/ \E f \in Fns : CallFunction(t, f)
      PROVE  UNCHANGED <<tableVars, lockVars>>
  BY <1>3 DEF Anything, RecorderCall, Spawn, Detour, detour_exit, ProcessEnds, Step, CallFunction,
              minVars, hookVars, tableVars, lockVars
<1>4. ASSUME NEW t \in Threads, MinHookCall(t) PROVE UNCHANGED tableVars
  BY <1>4 DEF MinHookCall, EnterSpinLock, hookVars, tableVars
<1> QED
  BY <1>1, <1>2, <1>3, <1>4 DEF Next

\* The scripts consist of calls of the right shape.
LEMMA ScriptsTyped ==
  ASSUME NEW linker
  PROVE  HookAllocs(linker) \in Seq(ScriptCalls) /\ UnhookAllocs(linker) \in Seq(ScriptCalls)
<1>1. ASSUME NEW op \in Ops, NEW f \in Fns \cup {NoFn}, op = "uninit" => f = NoFn
      PROVE  Call(op, f) \in ScriptCalls
  BY <1>1 DEF Call, ScriptCalls
<1>2. ASSUME NEW op \in Ops, op # "uninit", NEW fs \in Seq(Fns)
      PROVE  Calls(op, fs) \in Seq(ScriptCalls)
  <2> DEFINE n == Len(fs)
             script == [i \in 1 .. n |-> Call(op, fs[i])]
  <2>1. n \in Nat /\ DOMAIN fs = 1 .. n /\ \A i \in 1 .. n : fs[i] \in Fns
    OBVIOUS
  <2>2. \A i \in 1 .. n : Call(op, fs[i]) \in ScriptCalls
    BY <1>1, <1>2, <2>1
  <2>3. script \in Seq(ScriptCalls)
    <3> HIDE DEF n
    <3> QED
      BY <2>1, <2>2, IsASeq
  <2> QED
    BY <2>1, <2>3 DEF Calls
<1>3. ASSUME NEW c \in ScriptCalls PROVE <<c>> \in Seq(ScriptCalls)
  OBVIOUS
<1>4. /\ Calls("create", Heap) \in Seq(ScriptCalls) /\ Calls("create", Modules) \in Seq(ScriptCalls)
      /\ Calls("remove", Heap) \in Seq(ScriptCalls) /\ Calls("remove", Modules) \in Seq(ScriptCalls)
  BY <1>2, HooksAssumption DEF Ops
<1>5. /\ <<Call("init", NoFn)>> \in Seq(ScriptCalls)
      /\ <<Call("enable", NoFn), Call("rmemInit", NoFn)>> \in Seq(ScriptCalls)
      /\ <<Call("rmemShutDown", NoFn)>> \in Seq(ScriptCalls)
      /\ <<Call("uninit", NoFn)>> \in Seq(ScriptCalls)
      /\ <<Call("create", Exit)>> \in Seq(ScriptCalls)
      /\ << >> \in Seq(ScriptCalls)
  <2>1. /\ Call("init", NoFn) \in ScriptCalls /\ Call("enable", NoFn) \in ScriptCalls
        /\ Call("rmemInit", NoFn) \in ScriptCalls /\ Call("rmemShutDown", NoFn) \in ScriptCalls
        /\ Call("uninit", NoFn) \in ScriptCalls
    BY <1>1 DEF Ops
  <2>2. Exit \in Fns
    BY HooksAssumption
  <2>3. Call("create", Exit) \in ScriptCalls
    BY <1>1, <2>2 DEF Ops
  <2> QED
    BY <2>1, <2>3
<1>6. \A s, u \in Seq(ScriptCalls) : s \o u \in Seq(ScriptCalls)
  BY ConcatProperties
<1>7. HookAllocs(linker) \in Seq(ScriptCalls)
  BY <1>4, <1>5, <1>6 DEF HookAllocs
<1>8. UnhookAllocs(linker) \in Seq(ScriptCalls)
  BY <1>4, <1>5, <1>6 DEF UnhookAllocs
<1> QED
  BY <1>7, <1>8

\* Scripts stay scripts.
LEMMA TodoTypesKept == TodoTypes /\ [Next]_vars => TodoTypes'
<1> SUFFICES ASSUME TodoTypes, [Next]_vars PROVE TodoTypes'
  OBVIOUS
<1>1. CASE UNCHANGED todo
  BY <1>1 DEF TodoTypes
<1>2. CASE rmemHookAllocs \/ rmemUnhookAllocs
  BY <1>2, ScriptsTyped DEF rmemHookAllocs, rmemUnhookAllocs, TodoTypes
<1>3. ASSUME NEW t \in Threads, Anything(t) PROVE TodoTypes'
  <2>1. Interface \subseteq ScriptCalls
    BY DEF Interface, ScriptCalls, Call, Ops
  <2>2. PICK c \in Interface : todo' = [todo EXCEPT ![t] = <<c>>]
    BY <1>3 DEF Anything
  <2> QED
    BY <2>1, <2>2 DEF TodoTypes
<1>4. ASSUME NEW t \in Threads, MinHookCall(t) \/ RecorderCall(t) PROVE TodoTypes'
  <2>1. todo[t] \in Seq(ScriptCalls) /\ todo[t] # << >> /\ todo' = [todo EXCEPT ![t] = Tail(@)]
    BY <1>4 DEF TodoTypes, MinHookCall, RecorderCall
  <2>2. Tail(todo[t]) \in Seq(ScriptCalls)
    BY <2>1
  <2> QED
    BY <2>1, <2>2 DEF TodoTypes
<1>5. ASSUME NEW t \in Threads, detour_exit(t) PROVE TodoTypes'
  BY <1>5, ScriptsTyped DEF detour_exit, TodoTypes
<1>6. ASSUME NEW t \in Threads,
             \/ Spawn(t) \/ Detour(t) \/ ProcessEnds(t) \/ Step(t) \/ LibraryStep(t)
             \/ \E f \in Fns : CallFunction(t, f)
      PROVE  UNCHANGED todo
  BY <1>6 DEF Spawn, Detour, ProcessEnds, Step, LibraryStep, CallFunction, winVars
<1> QED
  BY <1>1, <1>2, <1>3, <1>4, <1>5, <1>6 DEF Next, vars, winVars
-------------------------------------------------------------------------------
\* The lock and the suspended threads.

\* The call the owner is in keeps its shape.
LEMMA JobTypesKept == JobTypes /\ TodoTypes /\ [Next]_vars => JobTypes'
<1> SUFFICES ASSUME JobTypes, TodoTypes, [Next]_vars PROVE JobTypes'
  OBVIOUS
<1>1. CASE UNCHANGED lockVars
  BY <1>1 DEF lockVars, JobTypes
<1>2. ASSUME NEW t \in Threads, MinHookCall(t) PROVE JobTypes'
  <2>1. Head(todo[t]) \in ScriptCalls
    BY <1>2 DEF MinHookCall, TodoTypes
  <2> DEFINE c == Head(todo[t])
  <2>2. job' = [op |-> c.op, fn |-> c.fn, phase |-> "list", ok |-> TRUE]
    BY <1>2 DEF MinHookCall, EnterSpinLock
  <2> HIDE DEF c
  <2>3. c.op \in Ops /\ c.fn \in Fns \cup {NoFn} /\ (c.op = "uninit" => c.fn = NoFn)
    BY <2>1 DEF c, ScriptCalls
  <2> QED
    BY <2>2, <2>3 DEF JobTypes
<1>3. ASSUME NEW t \in Threads, LibraryStep(t) PROVE JobTypes'
  <2>1. CASE EnumerateThreads(t)
    BY <2>1 DEF EnumerateThreads, JobTypes
  <2>2. ASSUME NEW u \in Threads, Freeze(t, u) \/ Unfreeze(t, u) PROVE JobTypes'
    BY <2>2 DEF Freeze, Unfreeze, JobTypes
  <2>3. ASSUME NEW works \in BOOLEAN, EnableHookLL(t, works) PROVE JobTypes'
    <3>1. job' = job \/ job' = [job EXCEPT !.ok = FALSE]
      BY <2>3 DEF EnableHookLL
    <3> QED
      BY <3>1 DEF JobTypes
  <2>4. CASE LeaveSpinLock
    BY <2>4 DEF LeaveSpinLock, Idle, JobTypes
  <2>5. ASSUME \/ MH_Initialize(t) \/ MH_Uninitialize(t) \/ MH_RemoveHook(t)
               \/ EnableHook(t) \/ QueueHook(t) \/ \E enough \in BOOLEAN : MH_CreateHook(t, enough)
        PROVE  LeaveSpinLock
    BY <2>5 DEF MH_Initialize, MH_Uninitialize, MH_RemoveHook, EnableHook, QueueHook, MH_CreateHook
  <2> QED
    BY <1>3, <2>1, <2>2, <2>3, <2>4, <2>5 DEF LibraryStep, Library, Rewriting
<1> QED
  BY <1>1, <1>2, <1>3, StepKinds

\* Only the owner of the lock has threads suspended.
LEMMA FreezeInvKept == FreezeInv /\ JobTypes /\ [Next]_vars => FreezeInv'
<1> SUFFICES ASSUME FreezeInv, JobTypes, [Next]_vars PROVE FreezeInv'
  OBVIOUS
<1>1. CASE UNCHANGED lockVars
  BY <1>1 DEF lockVars, FreezeInv
<1>2. ASSUME NEW t \in Threads, MinHookCall(t) PROVE FreezeInv'
  <2>1. /\ owner = NoThread /\ owner' = t /\ job'.phase = "list"
        /\ UNCHANGED <<listed, frozen, skipped, surplus, fails>>
    BY <1>2 DEF MinHookCall, EnterSpinLock
  <2>2. frozen \cup skipped = {}
    BY <2>1, ThreadsAssumption DEF FreezeInv
  <2> QED
    BY <2>1, <2>2 DEF FreezeInv
<1>3. ASSUME NEW t \in Threads, LibraryStep(t) PROVE FreezeInv'
  <2>1. CASE EnumerateThreads(t)
    <3>1. /\ owner' = t /\ job'.phase = "freeze" /\ UNCHANGED <<frozen, skipped, surplus>>
          /\ frozen \cup skipped = {} /\ listed' \subseteq Alive \ {t}
          /\ fails' \in {fails, fails + 1}
      BY <2>1 DEF EnumerateThreads, FreezeInv, JobTypes
    <3> QED
      BY <3>1 DEF FreezeInv, Alive
  <2>2. ASSUME NEW u \in Threads, Freeze(t, u) PROVE FreezeInv'
    <3>1. /\ UNCHANGED <<owner, job, listed, surplus>> /\ job.phase = "freeze" /\ u \in listed
          /\ frozen' \in {frozen, frozen \cup {u}}
          /\ \/ skipped' = skipped /\ fails' = fails
             \/ skipped' = skipped \cup {u} /\ fails' = fails + 1
      BY <2>2 DEF Freeze
    <3> QED
      BY <3>1 DEF FreezeInv
  <2>3. ASSUME NEW u \in Threads, Unfreeze(t, u) PROVE FreezeInv'
    <3>1. /\ UNCHANGED <<owner, job, listed>> /\ frozen' = frozen \ {u} /\ skipped' = skipped \ {u}
          /\ fails' \in {fails, fails + 1}
      BY <2>3 DEF Unfreeze
    <3>2. \/ surplus' = [surplus EXCEPT ![u] = IF u \in frozen \/ @ = 0 THEN @ ELSE @ - 1]
          \/ surplus' = [surplus EXCEPT ![u] = IF u \in frozen THEN @ + 1 ELSE @]
      BY <2>3 DEF Unfreeze
    <3>3. surplus' \in [Threads -> Nat]
      BY <3>2 DEF FreezeInv
    <3> QED
      BY <3>1, <3>3 DEF FreezeInv
  <2>4. ASSUME NEW works \in BOOLEAN, EnableHookLL(t, works) PROVE FreezeInv'
    <3>1. /\ job'.phase = job.phase /\ UNCHANGED <<owner, listed, frozen, skipped, surplus>>
          /\ fails' \in {fails, fails + 1}
      BY <2>4 DEF EnableHookLL, JobTypes
    <3> QED
      BY <3>1 DEF FreezeInv
  <2>5. ASSUME \/ MH_Initialize(t) \/ MH_Uninitialize(t) \/ MH_RemoveHook(t)
               \/ EnableHook(t) \/ QueueHook(t) \/ \E enough \in BOOLEAN : MH_CreateHook(t, enough)
        PROVE  FreezeInv'
    <3>1. frozen \cup skipped = {} /\ LeaveSpinLock
      BY <2>5 DEF Ready, MH_Initialize, MH_Uninitialize, MH_RemoveHook, EnableHook, QueueHook,
                  MH_CreateHook
    <3>2. /\ owner' = NoThread /\ job'.phase = "none" /\ frozen' \cup skipped' = {}
          /\ UNCHANGED <<listed, surplus>>
      BY <3>1 DEF LeaveSpinLock, Idle
    <3>3. fails' \in {fails, fails + 1}
      BY <2>5 DEF MH_Initialize, MH_Uninitialize, MH_RemoveHook, DeleteHookEntry, EnableHook,
                  QueueHook, MH_CreateHook, hookVars
    <3> QED
      BY <3>2, <3>3 DEF FreezeInv
  <2> QED
    BY <1>3, <2>1, <2>2, <2>3, <2>4, <2>5 DEF LibraryStep, Library, Rewriting
<1> QED
  BY <1>1, <1>2, <1>3, StepKinds
-------------------------------------------------------------------------------
\* The table, the code and the slots, operation by operation.

Table == TableTypes /\ TableInv /\ SlotInv

\* A table with the same functions and slots keeps SlotInv.
LEMMA SlotsKept ==
  ASSUME SlotInv, UNCHANGED blocks, DOMAIN hooks' = DOMAIN hooks,
         \A i \in DOMAIN hooks : hooks'[i].target = hooks[i].target /\ hooks'[i].slot = hooks[i].slot
  PROVE  SlotInv'
BY DEF SlotInv

\* EnableHookLL changes the bytes and the entry of one hook together.
LEMMA EnableKept ==
  ASSUME Table, JobTypes, NEW t \in Threads, NEW works \in BOOLEAN, EnableHookLL(t, works)
  PROVE  Table'
<1> DEFINE i == CHOOSE i \in Pending : \A j \in Pending : i <= j
           enable == Wanted(job.op, hooks[i])
           entry == [target |-> hooks[i].target, slot |-> hooks[i].slot, ct |-> hooks[i].ct,
                     isEnabled |-> enable, queueEnable |-> enable]
<1>1. CASE UNCHANGED <<hooks, code>>
  <2>1. UNCHANGED <<inited, capacity, blocks>>
    BY DEF EnableHookLL
  <2> QED
    BY <1>1, <2>1 DEF Table, TableTypes, TableInv, SlotInv
<1>2. CASE /\ code' = [code EXCEPT ![hooks[i].target] = IF enable THEN "patched" ELSE "original"]
           /\ hooks' = [hooks EXCEPT ![i] = entry]
  <2>1. i \in DOMAIN hooks
    <3>1. Pending # {} /\ Pending \subseteq DOMAIN hooks
      BY Zenon DEF EnableHookLL, Pending
    <3>2. Pending \in SUBSET Nat
      <4>1. DOMAIN hooks \in SUBSET Nat
        BY DEF Table, TableTypes
      <4> QED
        BY <3>1, <4>1
    <3>3. i \in Pending
      BY <3>1, <3>2, LeastNatural
    <3> QED
      BY SMTT(30), <3>1, <3>3
  <2> HIDE DEF i
  <2>2. enable \in BOOLEAN
    BY DEF Wanted
  <2> HIDE DEF enable
  <2>3. hooks[i] \in Entries /\ hooks \in Seq(Entries)
    BY <2>1 DEF Table, TableTypes
  <2>4. entry \in Entries /\ entry.target = hooks[i].target /\ entry.slot = hooks[i].slot
        /\ entry.isEnabled = enable
    BY <2>2, <2>3 DEF Entries
  <2> HIDE DEF entry
  <2>5. /\ hooks' \in Seq(Entries) /\ Len(hooks') = Len(hooks) /\ DOMAIN hooks' = DOMAIN hooks
        /\ hooks'[i] = entry /\ \A j \in DOMAIN hooks : j # i => hooks'[j] = hooks[j]
    BY <1>2, <2>1, <2>3, <2>4, ExceptSeq
  <2>6. UNCHANGED <<inited, capacity, blocks>>
    BY DEF EnableHookLL
  <2>7. \A j \in DOMAIN hooks : hooks'[j].target = hooks[j].target /\ hooks'[j].slot = hooks[j].slot
    BY <2>4, <2>5
  <2>8. code' \in [Fns -> {"original", "patched"}] /\ hooks[i].target \in Fns
    BY <1>2, <2>3 DEF Table, TableTypes, Entries
  <2>9. TableTypes'
    <3>1. hooks # << >>
      BY <2>1
    <3> QED
      BY <3>1, <2>5, <2>6, <2>8 DEF Table, TableTypes
  <2>10. SlotInv'
    BY <2>5, <2>6, <2>7, SlotsKept DEF Table
  <2>11. ASSUME NEW f \in Fns
         PROVE  code'[f] = "patched" <=>
                  \E j \in DOMAIN hooks' : hooks'[j].target = f /\ hooks'[j].isEnabled
    <3>1. CASE f = hooks[i].target
      <4>1. code'[f] = IF enable THEN "patched" ELSE "original"
        BY <1>2, <2>8, <3>1 DEF Table, TableTypes
      <4>2. \A j \in DOMAIN hooks' : hooks'[j].target = f <=> j = i
        BY <2>1, <2>5, <2>7, <3>1 DEF Table, TableInv
      <4>3. hooks'[i].isEnabled = enable /\ i \in DOMAIN hooks'
        BY <2>1, <2>4, <2>5
      <4> QED
        BY <2>2, <4>1, <4>2, <4>3
    <3>2. CASE f # hooks[i].target
      <4>1. code'[f] = code[f]
        BY <1>2, <2>8, <3>2 DEF Table, TableTypes
      <4>2. \A j \in DOMAIN hooks : hooks'[j].target = f => hooks'[j] = hooks[j]
        BY <2>5, <2>7, <3>2
      <4> QED
        BY <2>5, <2>7, <4>1, <4>2, <3>2 DEF Table, TableInv
    <3> QED
      BY <3>1, <3>2
  <2>12. TableInv'
    BY <2>5, <2>7, <2>11 DEF Table, TableInv
  <2> QED
    BY <2>9, <2>10, <2>12 DEF Table
<1> QED
  BY <1>1, <1>2 DEF EnableHookLL

\* QueueHook changes what is wanted, nothing that is.
LEMMA QueueKept ==
  ASSUME Table, NEW t \in Threads, QueueHook(t)
  PROVE  Table'
<1>1. UNCHANGED <<inited, capacity, blocks, code>>
  BY DEF QueueHook, LeaveSpinLock
<1>2. CASE UNCHANGED hooks
  BY <1>1, <1>2 DEF Table, TableTypes, TableInv, SlotInv
<1>3. CASE SetQueue(job.fn, job.op = "queueEnable")
  <2> DEFINE n == Len(hooks)
             Entry(i) == IF job.fn \in {NoFn, hooks[i].target}
                         THEN [hooks[i] EXCEPT !.queueEnable = (job.op = "queueEnable")]
                         ELSE hooks[i]
  <2>1. n \in Nat /\ DOMAIN hooks = 1 .. n /\ \A i \in 1 .. n : hooks[i] \in Entries
    BY DEF Table, TableTypes
  <2>2. hooks' = [i \in 1 .. n |-> Entry(i)]
    BY <1>3, <2>1 DEF SetQueue
  <2>3. ASSUME NEW i \in 1 .. n
        PROVE  /\ Entry(i) \in Entries /\ Entry(i).target = hooks[i].target
               /\ Entry(i).slot = hooks[i].slot /\ Entry(i).isEnabled = hooks[i].isEnabled
    BY <2>1 DEF Entries
  <2> HIDE DEF Entry
  <2>4. hooks' \in Seq(Entries) /\ Len(hooks') = n /\ DOMAIN hooks' = DOMAIN hooks
    <3> HIDE DEF n
    <3> QED
      BY <2>1, <2>2, <2>3, IsASeq
  <2>5. \A i \in DOMAIN hooks : /\ hooks'[i].target = hooks[i].target
                                /\ hooks'[i].slot = hooks[i].slot
                                /\ hooks'[i].isEnabled = hooks[i].isEnabled
    BY <2>1, <2>2, <2>3
  <2>6. SlotInv'
    BY <1>1, <2>4, <2>5, SlotsKept DEF Table
  <2>7. TableInv'
    BY <1>1, <2>4, <2>5 DEF Table, TableInv
  <2>8. hooks' # << >> => hooks # << >>
    BY <2>1, <2>2
  <2>9. TableTypes'
    BY <1>1, <2>4, <2>8 DEF Table, TableTypes
  <2> QED
    BY <2>6, <2>7, <2>9 DEF Table
<1> QED
  BY <1>2, <1>3 DEF QueueHook

\* MH_CreateHook adds a hook that is not enabled with a slot of its own, or gives
\* back the slot it took.
LEMMA CreateKept ==
  ASSUME Table, JobTypes, NEW t \in Threads, NEW enough \in BOOLEAN, MH_CreateHook(t, enough)
  PROVE  Table'
<1> DEFINE f == job.fn
           buffer == AllocateBuffer(blocks, Address[f])
           ct == TrampolineOf[f]
           entry == [target |-> f, slot |-> buffer.slot, ct |-> ct,
                     isEnabled |-> FALSE, queueEnable |-> FALSE]
<1>1. UNCHANGED <<inited, code>>
  BY DEF MH_CreateHook, LeaveSpinLock
<1>2. CASE UNCHANGED <<hooks, capacity, blocks>>
  BY <1>1, <1>2 DEF Table, TableTypes, TableInv, SlotInv
<1>3. ASSUME ~ (~inited \/ f \notin Executable \/ Hooked(f) \/ buffer.slot = NoAddress)
      PROVE  /\ inited /\ f \in Fns /\ ~Hooked(f)
             /\ Sound(buffer.blocks) /\ buffer.slot \in Nat
             /\ buffer.slot \notin SlotsInUse(blocks)
             /\ SlotsInUse(buffer.blocks) = SlotsInUse(blocks) \cup {buffer.slot}
             /\ buffer.slot - Address[f] \in -MaxRange .. MaxRange
  <2>1. f \in Fns /\ Address[f] \in Nat /\ Sound(blocks)
    BY <1>3, FnsAssumption, AddressAssumption DEF Table, SlotInv
  <2>2. Sound(buffer.blocks) /\ buffer.slot \in Nat /\
        (buffer.slot # NoAddress =>
           /\ buffer.slot \notin SlotsInUse(blocks)
           /\ SlotsInUse(buffer.blocks) = SlotsInUse(blocks) \cup {buffer.slot}
           /\ buffer.slot - Address[f] \in -MaxRange .. MaxRange)
    BY <2>1, AllocateBufferGives
  <2> QED
    BY <1>3, <2>1, <2>2
<1>4. CASE /\ ~ (~inited \/ f \notin Executable \/ Hooked(f) \/ buffer.slot = NoAddress)
           /\ AddHookEntry(entry) /\ blocks' = buffer.blocks
  <2>1. /\ inited /\ f \in Fns /\ ~Hooked(f)
        /\ Sound(buffer.blocks) /\ buffer.slot \in Nat
        /\ buffer.slot \notin SlotsInUse(blocks)
        /\ SlotsInUse(buffer.blocks) = SlotsInUse(blocks) \cup {buffer.slot}
        /\ buffer.slot - Address[f] \in -MaxRange .. MaxRange
    BY <1>3, <1>4
  <2> HIDE DEF f, buffer
  <2>2. /\ entry \in Entries /\ entry.target = f /\ entry.slot = buffer.slot
        /\ entry.isEnabled = FALSE
    BY <2>1 DEF Entries
  <2>3. hooks \in Seq(Entries) /\ capacity \in Nat /\ Len(hooks) <= capacity
    BY DEF Table, TableTypes
  <2>4. hooks' = Append(hooks, entry)
    BY <1>4 DEF AddHookEntry
  <2>5. capacity' \in Nat /\ Len(hooks) + 1 <= capacity'
    <3>1. CASE hooks = << >> /\ capacity = 0
      BY <3>1, <1>4, CapacityAssumption DEF AddHookEntry
    <3>2. CASE ~ (hooks = << >> /\ capacity = 0) /\ Len(hooks) >= capacity
      <4>1. capacity' = capacity * 2
        BY <3>2, <1>4 DEF AddHookEntry
      <4>2. capacity # 0
        BY <3>2, <2>3
      <4> QED
        BY <4>1, <4>2, <2>3
    <3>3. CASE ~ (hooks = << >> /\ capacity = 0) /\ ~ (Len(hooks) >= capacity)
      BY <3>3, <1>4, <2>3 DEF AddHookEntry
    <3> QED
      BY <3>1, <3>2, <3>3
  <2> HIDE DEF entry
  <2>6. /\ hooks' \in Seq(Entries) /\ Len(hooks') = Len(hooks) + 1
        /\ DOMAIN hooks' = DOMAIN hooks \cup {Len(hooks) + 1}
        /\ Len(hooks) + 1 \notin DOMAIN hooks
        /\ hooks'[Len(hooks) + 1] = entry
        /\ \A i \in DOMAIN hooks : hooks'[i] = hooks[i]
    <3>1. Len(hooks) \in Nat /\ DOMAIN hooks = 1 .. Len(hooks)
      BY <2>3
    <3> QED
      BY <2>2, <2>3, <2>4, <3>1, AppendProperties
  <2> DEFINE new == Len(hooks) + 1
  <2> HIDE DEF new
  <2>7. TableTypes'
    BY <1>1, <2>1, <2>5, <2>6 DEF Table, TableTypes
  <2>8. \A i \in DOMAIN hooks : hooks[i].target # f
    BY <2>1 DEF Hooked, FindHookEntry
  <2>9. TableInv'
    <3>1. \A i, j \in DOMAIN hooks' : hooks'[i].target = hooks'[j].target => i = j
      BY <2>2, <2>6, <2>8 DEF Table, TableInv
    <3>2. \A g \in Fns : (\E i \in DOMAIN hooks' : hooks'[i].target = g /\ hooks'[i].isEnabled)
                           <=> \E i \in DOMAIN hooks : hooks[i].target = g /\ hooks[i].isEnabled
      BY <2>2, <2>6
    <3> QED
      BY <1>1, <3>1, <3>2 DEF Table, TableInv
  <2>10. SlotInv'
    <3>1. \A i \in DOMAIN hooks : hooks[i].slot # buffer.slot
      BY <2>1 DEF Table, SlotInv
    <3>2. {hooks'[i].slot : i \in DOMAIN hooks'} = {hooks[i].slot : i \in DOMAIN hooks} \cup {buffer.slot}
      BY <2>2, <2>6
    <3>3. \A i, j \in DOMAIN hooks' : hooks'[i].slot = hooks'[j].slot => i = j
      BY <2>2, <2>6, <3>1 DEF Table, SlotInv
    <3>4. \A i \in DOMAIN hooks' :
            hooks'[i].slot - Address[hooks'[i].target] \in -MaxRange .. MaxRange
      BY <2>1, <2>2, <2>6 DEF Table, SlotInv
    <3> QED
      BY <1>4, <2>1, <3>2, <3>3, <3>4 DEF Table, SlotInv
  <2> QED
    BY <2>7, <2>9, <2>10 DEF Table
<1>5. CASE /\ ~ (~inited \/ f \notin Executable \/ Hooked(f) \/ buffer.slot = NoAddress)
           /\ blocks' = FreeBuffer(buffer.blocks, buffer.slot) /\ UNCHANGED <<hooks, capacity>>
  <2>1. /\ Sound(buffer.blocks) /\ buffer.slot \notin SlotsInUse(blocks)
        /\ SlotsInUse(buffer.blocks) = SlotsInUse(blocks) \cup {buffer.slot}
    BY <1>3, <1>5
  <2>2. Sound(blocks') /\ SlotsInUse(blocks') = SlotsInUse(blocks)
    BY <1>5, <2>1, FreeBufferGives
  <2> QED
    BY <1>1, <1>5, <2>2 DEF Table, TableTypes, TableInv, SlotInv
<1> QED
  BY <1>2, <1>4, <1>5 DEF MH_CreateHook

\* The entry at pos is gone, the others are not: old tells where each was.
Deleted(pos, old) ==
  /\ hooks[pos].target = job.fn /\ hooks[pos].isEnabled = FALSE /\ inited
  /\ blocks' = FreeBuffer(blocks, hooks[pos].slot)
  /\ hooks' \in Seq(Entries)
  /\ capacity' \in Nat /\ Len(hooks') <= capacity'
  /\ \A i \in DOMAIN hooks' : hooks'[i] = hooks[old[i]]
  /\ \A i, j \in DOMAIN hooks' : old[i] = old[j] => i = j
  /\ \A i \in DOMAIN hooks : i # pos => \E j \in DOMAIN hooks' : old[j] = i

\* MH_RemoveHook drops a hook that is no longer enabled; the entry that takes its
\* place is not lost.
LEMMA EntryDeleted ==
  ASSUME Table, JobTypes, NEW t \in Threads, MH_RemoveHook(t),
         inited /\ Hooked(job.fn) /\ job.ok
  PROVE  \E pos \in DOMAIN hooks :
           \E old \in [DOMAIN hooks' -> DOMAIN hooks \ {pos}] : Deleted(pos, old)
<1> DEFINE f == job.fn
           pos == CHOOSE i \in FindHookEntry(f) : TRUE
           n == Len(hooks)
<1>1. /\ inited /\ Hooked(f) /\ job.ok /\ job.op = "remove" /\ Pending = {}
      /\ blocks' = FreeBuffer(blocks, Hook(f).slot)
      /\ DeleteHookEntry(pos)
  BY DEF MH_RemoveHook, Ready
<1>2. pos \in DOMAIN hooks /\ hooks[pos].target = f /\ Hook(f) = hooks[pos]
  <2>1. FindHookEntry(f) # {}
    BY <1>1 DEF Hooked
  <2>2. pos \in FindHookEntry(f)
    BY <2>1
  <2> QED
    BY <2>2 DEF FindHookEntry, Hook
<1> HIDE DEF pos
<1>3. hooks \in Seq(Entries) /\ n \in Nat /\ capacity \in Nat /\ n <= capacity
      /\ DOMAIN hooks = 1 .. n /\ pos \in 1 .. n /\ \A i \in 1 .. n : hooks[i] \in Entries
  BY <1>2 DEF Table, TableTypes
<1>4. hooks[pos].isEnabled = FALSE
  <2>1. pos \notin Pending
    BY <1>1
  <2>2. Wanted(job.op, hooks[pos]) = FALSE
    BY <1>1 DEF Wanted
  <2>3. hooks[pos].isEnabled = Wanted(job.op, hooks[pos])
    BY <1>1, <1>2, <2>1 DEF Pending
  <2> QED
    BY <2>2, <2>3
<1> DEFINE moved == [hooks EXCEPT ![pos] = Last(hooks)]
           Old(i) == IF i = pos THEN n ELSE i
<1>5. hooks' = SubSeq(moved, 1, n - 1)
      /\ (capacity' = capacity \/ (capacity' = capacity \div 2 /\ capacity' >= n - 1))
  <2>1. moved \in Seq(Entries) /\ Len(moved) = n
    BY <1>3, ExceptSeq DEF Last
  <2> HIDE DEF moved
  <2> QED
    BY <1>1, <2>1 DEF DeleteHookEntry, Front, moved
<1>6. \A i \in 1 .. n : moved[i] = hooks[Old(i)] /\ moved[i] \in Entries
  BY <1>3 DEF Last
<1> HIDE DEF moved
<1>7. hooks' \in Seq(Entries) /\ Len(hooks') = n - 1 /\ DOMAIN hooks' = 1 .. n - 1
      /\ \A i \in 1 .. n - 1 : hooks'[i] = hooks[Old(i)]
  <2>1. \A i \in 1 .. n - 1 : moved[i] \in Entries /\ moved[i] = hooks[Old(i)]
    BY <1>3, <1>6
  <2>2. SubSeq(moved, 1, n - 1) \in Seq(Entries)
        /\ Len(SubSeq(moved, 1, n - 1)) = (IF 1 <= n - 1 THEN n - 1 - 1 + 1 ELSE 0)
        /\ \A i \in 1 .. n - 1 - 1 + 1 : SubSeq(moved, 1, n - 1)[i] = moved[1 + i - 1]
    <3> HIDE DEF Old, n
    <3> QED
      BY <1>3, <2>1, SubSeqProperties
  <2> HIDE DEF Old, n
  <2>3. Len(hooks') = n - 1
    BY <1>3, <1>5, <2>2
  <2>4. \A i \in 1 .. n - 1 : hooks'[i] = moved[i]
    BY <1>3, <1>5, <2>2
  <2> QED
    BY <1>5, <2>1, <2>2, <2>3, <2>4
<1>8. /\ \A i \in 1 .. n - 1 : Old(i) \in 1 .. n /\ Old(i) # pos
      /\ \A i, j \in 1 .. n - 1 : Old(i) = Old(j) => i = j
      /\ \A i \in 1 .. n : i # pos => \E j \in 1 .. n - 1 : Old(j) = i
  <2>0. n \in Nat /\ pos \in 1 .. n
    BY <1>3
  <2> HIDE DEF n
  <2>1. ASSUME NEW i \in 1 .. n, i # pos PROVE \E j \in 1 .. n - 1 : Old(j) = i
    <3>1. CASE i = n
      <4>1. pos \in 1 .. n - 1
        BY <2>0, <2>1, <3>1
      <4>2. Old(pos) = i
        BY <3>1
      <4> QED
        BY <4>1, <4>2
    <3>2. CASE i # n
      <4>1. i \in 1 .. n - 1
        BY <2>0, <2>1, <3>2
      <4>2. Old(i) = i
        BY <2>1
      <4> QED
        BY <4>1, <4>2
    <3> QED
      BY <3>1, <3>2
  <2>2. \A i \in 1 .. n - 1 : Old(i) \in 1 .. n /\ Old(i) # pos
    BY <2>0
  <2>3. \A i, j \in 1 .. n - 1 : Old(i) = Old(j) => i = j
    BY <2>0
  <2> HIDE DEF Old
  <2> QED
    BY <2>1, <2>2, <2>3
<1> HIDE DEF Old, n
<1> DEFINE old == [i \in DOMAIN hooks' |-> Old(i)]
<1>9. old \in [DOMAIN hooks' -> DOMAIN hooks \ {pos}]
  BY <1>3, <1>7, <1>8
<1>10. /\ \A i \in DOMAIN hooks' : hooks'[i] = hooks[old[i]]
       /\ \A i, j \in DOMAIN hooks' : old[i] = old[j] => i = j
       /\ \A i \in DOMAIN hooks : i # pos => \E j \in DOMAIN hooks' : old[j] = i
  BY <1>3, <1>7, <1>8
<1>11. capacity' \in Nat /\ Len(hooks') <= capacity'
  BY <1>3, <1>5, <1>7
<1> HIDE DEF old
<1> QED
  BY <1>1, <1>2, <1>4, <1>7, <1>9, <1>10, <1>11 DEF Deleted

\* MH_RemoveHook keeps all others, and gives the slot back.
LEMMA RemoveKept ==
  ASSUME Table, JobTypes, NEW t \in Threads, MH_RemoveHook(t)
  PROVE  Table'
<1>1. UNCHANGED <<inited, code>>
  BY DEF MH_RemoveHook, LeaveSpinLock
<1>2. CASE UNCHANGED <<hooks, capacity, blocks>>
  BY <1>1, <1>2 DEF Table, TableTypes, TableInv, SlotInv
<1>3. CASE inited /\ Hooked(job.fn) /\ job.ok
  <2>0. PICK pos \in DOMAIN hooks :
          \E old \in [DOMAIN hooks' -> DOMAIN hooks \ {pos}] : Deleted(pos, old)
    BY <1>3, EntryDeleted
  <2>1. PICK old \in [DOMAIN hooks' -> DOMAIN hooks \ {pos}] : Deleted(pos, old)
    BY <2>0
  <2>2. TableTypes'
    BY <1>1, <2>1 DEF Deleted, Table, TableTypes
  <2>3. TableInv'
    <3>1. \A i, j \in DOMAIN hooks' : hooks'[i].target = hooks'[j].target => i = j
      BY <2>1 DEF Deleted, Table, TableInv
    <3>2. ASSUME NEW g \in Fns
          PROVE  (\E i \in DOMAIN hooks' : hooks'[i].target = g /\ hooks'[i].isEnabled)
                   <=> \E i \in DOMAIN hooks : hooks[i].target = g /\ hooks[i].isEnabled
      <4>1. ASSUME NEW i \in DOMAIN hooks', hooks'[i].target = g /\ hooks'[i].isEnabled
            PROVE  \E j \in DOMAIN hooks : hooks[j].target = g /\ hooks[j].isEnabled
        BY <2>1, <4>1 DEF Deleted
      <4>2. ASSUME NEW i \in DOMAIN hooks, hooks[i].target = g /\ hooks[i].isEnabled
            PROVE  \E j \in DOMAIN hooks' : hooks'[j].target = g /\ hooks'[j].isEnabled
        <5>1. i # pos
          BY <2>1, <4>2 DEF Deleted
        <5>2. PICK j \in DOMAIN hooks' : old[j] = i
          BY <2>1, <5>1 DEF Deleted
        <5> QED
          BY <2>1, <4>2, <5>2 DEF Deleted
      <4> QED
        BY <4>1, <4>2
    <3> QED
      BY <1>1, <3>1, <3>2 DEF Table, TableInv
  <2>4. SlotInv'
    <3>1. hooks[pos].slot \in SlotsInUse(blocks) /\ Sound(blocks)
      BY <2>1 DEF Deleted, Table, SlotInv
    <3>2. Sound(blocks') /\ SlotsInUse(blocks') = SlotsInUse(blocks) \ {hooks[pos].slot}
      BY <2>1, <3>1, FreeBufferGives DEF Deleted
    <3>3. \A i, j \in DOMAIN hooks : hooks[i].slot = hooks[j].slot => i = j
      BY DEF Table, SlotInv
    <3>4. ASSUME NEW s
          PROVE  s \in {hooks'[i].slot : i \in DOMAIN hooks'}
                   <=> s \in {hooks[i].slot : i \in DOMAIN hooks} /\ s # hooks[pos].slot
      <4>1. ASSUME NEW i \in DOMAIN hooks', s = hooks'[i].slot
            PROVE  s \in {hooks[j].slot : j \in DOMAIN hooks} /\ s # hooks[pos].slot
        <5>1. old[i] \in DOMAIN hooks /\ old[i] # pos /\ s = hooks[old[i]].slot
          BY <2>1, <4>1 DEF Deleted
        <5> QED
          BY <2>1, <3>3, <5>1 DEF Deleted
      <4>2. ASSUME NEW i \in DOMAIN hooks, s = hooks[i].slot, s # hooks[pos].slot
            PROVE  s \in {hooks'[j].slot : j \in DOMAIN hooks'}
        <5>1. PICK j \in DOMAIN hooks' : old[j] = i
          BY <2>1, <4>2 DEF Deleted
        <5> QED
          BY <2>1, <4>2, <5>1 DEF Deleted
      <4> QED
        BY <4>1, <4>2
    <3>5. \A i, j \in DOMAIN hooks' : hooks'[i].slot = hooks'[j].slot => i = j
      BY <2>1, <3>3 DEF Deleted
    <3>6. \A i \in DOMAIN hooks' :
            hooks'[i].slot - Address[hooks'[i].target] \in -MaxRange .. MaxRange
      BY <2>1 DEF Deleted, Table, SlotInv
    <3>7. SlotsInUse(blocks') = {hooks'[i].slot : i \in DOMAIN hooks'}
      BY <3>2, <3>4 DEF Table, SlotInv
    <3> QED
      BY <3>2, <3>5, <3>6, <3>7 DEF SlotInv
  <2> QED
    BY <2>2, <2>3, <2>4 DEF Table
<1> QED
  BY <1>2, <1>3 DEF MH_RemoveHook

\* MH_Uninitialize takes the table and the memory away when nothing is patched.
LEMMA UninitKept ==
  ASSUME Table, JobTypes, NEW t \in Threads, MH_Uninitialize(t)
  PROVE  Table'
<1>1. UNCHANGED code
  BY DEF MH_Uninitialize, LeaveSpinLock
<1>2. CASE UNCHANGED <<inited, hooks, capacity, blocks>>
  BY <1>1, <1>2 DEF Table, TableTypes, TableInv, SlotInv
<1>3. CASE /\ job.ok /\ inited' = FALSE /\ hooks' = << >> /\ capacity' = 0
           /\ blocks' = UninitializeBuffer
  <2>1. job.op = "uninit" /\ job.fn = NoFn /\ Pending = {}
    BY DEF MH_Uninitialize, Ready, JobTypes
  <2>2. \A i \in DOMAIN hooks : hooks[i].isEnabled = Wanted(job.op, hooks[i])
    BY <1>3, <2>1 DEF Pending
  <2>3. \A i \in DOMAIN hooks : ~ hooks[i].isEnabled
    BY <2>1, <2>2 DEF Wanted
  <2>4. \A f \in Fns : code[f] # "patched"
    BY <2>3 DEF Table, TableInv
  <2>5. DOMAIN hooks' = {} /\ hooks' \in Seq(Entries) /\ Len(hooks') = 0
    BY <1>3
  <2>6. TableTypes'
    <3>1. capacity' \in Nat /\ Len(hooks') <= capacity'
      BY <1>3, <2>5
    <3>2. inited' \in BOOLEAN /\ hooks' = << >>
      BY <1>3
    <3>3. code' \in [Fns -> {"original", "patched"}]
      BY <1>1 DEF Table, TableTypes
    <3> QED
      BY <2>5, <3>1, <3>2, <3>3, Zenon DEF TableTypes
  <2>7. TableInv'
    <3>1. \A i \in DOMAIN hooks' : FALSE
      BY <2>5
    <3> QED
      BY <1>1, <2>4, <3>1, Zenon DEF TableInv
  <2>8. SlotInv'
    <3>1. blocks' \in Seq(Blocks) /\ DOMAIN blocks' = {}
      BY <1>3 DEF UninitializeBuffer
    <3>2. SlotsInUse(blocks') = {}
      BY <3>1 DEF SlotsInUse
    <3>3. Sound(blocks')
      BY <3>1 DEF Sound, BufferOK
    <3> QED
      BY <2>5, <3>2, <3>3 DEF SlotInv
  <2> QED
    BY <2>6, <2>7, <2>8 DEF Table
<1> QED
  BY <1>2, <1>3 DEF MH_Uninitialize

\* Every step keeps table, code and slots in agreement.
LEMMA TableKept == Table /\ JobTypes /\ [Next]_vars => Table'
<1> SUFFICES ASSUME Table, JobTypes, [Next]_vars PROVE Table'
  OBVIOUS
<1>1. CASE UNCHANGED tableVars
  BY <1>1 DEF tableVars, Table, TableTypes, TableInv, SlotInv
<1>2. ASSUME NEW t \in Threads, LibraryStep(t) PROVE Table'
  <2>1. CASE \/ EnumerateThreads(t) \/ EnableHook(t)
             \/ \E u \in Threads : Freeze(t, u) \/ Unfreeze(t, u)
    <3>1. UNCHANGED tableVars
      BY <2>1 DEF EnumerateThreads, EnableHook, Freeze, Unfreeze, LeaveSpinLock, hookVars, tableVars
    <3> QED
      BY <1>1, <3>1
  <2>2. CASE \E works \in BOOLEAN : EnableHookLL(t, works)
    BY <2>2, EnableKept
  <2>3. CASE MH_Initialize(t)
    <3>1. /\ inited' \in BOOLEAN /\ (inited => inited')
          /\ UNCHANGED <<hooks, capacity, blocks, code>>
      BY <2>3 DEF MH_Initialize, LeaveSpinLock, Table, TableTypes
    <3> QED
      BY <3>1 DEF Table, TableTypes, TableInv, SlotInv
  <2>4. CASE MH_Uninitialize(t)
    BY <2>4, UninitKept
  <2>5. CASE MH_RemoveHook(t)
    BY <2>5, RemoveKept
  <2>6. CASE \E enough \in BOOLEAN : MH_CreateHook(t, enough)
    BY <2>6, CreateKept
  <2>7. CASE QueueHook(t)
    BY <2>7, QueueKept
  <2> QED
    BY <1>2, <2>1, <2>2, <2>3, <2>4, <2>5, <2>6, <2>7 DEF LibraryStep, Library, Rewriting
<1> QED
  BY <1>1, <1>2, StepKinds DEF tableVars
-------------------------------------------------------------------------------
\* The invariant, and what follows from it.

\* Nothing is hooked, given out or suspended at first.
LEMMA InitInv == Init => HookInv
<1> SUFFICES ASSUME Init PROVE HookInv
  OBVIOUS
<1>1. /\ owner = NoThread /\ job = Idle /\ inited = FALSE /\ hooks = << >> /\ capacity = 0
      /\ blocks = << >> /\ code = [f \in Fns |-> "original"] /\ listed = {} /\ frozen = {}
      /\ skipped = {} /\ surplus = [t \in Threads |-> 0] /\ fails = 0
      /\ todo = [t \in Threads |-> << >>]
  BY DEF Init, MinInit
<1>2. JobTypes
  BY <1>1 DEF JobTypes, Idle
<1>3. TodoTypes
  BY <1>1 DEF TodoTypes
<1>4. DOMAIN hooks = {} /\ hooks \in Seq(Entries) /\ Len(hooks) = 0
  BY <1>1
<1>5. TableTypes /\ TableInv
  <2>1. TableTypes
    <3>0. capacity = 0 /\ inited = FALSE
      BY <1>1, Zenon
    <3>1. capacity \in Nat /\ Len(hooks) <= capacity /\ inited \in BOOLEAN
      <4>1. Len(hooks) = 0
        BY <1>4, Zenon
      <4>2. capacity \in Nat /\ Len(hooks) <= capacity
        BY <3>0, <4>1
      <4>3. inited \in BOOLEAN
        BY <3>0, Zenon
      <4> QED
        BY <4>2, <4>3
    <3>2. code \in [Fns -> {"original", "patched"}]
      BY <1>1
    <3>3. hooks \in Seq(Entries) /\ hooks = << >>
      BY <1>1, <1>4, Zenon
    <3> QED
      BY <3>1, <3>2, <3>3, Zenon DEF TableTypes
  <2>2. \A i \in DOMAIN hooks : FALSE
    BY <1>4
  <2>3. \A f \in Fns : code[f] # "patched"
    BY <1>1
  <2>4. TableInv
    BY <2>2, <2>3, Zenon DEF TableInv
  <2> QED
    BY <2>1, <2>4
<1>6. FreezeInv
  BY <1>1 DEF FreezeInv, Idle
<1>7. SlotInv
  <2>1. blocks \in Seq(Blocks) /\ DOMAIN blocks = {}
    BY <1>1
  <2>2. SlotsInUse(blocks) = {}
    BY <2>1 DEF SlotsInUse
  <2> QED
    BY <1>4, <2>1, <2>2 DEF SlotInv, Sound, BufferOK
<1> QED
  BY <1>2, <1>3, <1>5, <1>6, <1>7 DEF HookInv

\* The invariant that the theorems below rest on.
THEOREM HookInvariance == Spec => []HookInv
<1>1. HookInv /\ [Next]_vars => HookInv'
  BY TodoTypesKept, JobTypesKept, FreezeInvKept, TableKept DEF HookInv, Table
<1> QED
  BY <1>1, InitInv, PTL DEF Spec

\* The entry that FindHookEntry finds for a function is the only one it has.
LEMMA TheEntry ==
  ASSUME Table, NEW i \in DOMAIN hooks
  PROVE  Hooked(hooks[i].target) /\ Hook(hooks[i].target) = hooks[i]
<1> DEFINE f == hooks[i].target
<1>1. i \in FindHookEntry(f)
  BY DEF FindHookEntry
<1>2. (CHOOSE j \in FindHookEntry(f) : TRUE) \in FindHookEntry(f)
  BY <1>1
<1>3. \A j \in FindHookEntry(f) : j = i
  BY DEF FindHookEntry, Table, TableInv
<1> QED
  BY <1>1, <1>2, <1>3 DEF Hooked, Hook

\* Types hold, the table fits its array, and only the owner of the lock has
\* threads suspended, itself never (hook.c, Freeze and Unfreeze).
THEOREM HooksTypeCorrect == Spec => []HooksTypeOK
<1>1. HookInv => HooksTypeOK
  <2> SUFFICES ASSUME HookInv PROVE HooksTypeOK
    OBVIOUS
  <2>1. TableTypes /\ FreezeInv
    BY DEF HookInv
  <2>2. frozen # {} => owner # NoThread
    BY <2>1, ThreadsAssumption DEF FreezeInv
  <2>3. owner \notin frozen
    BY <2>1 DEF FreezeInv
  <2> QED
    BY <2>1, <2>2, <2>3 DEF TableTypes, FreezeInv, HooksTypeOK
<1> QED
  BY <1>1, HookInvariance, PTL

\* A function starts with the jump exactly when the table has it as enabled,
\* whatever is created, removed, queued or fails in between (hook.c).
THEOREM PatchedCorrect == Spec => []PatchedIffEnabled
<1>1. HookInv => PatchedIffEnabled
  <2> SUFFICES ASSUME HookInv, NEW f \in Fns
               PROVE  code[f] = "patched" <=> Hooked(f) /\ Hook(f).isEnabled
    BY DEF PatchedIffEnabled
  <2>1. Table
    BY DEF HookInv, Table
  <2>2. code[f] = "patched" <=> \E i \in DOMAIN hooks : hooks[i].target = f /\ hooks[i].isEnabled
    BY <2>1 DEF Table, TableInv
  <2>3. ASSUME NEW i \in DOMAIN hooks, hooks[i].target = f
        PROVE  Hooked(f) /\ Hook(f) = hooks[i]
    BY <2>1, <2>3, TheEntry
  <2>4. Hooked(f) => \E i \in DOMAIN hooks : hooks[i].target = f
    BY DEF Hooked, FindHookEntry
  <2> QED
    BY <2>2, <2>3, <2>4
<1> QED
  BY <1>1, HookInvariance, PTL

\* The slots given out by the allocator are those of the table, one for each
\* hook, within the reach of a 32-bit jump, and the allocator's own lists are
\* sound (buffer.c with hook.c).
THEOREM SlotsCorrect == Spec => []SlotsMatchHooks
<1>1. HookInv => SlotsMatchHooks
  BY DEF HookInv, TableInv, SlotInv, Sound, SlotsMatchHooks
<1> QED
  BY <1>1, HookInvariance, PTL
--------------------------------------------------------------------------------
\* The scripts of rmem: what each call has done by the time the next one comes.

\* A thread is in the call at position k of a script, or has yet to make it.
OnScript(t, s, k) ==
  /\ k \in 1 .. Len(s) + 1
  /\ IF owner = t
     THEN k <= Len(s) /\ s[k] = Call(job.op, job.fn) /\ todo[t] = SubSeq(s, k + 1, Len(s))
     ELSE todo[t] = SubSeq(s, k, Len(s))

Resting(t) == owner # t /\ todo[t] = << >>
InExit(t) == at[t].in = "detour" /\ at[t].fn = Exit
Unhooks(t) == (t = Main /\ calls > 0 /\ calls % 2 = 0) \/ (InExit(t) /\ at[t].off = 2)

\* What rmemHookAllocs has done before its call at position k of its script s.
HookDone(s, k) ==
  /\ k > 1 => inited
  /\ \A j \in 1 .. k - 1 :
       Roomy /\ s[j].op = "create" /\ s[j].fn \in Executable => Hooked(s[j].fn)
  /\ k = Len(s) => \A i \in DOMAIN hooks : hooks[i].isEnabled

\* What rmemUnhookAllocs has.
Cleared == hooks = << >> /\ blocks = << >> /\ ~inited
UnhookDone(s, k) ==
  \A j \in 1 .. k - 1 :
    /\ s[j].op = "remove" => ~Hooked(s[j].fn)
    /\ s[j].op = "uninit" => Cleared

\* rmemHookAllocs is at work: nobody else is, and nobody is on the way to exit.
Hooking(s, k) ==
  /\ calls % 2 = 1 /\ k <= Len(s) /\ OnScript(Main, s, k)
  /\ \A t \in Threads \ {Main} : Resting(t)
  /\ linkerBased => \A t \in Threads : at[t].fn # Exit
  /\ ~recording
  /\ fails = 0 => HookDone(s, k)

\* It is not: whoever has calls to make unhooks, and is alone in that unless the
\* others are in exit too.
Unhooking(t, s, k) ==
  /\ OnScript(t, s, k)
  /\ k > 1 => ~recording
  /\ fails = 0 => UnhookDone(s, k)
Using(s) ==
  /\ calls = 0 => ~recording /\ (linkerBased => \A t \in Threads : at[t].fn # Exit)
  /\ \A t \in Threads : IF Unhooks(t) THEN \E k \in Nat : Unhooking(t, s, k) ELSE Resting(t)
  /\ Roomy => RecordingIntercepts

\* What the places, the calls and the table keep whoever calls.
IsPlace(p) == p = Place(p.in, p.fn, p.off, p.slot, p.via, p.late)
PlaceInv == at = [t \in Threads |-> at[t]] /\ \A t \in Threads : IsPlace(at[t])
CallInv ==
  /\ calls \in Nat /\ fails \in Nat /\ client \in {"rmem", "any"} /\ linkerBased \in BOOLEAN
  /\ fails = 0 => job.ok
  /\ job.op \notin {"rmemInit", "rmemShutDown"}
  /\ \A t \in Threads : owner = t => job.op # "none"
OriginalInv ==
  /\ DOMAIN original = Fns
  /\ \A i \in DOMAIN hooks :
       hooks[i].target \in Executable /\ original[hooks[i].target] = hooks[i].slot
  /\ ~inited => blocks = << >>

\* With linker-based hooks exit stays hooked for those in its detour; without
\* them it never is.
ExitInv ==
  /\ Hooked(Exit) => linkerBased
  /\ \A t \in Threads :
       at[t].fn = Exit /\ (at[t].in = "detour" \/ at[t].via) => Hooked(Exit)

ScriptInv ==
  client = "rmem" =>
    /\ PlaceInv /\ ExitInv
    /\ Using(UnhookAllocs(linkerBased)) \/ \E k \in Nat : Hooking(HookAllocs(linkerBased), k)
--------------------------------------------------------------------------------
\* The form of the scripts.

\* The functions of ntdll and kernel32.
HeapAndModules == ToSet(Heap) \cup ToSet(Modules)

\* A script that starts with one call and goes on with calls of a set T: it keeps
\* that form, and what it has, when more calls of T follow.
Body(s, first, T) ==
  /\ s \in Seq(ScriptCalls) /\ Len(s) >= 1 /\ s[1] = first
  /\ \A j \in 2 .. Len(s) : s[j] \in T

Elements(s) == {s[j] : j \in 1 .. Len(s)}
Later(s) == {s[j] : j \in 2 .. Len(s)}

\* A script that goes on keeps its form and its calls.
LEMMA BodyGrows ==
  ASSUME NEW s, NEW first, NEW T \in SUBSET ScriptCalls, Body(s, first, T), NEW b \in Seq(T)
  PROVE  /\ Body(s \o b, first, T)
         /\ Later(s) \subseteq Later(s \o b) /\ Elements(b) \subseteq Later(s \o b)
<1> DEFINE m == Len(s)
           n == Len(b)
           r == s \o b
<1>1. s \in Seq(ScriptCalls) /\ b \in Seq(ScriptCalls) /\ m \in Nat /\ n \in Nat /\ m >= 1
      /\ \A i \in 1 .. n : b[i] \in T
  BY DEF Body
<1>2. /\ r \in Seq(ScriptCalls) /\ Len(r) = m + n
      /\ \A i \in 1 .. m : r[i] = s[i]
      /\ \A i \in m + 1 .. m + n : r[i] = b[i - m]
  BY <1>1, ConcatProperties
<1>3. \A i \in 1 .. n : m + i \in 2 .. m + n /\ r[m + i] = b[i]
  <2> HIDE DEF m, n, r
  <2> TAKE i \in 1 .. n
  <2>1. m + i \in m + 1 .. m + n /\ (m + i) - m = i
    BY <1>1
  <2> QED
    BY <1>1, <1>2, <2>1
<1>4. \A j \in 2 .. m + n : r[j] \in T
  <2>1. \A j \in 2 .. m : r[j] \in T
    BY <1>2 DEF Body
  <2>2. \A j \in m + 1 .. m + n : j - m \in 1 .. n
    <3> HIDE DEF m, n
    <3> QED
      BY <1>1
  <2> HIDE DEF m, n, r
  <2> QED
    BY <1>1, <1>2, <2>1, <2>2
<1>5. r[1] = first
  BY <1>1, <1>2 DEF Body
<1>6. \A i \in 2 .. m : i \in 2 .. m + n /\ r[i] = s[i]
  <2> HIDE DEF m, n, r
  <2> QED
    BY <1>1, <1>2
<1>7. Body(r, first, T)
  <2> HIDE DEF m, n, r
  <2> QED
    BY <1>1, <1>2, <1>4, <1>5 DEF Body
<1>8. \A i \in 2 .. m : \E j \in 2 .. Len(r) : r[j] = s[i]
  BY <1>2, <1>6
<1>9. \A i \in 1 .. n : \E j \in 2 .. Len(r) : r[j] = b[i]
  BY <1>2, <1>3
<1> HIDE DEF m, n, r
<1>10. Later(s) \subseteq Later(r) /\ Elements(b) \subseteq Later(r)
  BY <1>8, <1>9 DEF Later, Elements, m, n
<1> QED
  BY <1>7, <1>10 DEF r

\* The calls of one operation, one for each function of a list.
LEMMA CallsAre ==
  ASSUME NEW op, NEW fs \in Seq(Fns)
  PROVE  /\ Calls(op, fs) \in Seq({Call(op, f) : f \in ToSet(fs)})
         /\ \A f \in ToSet(fs) : Call(op, f) \in Elements(Calls(op, fs))
<1> DEFINE n == Len(fs)
           T == {Call(op, f) : f \in ToSet(fs)}
<1>1. n \in Nat /\ DOMAIN fs = 1 .. n /\ Calls(op, fs) = [i \in 1 .. n |-> Call(op, fs[i])]
  BY DEF Calls
<1>2. \A i \in 1 .. n : Call(op, fs[i]) \in T
  BY <1>1 DEF ToSet
<1>3. Calls(op, fs) \in Seq(T) /\ Len(Calls(op, fs)) = n
  <2> HIDE DEF n, T
  <2> QED
    BY <1>1, <1>2, IsASeq
<1>4. \A f \in ToSet(fs) : \E i \in 1 .. n : Calls(op, fs)[i] = Call(op, f)
  BY <1>1 DEF ToSet
<1> HIDE DEF n
<1> QED
  BY <1>3, <1>4 DEF Elements

\* What rmemHookAllocs calls: MH_Initialize, MH_CreateHook for each function,
\* MH_EnableHook for all, rmemInit.
HookShape(s, linker) ==
  LET n == Len(s) IN
    /\ s \in Seq(ScriptCalls) /\ n \in Nat /\ n >= 3
    /\ s[1] = Call("init", NoFn)
    /\ s[n - 1] = Call("enable", NoFn)
    /\ s[n] = Call("rmemInit", NoFn)
    /\ \A j \in 2 .. n - 2 : \E f \in Fns : s[j] = Call("create", f) /\ (f = Exit => linker)
    /\ \A f \in HeapAndModules : \E j \in 2 .. n - 2 : s[j] = Call("create", f)

\* rmemHookAllocs calls just that, with and without linker-based hooks.
LEMMA HookScript ==
  ASSUME NEW linker \in BOOLEAN
  PROVE  HookShape(HookAllocs(linker), linker)
<1> DEFINE F == HeapAndModules \cup (IF linker THEN {Exit} ELSE {})
           T == {Call("create", f) : f \in F}
           first == Call("init", NoFn)
           b == Calls("create", Heap)
           c == Calls("create", Modules)
           d == IF linker THEN <<Call("create", Exit)>> ELSE << >>
           e == <<Call("enable", NoFn), Call("rmemInit", NoFn)>>
           p0 == <<first>>
           p1 == p0 \o b
           p2 == p1 \o c
           p3 == p2 \o d
<1>1. F \subseteq Fns /\ (Exit \in F => linker)
  BY HooksAssumption DEF HeapAndModules
<1>2. T \in SUBSET ScriptCalls /\ first \in ScriptCalls
      /\ Call("enable", NoFn) \in ScriptCalls /\ Call("rmemInit", NoFn) \in ScriptCalls
  BY <1>1 DEF ScriptCalls, Call, Ops
<1>3. b \in Seq(T) /\ \A f \in ToSet(Heap) : Call("create", f) \in Elements(b)
  <2>1. {Call("create", f) : f \in ToSet(Heap)} \subseteq T
    BY DEF HeapAndModules
  <2>2. b \in Seq({Call("create", f) : f \in ToSet(Heap)})
        /\ \A f \in ToSet(Heap) : Call("create", f) \in Elements(b)
    BY HooksAssumption, CallsAre
  <2> HIDE DEF T, b
  <2> QED
    BY <2>1, <2>2
<1>4. c \in Seq(T) /\ \A f \in ToSet(Modules) : Call("create", f) \in Elements(c)
  <2>1. {Call("create", f) : f \in ToSet(Modules)} \subseteq T
    BY DEF HeapAndModules
  <2>2. c \in Seq({Call("create", f) : f \in ToSet(Modules)})
        /\ \A f \in ToSet(Modules) : Call("create", f) \in Elements(c)
    BY HooksAssumption, CallsAre
  <2> HIDE DEF T, c
  <2> QED
    BY <2>1, <2>2
<1>5. d \in Seq(T)
  <2>1. CASE linker
    <3>1. Call("create", Exit) \in T
      BY <2>1
    <3> HIDE DEF T
    <3> QED
      BY <2>1, <3>1
  <2>2. CASE ~linker
    BY <2>2
  <2> QED
    BY <2>1, <2>2
<1>6. Body(p0, first, T)
  <2>1. <<first>> \in Seq(ScriptCalls) /\ Len(<<first>>) = 1 /\ <<first>>[1] = first
    BY <1>2
  <2> HIDE DEF first
  <2> QED
    BY <2>1 DEF Body
<1> HIDE DEF T, b, c, d, first, p0
<1>7. Body(p1, first, T) /\ Elements(b) \subseteq Later(p1)
  BY <1>2, <1>3, <1>6, BodyGrows
<1> HIDE DEF p1
<1>8. /\ Body(p2, first, T)
      /\ Later(p1) \subseteq Later(p2)
      /\ Elements(c) \subseteq Later(p2)
  BY <1>2, <1>4, <1>7, BodyGrows
<1> HIDE DEF p2
<1>9. Body(p3, first, T) /\ Later(p2) \subseteq Later(p3)
  BY <1>2, <1>5, <1>8, BodyGrows
<1> DEFINE s == p3 \o e
           m == Len(p3)
<1>10. HookAllocs(linker) = s
  BY DEF HookAllocs, p0, p1, p2, b, c, d, first
<1> HIDE DEF p3
<1>11. \A f \in HeapAndModules : Call("create", f) \in Later(p3)
  <2>1. \A f \in ToSet(Heap) : Call("create", f) \in Later(p3)
    BY <1>3, <1>7, <1>8, <1>9
  <2>2. \A f \in ToSet(Modules) : Call("create", f) \in Later(p3)
    BY <1>4, <1>8, <1>9
  <2> QED
    BY <2>1, <2>2 DEF HeapAndModules
<1>12. /\ p3 \in Seq(ScriptCalls) /\ m \in Nat /\ m >= 1 /\ p3[1] = first
       /\ e \in Seq(ScriptCalls) /\ Len(e) = 2
       /\ e[1] = Call("enable", NoFn) /\ e[2] = Call("rmemInit", NoFn)
  BY <1>2, <1>9 DEF Body
<1> HIDE DEF e
<1>13. /\ s \in Seq(ScriptCalls) /\ Len(s) = m + 2
       /\ \A i \in 1 .. m : s[i] = p3[i]
       /\ \A i \in m + 1 .. m + 2 : s[i] = e[i - m]
  <2>0. p3 \in Seq(ScriptCalls) /\ e \in Seq(ScriptCalls)
    BY <1>12
  <2>1. /\ s \in Seq(ScriptCalls) /\ Len(s) = m + Len(e)
        /\ \A i \in 1 .. m : s[i] = p3[i]
        /\ \A i \in m + 1 .. m + Len(e) : s[i] = e[i - m]
    BY <2>0, ConcatProperties
  <2> QED
    BY <1>12, <2>1
<1> HIDE DEF s, m
<1>14. s[m + 1] = Call("enable", NoFn) /\ s[m + 2] = Call("rmemInit", NoFn) /\ s[1] = first
  BY <1>12, <1>13
<1>15. \A j \in 2 .. m : \E f \in Fns : s[j] = Call("create", f) /\ (f = Exit => linker)
  <2>1. \A j \in 2 .. m : s[j] \in T
    BY <1>9, <1>12, <1>13 DEF Body, m
  <2> QED
    BY <1>1, <2>1 DEF T
<1>16. \A f \in HeapAndModules : \E j \in 2 .. m : s[j] = Call("create", f)
  BY <1>11, <1>12, <1>13 DEF m, Later
<1>17. Len(s) - 1 = m + 1 /\ Len(s) - 2 = m /\ Len(s) \in Nat /\ Len(s) >= 3 /\ Len(s) = m + 2
  BY <1>12, <1>13
<1> HIDE DEF F
<1> QED
  BY <1>10, <1>13, <1>14, <1>15, <1>16, <1>17 DEF first, HookShape

\* What rmemUnhookAllocs calls: rmemShutDown, then MH_RemoveHook, for all but exit
\* with linker-based hooks; MH_Uninitialize without them.
UnhookShape(s, linker) ==
  LET n == Len(s) IN
    /\ s \in Seq(ScriptCalls) /\ n \in Nat /\ n >= 1
    /\ s[1] = Call("rmemShutDown", NoFn)
    /\ \A j \in 2 .. n : \/ \E f \in HeapAndModules : s[j] = Call("remove", f)
                         \/ s[j] = Call("uninit", NoFn) /\ ~linker
    /\ linker => \A f \in HeapAndModules : \E j \in 2 .. n : s[j] = Call("remove", f)
    /\ ~linker => \E j \in 2 .. n : s[j] = Call("uninit", NoFn)

\* rmemUnhookAllocs calls just that.
LEMMA UnhookScript ==
  ASSUME NEW linker \in BOOLEAN
  PROVE  UnhookShape(UnhookAllocs(linker), linker)
<1> DEFINE T == {Call("remove", f) : f \in HeapAndModules}
                  \cup (IF linker THEN {} ELSE {Call("uninit", NoFn)})
           first == Call("rmemShutDown", NoFn)
           b == IF linker THEN Calls("remove", Heap) ELSE << >>
           c == Calls("remove", Modules)
           d == IF linker THEN << >> ELSE <<Call("uninit", NoFn)>>
           p0 == <<first>>
           p1 == p0 \o b
           p2 == p1 \o c
           p3 == p2 \o d
<1>1. HeapAndModules \subseteq Fns
  BY HooksAssumption DEF HeapAndModules
<1>2. T \in SUBSET ScriptCalls /\ first \in ScriptCalls
  BY <1>1 DEF ScriptCalls, Call, Ops
<1>3. /\ b \in Seq(T)
      /\ linker => \A f \in ToSet(Heap) : Call("remove", f) \in Elements(b)
  <2>1. {Call("remove", f) : f \in ToSet(Heap)} \subseteq T
    BY DEF HeapAndModules
  <2>2. Calls("remove", Heap) \in Seq({Call("remove", f) : f \in ToSet(Heap)})
        /\ \A f \in ToSet(Heap) : Call("remove", f) \in Elements(Calls("remove", Heap))
    BY HooksAssumption, CallsAre
  <2> HIDE DEF T
  <2> QED
    BY <2>1, <2>2
<1>4. c \in Seq(T) /\ \A f \in ToSet(Modules) : Call("remove", f) \in Elements(c)
  <2>1. {Call("remove", f) : f \in ToSet(Modules)} \subseteq T
    BY DEF HeapAndModules
  <2>2. c \in Seq({Call("remove", f) : f \in ToSet(Modules)})
        /\ \A f \in ToSet(Modules) : Call("remove", f) \in Elements(c)
    BY HooksAssumption, CallsAre
  <2> HIDE DEF T, c
  <2> QED
    BY <2>1, <2>2
<1>5. d \in Seq(T)
  <2>1. ~linker => Call("uninit", NoFn) \in T
    OBVIOUS
  <2> HIDE DEF T
  <2> QED
    BY <2>1
<1>6. ~linker => Call("uninit", NoFn) \in Elements(d)
  BY DEF Elements
<1>7. Body(p0, first, T)
  <2>1. <<first>> \in Seq(ScriptCalls) /\ Len(<<first>>) = 1 /\ <<first>>[1] = first
    BY <1>2
  <2> HIDE DEF first
  <2> QED
    BY <2>1 DEF Body
<1> HIDE DEF T, b, c, d, first, p0
<1>8. Body(p1, first, T) /\ Elements(b) \subseteq Later(p1)
  BY <1>2, <1>3, <1>7, BodyGrows
<1> HIDE DEF p1
<1>9. /\ Body(p2, first, T)
      /\ Later(p1) \subseteq Later(p2)
      /\ Elements(c) \subseteq Later(p2)
  BY <1>2, <1>4, <1>8, BodyGrows
<1> HIDE DEF p2
<1>10. /\ Body(p3, first, T)
      /\ Later(p2) \subseteq Later(p3)
      /\ Elements(d) \subseteq Later(p3)
  BY <1>2, <1>5, <1>9, BodyGrows
<1>11. UnhookAllocs(linker) = p3
  BY DEF UnhookAllocs, p0, p1, p2, b, c, d, first
<1> HIDE DEF p3
<1>12. linker => \A f \in HeapAndModules : Call("remove", f) \in Later(p3)
  <2>1. linker => \A f \in ToSet(Heap) : Call("remove", f) \in Later(p3)
    BY <1>3, <1>8, <1>9, <1>10
  <2>2. \A f \in ToSet(Modules) : Call("remove", f) \in Later(p3)
    BY <1>4, <1>9, <1>10
  <2> QED
    BY <2>1, <2>2 DEF HeapAndModules
<1>13. ~linker => Call("uninit", NoFn) \in Later(p3)
  BY <1>10, <1>6
<1>14. \A j \in 2 .. Len(p3) : \/ \E f \in HeapAndModules : p3[j] = Call("remove", f)
                               \/ p3[j] = Call("uninit", NoFn) /\ ~linker
  BY <1>10 DEF Body, T
<1>15. p3 \in Seq(ScriptCalls) /\ Len(p3) \in Nat /\ Len(p3) >= 1 /\ p3[1] = first
  BY <1>10 DEF Body
<1> QED
  BY <1>11, <1>12, <1>13, <1>14, <1>15 DEF first, Later, UnhookShape

\* A script shortened by its first call.
LEMMA NextCall ==
  ASSUME NEW T, NEW s \in Seq(T), NEW k \in 1 .. Len(s)
  PROVE  /\ SubSeq(s, k, Len(s)) # << >>
         /\ Head(SubSeq(s, k, Len(s))) = s[k]
         /\ Tail(SubSeq(s, k, Len(s))) = SubSeq(s, k + 1, Len(s))
<1> DEFINE n == Len(s)
           r == SubSeq(s, k, n)
           q == SubSeq(s, k + 1, n)
<1>1. n \in Nat /\ k \in 1 .. n /\ \A i \in 1 .. n : s[i] \in T
  OBVIOUS
<1>2. /\ r \in Seq(T) /\ Len(r) = n - k + 1
      /\ \A i \in 1 .. n - k + 1 : r[i] = s[k + i - 1]
  BY <1>1, SubSeqProperties
<1>3. /\ q \in Seq(T) /\ Len(q) = n - k
      /\ \A i \in 1 .. n - k : q[i] = s[k + i]
  <2>1. /\ q \in Seq(T) /\ Len(q) = (IF k + 1 <= n THEN n - (k + 1) + 1 ELSE 0)
        /\ \A i \in 1 .. n - (k + 1) + 1 : q[i] = s[(k + 1) + i - 1]
    BY <1>1, SubSeqProperties
  <2> HIDE DEF n, q
  <2> QED
    BY <1>1, <2>1
<1> HIDE DEF n, r, q
<1>4. r # << >> /\ Head(r) = s[k]
  <2>1. r[1] = s[k]
    BY <1>1, <1>2
  <2> QED
    BY <1>1, <1>2, <2>1
<1>5. /\ Tail(r) \in Seq(T) /\ Len(Tail(r)) = n - k
      /\ \A i \in 1 .. n - k : Tail(r)[i] = s[k + i]
  <2>1. /\ Tail(r) \in Seq(T) /\ Len(Tail(r)) = Len(r) - 1
        /\ \A i \in 1 .. Len(r) - 1 : Tail(r)[i] = r[i + 1]
    BY <1>2, <1>4, HeadTailProperties
  <2>2. \A i \in 1 .. n - k : i + 1 \in 1 .. n - k + 1 /\ k + (i + 1) - 1 = k + i
    BY <1>1
  <2> QED
    BY <1>1, <1>2, <2>1, <2>2
<1>6. Tail(r) = q
  <2>1. \A i \in 1 .. Len(q) : Tail(r)[i] = q[i]
    BY <1>1, <1>3, <1>5
  <2> QED
    BY <1>3, <1>5, <2>1, SeqEqual
<1> QED
  BY <1>4, <1>6 DEF n, r, q

\* A script that has ended, and a whole one.
LEMMA WholeScript ==
  ASSUME NEW T, NEW s \in Seq(T)
  PROVE  SubSeq(s, Len(s) + 1, Len(s)) = << >> /\ SubSeq(s, 1, Len(s)) = s
OBVIOUS
--------------------------------------------------------------------------------
\* What the calls of MinHook do to the hooked functions.

\* A function is hooked when the table has an entry for it.
LEMMA HookedIs ==
  /\ \A f : Hooked(f) <=> \E i \in DOMAIN hooks : hooks[i].target = f
  /\ \A f : Hooked(f)' <=> \E i \in DOMAIN hooks' : hooks'[i].target = f
BY DEF Hooked, FindHookEntry

\* Where an entry of the table after a step of the library comes from, and what
\* becomes of those before.
Stays(i, j) ==
  /\ hooks'[i].target = hooks[j].target /\ hooks'[i].slot = hooks[j].slot
  /\ hooks'[i].ct = hooks[j].ct

\* Only MH_CreateHook adds an entry, for a function it can copy, only
\* MH_RemoveHook and MH_Uninitialize take entries away, and the trampoline the
\* caller was told is that of the entry.
LEMMA EntriesAfter ==
  ASSUME Table, JobTypes, NEW t \in Threads, LibraryStep(t)
  PROVE  /\ \A i \in DOMAIN hooks' :
              \/ \E j \in DOMAIN hooks : Stays(i, j)
              \/ /\ job.op = "create" /\ hooks'[i].target = job.fn
                 /\ job.fn \in Executable /\ ~Hooked(job.fn)
                 /\ original' = [original EXCEPT ![job.fn] = hooks'[i].slot]
                 /\ hooks'[i].ct = TrampolineOf[job.fn] /\ TrampolineOf[job.fn].ok
         /\ \A j \in DOMAIN hooks :
              \/ \E i \in DOMAIN hooks' : Stays(i, j)
              \/ job.op = "remove" /\ hooks[j].target = job.fn
              \/ job.op = "uninit"
         /\ \/ UNCHANGED original
            \/ /\ job.op = "create" /\ ~Hooked(job.fn)
               /\ original' = [original EXCEPT ![job.fn] = original'[job.fn]]
<1>1. CASE UNCHANGED <<hooks, original>>
  BY <1>1 DEF Stays
<1>2. CASE \/ EnumerateThreads(t) \/ EnableHook(t) \/ MH_Initialize(t)
           \/ \E u \in Threads : Freeze(t, u) \/ Unfreeze(t, u)
  <2>1. UNCHANGED <<hooks, original>>
    BY <1>2 DEF EnumerateThreads, EnableHook, MH_Initialize, Freeze, Unfreeze, hookVars
  <2> QED
    BY <1>1, <2>1
<1>3. ASSUME NEW works \in BOOLEAN, EnableHookLL(t, works),
             ~ UNCHANGED <<hooks, original>>
      PROVE  /\ UNCHANGED original
             /\ DOMAIN hooks' = DOMAIN hooks /\ \A i \in DOMAIN hooks : Stays(i, i)
  <2> DEFINE i == CHOOSE i \in Pending : \A j \in Pending : i <= j
             enable == Wanted(job.op, hooks[i])
  <2>1. UNCHANGED original
    BY <1>3 DEF EnableHookLL
  <2>2. hooks' = [hooks EXCEPT ![i] =
                    [target |-> hooks[i].target, slot |-> hooks[i].slot, ct |-> hooks[i].ct,
                     isEnabled |-> enable, queueEnable |-> enable]]
    BY <1>3 DEF EnableHookLL
  <2> HIDE DEF i, enable
  <2>3. DOMAIN hooks' = DOMAIN hooks
    BY <2>2
  <2>4. \A j \in DOMAIN hooks : Stays(j, j)
    BY <2>2 DEF Stays
  <2> QED
    BY <2>1, <2>3, <2>4
<1>4. CASE QueueHook(t)
  <2>1. UNCHANGED original
    BY <1>4 DEF QueueHook
  <2>2. CASE SetQueue(job.fn, job.op = "queueEnable")
    <3>1. DOMAIN hooks' = DOMAIN hooks
      BY <2>2 DEF SetQueue
    <3>2. \A j \in DOMAIN hooks : hooks[j] \in Entries
      BY DEF Table, TableTypes
    <3>3. \A j \in DOMAIN hooks : Stays(j, j)
      BY <2>2, <3>2 DEF SetQueue, Stays, Entries
    <3> QED
      BY <2>1, <3>1, <3>3
  <2> QED
    BY <1>1, <1>4, <2>1, <2>2 DEF QueueHook
<1>5. CASE MH_Uninitialize(t)
  <2>1. UNCHANGED original /\ job.op = "uninit"
    BY <1>5 DEF MH_Uninitialize, Ready
  <2>2. CASE hooks' = << >>
    <3>1. DOMAIN hooks' = {}
      BY <2>2
    <3> QED
      BY <2>1, <3>1
  <2> QED
    BY <1>1, <1>5, <2>1, <2>2 DEF MH_Uninitialize
<1>6. CASE MH_RemoveHook(t)
  <2>1. UNCHANGED original /\ job.op = "remove"
    BY <1>6 DEF MH_RemoveHook, Ready
  <2>2. CASE inited /\ Hooked(job.fn) /\ job.ok
    <3>1. PICK pos \in DOMAIN hooks :
            \E old \in [DOMAIN hooks' -> DOMAIN hooks \ {pos}] : Deleted(pos, old)
      BY <1>6, <2>2, EntryDeleted
    <3>2. PICK old \in [DOMAIN hooks' -> DOMAIN hooks \ {pos}] : Deleted(pos, old)
      BY <3>1
    <3>3. \A i \in DOMAIN hooks' : old[i] \in DOMAIN hooks /\ Stays(i, old[i])
      BY <3>2 DEF Deleted, Stays
    <3>4. \A j \in DOMAIN hooks : j # pos => \E i \in DOMAIN hooks' : Stays(i, j)
      BY <3>2, <3>3 DEF Deleted
    <3> QED
      BY <2>1, <3>2, <3>3, <3>4 DEF Deleted
  <2> QED
    BY <1>1, <1>6, <2>1, <2>2 DEF MH_RemoveHook
<1>7. ASSUME NEW enough \in BOOLEAN, MH_CreateHook(t, enough), ~ UNCHANGED <<hooks, original>>
      PROVE  \E slot :
               LET entry == [target |-> job.fn, slot |-> slot, ct |-> TrampolineOf[job.fn],
                             isEnabled |-> FALSE, queueEnable |-> FALSE]
               IN  /\ hooks' = Append(hooks, entry) /\ TrampolineOf[job.fn].ok
                   /\ original' = [original EXCEPT ![job.fn] = slot]
                   /\ job.op = "create" /\ job.fn \in Executable /\ ~Hooked(job.fn)
  BY <1>7 DEF MH_CreateHook, Ready, AddHookEntry
<1>8. ASSUME NEW enough \in BOOLEAN, MH_CreateHook(t, enough), ~ UNCHANGED <<hooks, original>>
      PROVE  /\ \A i \in DOMAIN hooks' :
                  \/ i \in DOMAIN hooks /\ Stays(i, i)
                  \/ /\ hooks'[i].target = job.fn
                     /\ original' = [original EXCEPT ![job.fn] = hooks'[i].slot]
                     /\ hooks'[i].ct = TrampolineOf[job.fn] /\ TrampolineOf[job.fn].ok
             /\ DOMAIN hooks \subseteq DOMAIN hooks' /\ \A j \in DOMAIN hooks : Stays(j, j)
             /\ job.op = "create" /\ job.fn \in Executable /\ ~Hooked(job.fn)
             /\ original' = [original EXCEPT ![job.fn] = original'[job.fn]]
  <2>1. PICK slot :
               LET entry == [target |-> job.fn, slot |-> slot, ct |-> TrampolineOf[job.fn],
                             isEnabled |-> FALSE, queueEnable |-> FALSE]
               IN  /\ hooks' = Append(hooks, entry) /\ TrampolineOf[job.fn].ok
                   /\ original' = [original EXCEPT ![job.fn] = slot]
                   /\ job.op = "create" /\ job.fn \in Executable /\ ~Hooked(job.fn)
    BY <1>7, <1>8
  <2> DEFINE entry == [target |-> job.fn, slot |-> slot, ct |-> TrampolineOf[job.fn],
                       isEnabled |-> FALSE, queueEnable |-> FALSE]
             n == Len(hooks)
  <2>2. /\ entry.target = job.fn /\ entry.slot = slot /\ entry.ct = TrampolineOf[job.fn]
        /\ hooks' = Append(hooks, entry)
    BY <2>1
  <2> HIDE DEF entry
  <2>3. hooks \in Seq(Entries) /\ n \in Nat /\ DOMAIN hooks = 1 .. n
    BY DEF Table, TableTypes
  <2>4. /\ DOMAIN hooks' = 1 .. n + 1 /\ hooks'[n + 1] = entry
        /\ \A i \in 1 .. n : hooks'[i] = hooks[i]
    BY <2>2, <2>3
  <2>5. \A i \in 1 .. n + 1 : i \in 1 .. n \/ i = n + 1
    BY <2>3
  <2>6. original' = [original EXCEPT ![job.fn] = original'[job.fn]]
    <3>1. CASE job.fn \in DOMAIN original
      BY <2>1, <3>1
    <3>2. CASE job.fn \notin DOMAIN original
      BY <2>1, <3>2
    <3> QED
      BY <3>1, <3>2
  <2> HIDE DEF n
  <2>7. \A i \in 1 .. n : Stays(i, i)
    BY <2>4 DEF Stays
  <2>8. /\ hooks'[n + 1].target = job.fn /\ hooks'[n + 1].slot = slot
        /\ hooks'[n + 1].ct = TrampolineOf[job.fn]
    BY <2>2, <2>4
  <2>9. original' = [original EXCEPT ![job.fn] = hooks'[n + 1].slot]
    BY <2>1, <2>8
  <2>10. \A i \in DOMAIN hooks' : \/ i \in DOMAIN hooks /\ Stays(i, i)
                               \/ i = n + 1
    BY <2>3, <2>4, <2>5, <2>7
  <2>11. 1 .. n \subseteq 1 .. n + 1
    BY <2>3
  <2> QED
    BY <2>1, <2>3, <2>4, <2>6, <2>7, <2>8, <2>9, <2>10, <2>11
<1>9. CASE \E enough \in BOOLEAN : MH_CreateHook(t, enough)
  BY <1>1, <1>8, <1>9
<1>10. CASE \E works \in BOOLEAN : EnableHookLL(t, works)
  BY <1>1, <1>3, <1>10
<1> QED
  BY <1>2, <1>4, <1>5, <1>6, <1>9, <1>10 DEF LibraryStep, Library, Rewriting

\* Which functions a step of the library hooks or lets go.
LEMMA HookedAfter ==
  ASSUME Table, JobTypes, NEW t \in Threads, LibraryStep(t)
  PROVE  /\ \A f : Hooked(f)' /\ ~Hooked(f) => job.op = "create" /\ f = job.fn
         /\ \A f : Hooked(f) /\ ~Hooked(f)' => job.op = "uninit" \/ (job.op = "remove" /\ f = job.fn)
BY EntriesAfter, HookedIs DEF Stays

\* A hook that goes is gone: no entry of that function stays.
LEMMA RemovedGone ==
  ASSUME Table, JobTypes, NEW t \in Threads, MH_RemoveHook(t), job.ok
  PROVE  \A f : f = job.fn => ~Hooked(f)'
<1>1. CASE ~ (inited /\ Hooked(job.fn))
  <2>1. UNCHANGED hooks
    BY <1>1 DEF MH_RemoveHook
  <2>2. ~Hooked(job.fn)
    BY <1>1, HookedIs DEF Table, TableTypes
  <2> QED
    BY <2>1, <2>2, HookedIs
<1>2. CASE inited /\ Hooked(job.fn)
  <2>1. PICK pos \in DOMAIN hooks :
          \E old \in [DOMAIN hooks' -> DOMAIN hooks \ {pos}] : Deleted(pos, old)
    BY <1>2, EntryDeleted
  <2>2. PICK old \in [DOMAIN hooks' -> DOMAIN hooks \ {pos}] : Deleted(pos, old)
    BY <2>1
  <2>3. \A i \in DOMAIN hooks : i # pos => hooks[i].target # job.fn
    BY <2>2 DEF Deleted, Table, TableInv
  <2>4. \A i \in DOMAIN hooks' : hooks'[i].target # job.fn
    BY <2>2, <2>3 DEF Deleted
  <2> QED
    BY <2>4, HookedIs
<1> QED
  BY <1>1, <1>2
--------------------------------------------------------------------------------
\* Where threads go.

\* A place with some of its fields replaced.
LEMMA OneField ==
  ASSUME NEW p, IsPlace(p), NEW x
  PROVE  /\ [p EXCEPT !.in = x] = Place(x, p.fn, p.off, p.slot, p.via, p.late)
         /\ [p EXCEPT !.off = x] = Place(p.in, p.fn, x, p.slot, p.via, p.late)
         /\ [p EXCEPT !.slot = x] = Place(p.in, p.fn, p.off, x, p.via, p.late)
         /\ [p EXCEPT !.late = x] = Place(p.in, p.fn, p.off, p.slot, p.via, x)
BY DEF Place, IsPlace

\* The fields of a place.
LEMMA Fields ==
  ASSUME NEW in, NEW fn, NEW off, NEW slot, NEW via, NEW late
  PROVE  LET p == Place(in, fn, off, slot, via, late) IN
           /\ p.in = in /\ p.fn = fn /\ p.off = off /\ p.slot = slot /\ p.via = via /\ p.late = late
           /\ IsPlace(p)
BY DEF Place, IsPlace

\* A place with two or four of its fields replaced.
LEMMA TwoFields ==
  ASSUME NEW p, IsPlace(p), NEW in, NEW slot
  PROVE  [p EXCEPT !.in = in, !.slot = slot] = Place(in, p.fn, p.off, slot, p.via, p.late)
<1> DEFINE q == [p EXCEPT !.in = in]
<1>1. [p EXCEPT !.in = in, !.slot = slot] = [q EXCEPT !.slot = slot]
  OBVIOUS
<1>2. q = Place(in, p.fn, p.off, p.slot, p.via, p.late)
  BY OneField
<1> HIDE DEF q
<1>3. /\ IsPlace(q) /\ q.in = in /\ q.fn = p.fn /\ q.off = p.off /\ q.via = p.via /\ q.late = p.late
  BY <1>2 DEF Place, IsPlace
<1>4. [q EXCEPT !.slot = slot] = Place(q.in, q.fn, q.off, slot, q.via, q.late)
  BY <1>3, OneField
<1> QED
  BY <1>1, <1>3, <1>4

Relocated(p, in, off, slot, late) ==
  [p EXCEPT !.in = in, !.off = off, !.slot = slot, !.late = late]

\* What StepTrampoline makes of a place when it goes back to the function.
LEMMA FourFields ==
  ASSUME NEW p, IsPlace(p), NEW in, NEW off, NEW slot, NEW late
  PROVE  Relocated(p, in, off, slot, late) = Place(in, p.fn, off, slot, p.via, late)
<1> DEFINE q1 == [p EXCEPT !.in = in, !.slot = slot]
           q2 == [q1 EXCEPT !.off = off]
           q3 == [q2 EXCEPT !.late = late]
<1>1. Relocated(p, in, off, slot, late) = q3
  BY DEF Relocated
<1>2. q1 = Place(in, p.fn, p.off, slot, p.via, p.late)
  BY TwoFields
<1> HIDE DEF q1
<1>3. /\ IsPlace(q1) /\ q1.in = in /\ q1.fn = p.fn /\ q1.slot = slot /\ q1.via = p.via
      /\ q1.late = p.late
  BY <1>2 DEF Place, IsPlace
<1>4. q2 = Place(q1.in, q1.fn, off, q1.slot, q1.via, q1.late)
  BY <1>3, OneField
<1> HIDE DEF q2
<1>5. /\ IsPlace(q2) /\ q2.in = in /\ q2.fn = p.fn /\ q2.off = off /\ q2.slot = slot
      /\ q2.via = p.via
  BY <1>3, <1>4 DEF Place, IsPlace
<1>6. q3 = Place(q2.in, q2.fn, q2.off, q2.slot, q2.via, late)
  BY <1>5, OneField
<1> QED
  BY <1>1, <1>5, <1>6

\* The places outside all functions.
LEMMA FixedPlaces ==
  /\ IsPlace(Outside) /\ Outside.in = "app" /\ Outside.fn = NoFn /\ Outside.via = FALSE
  /\ IsPlace(Lost) /\ Lost.in = "lost" /\ Lost.fn = NoFn /\ Lost.via = FALSE
<1>1. /\ IsPlace(Outside) /\ Outside.in = "app" /\ Outside.fn = NoFn /\ Outside.via = FALSE
      /\ Outside.late = FALSE
  BY DEF Outside, Place, IsPlace
<1> DEFINE p == Outside
<1> HIDE DEF p
<1>2. Lost = Place("lost", p.fn, p.off, p.slot, p.via, p.late)
  BY <1>1, OneField DEF Lost, p
<1>3. IsPlace(Lost) /\ Lost.in = "lost" /\ Lost.fn = p.fn /\ Lost.via = p.via
  BY <1>2 DEF Place, IsPlace
<1> QED
  BY <1>1, <1>3 DEF p

\* How a place changes: nobody comes to exit by another way than its call, into
\* its detour but by its relay and back from its trampoline, or leaves a detour
\* with calls to make.
Moved(u) ==
  LET p == at[u]
      q == at'[u]
  IN  \/ q = p
      \/ /\ IsPlace(q)
         /\ q.fn = Exit /\ linkerBased => p.fn = Exit \/ (calls > 0 /\ Resting(Main))
         /\ q.fn = Exit /\ (q.in = "detour" \/ q.via) => Hooked(Exit)
         /\ ~ (q.in = "detour" /\ q.fn = Exit /\ q.off = 2)
         /\ p.in = "detour" => Resting(u)

Moves == at' = [u \in Threads |-> at'[u]] /\ \A u \in Threads : Moved(u)

\* MH_ALL_HOOKS is not exit.
LEMMA NotExit == NoFn # Exit
BY FnsAssumption, HooksAssumption

\* One thread goes, the others stay.
LEMMA GoMoves ==
  ASSUME PlaceInv, NEW t \in Threads, NEW p, Go(t, p), at'[t] = p => Moved(t)
  PROVE  Moves
<1>1. at' = [at EXCEPT ![t] = p] /\ DOMAIN at = Threads
  BY DEF Go, PlaceInv
<1>2. at'[t] = p /\ \A u \in Threads : u # t => at'[u] = at[u]
  BY <1>1
<1>3. at' = [u \in Threads |-> at'[u]]
  BY <1>1
<1> QED
  BY <1>2, <1>3 DEF Moved, Moves

\* Where the code leads from a place.
Follows(p, q) ==
  /\ IsPlace(q) /\ q.fn \in {NoFn, p.fn}
  /\ q.fn = Exit /\ (q.in = "detour" \/ q.via) => Hooked(Exit)
  /\ ~ (q.in = "detour" /\ q.off = 2)

\* Every step of the code follows: in the function, the jump, the relay, the
\* trampoline, and back.
LEMMA Leads ==
  ASSUME NEW p, IsPlace(p), p.fn = Exit /\ (p.in = "detour" \/ p.via) => Hooked(Exit)
  PROVE  /\ Follows(p, Lost) /\ Follows(p, Outside) /\ Follows(p, Returned(p))
         /\ SlotLive(p.fn, p.slot) => Follows(p, Place("detour", p.fn, 0, NoAddress, FALSE, FALSE))
         /\ \A off : p.in # "detour" => Follows(p, [p EXCEPT !.off = off])
         /\ \A in : in # "detour" => Follows(p, [p EXCEPT !.in = in])
         /\ \A in, slot : in # "detour" => Follows(p, [p EXCEPT !.in = in, !.slot = slot])
         /\ \A in, off, slot, late : in # "detour" =>
              Follows(p, Relocated(p, in, off, slot, late))
<1>1. Follows(p, Lost) /\ Follows(p, Outside)
  BY FixedPlaces, NotExit DEF Follows
<1>2. ASSUME NEW off, off # 2, Hooked(p.fn) \/ p.via
      PROVE  Follows(p, Place("detour", p.fn, off, NoAddress, FALSE, FALSE))
  <2> DEFINE q == Place("detour", p.fn, off, NoAddress, FALSE, FALSE)
  <2>1. IsPlace(q) /\ q.fn = p.fn /\ q.off = off
    BY DEF Place, IsPlace
  <2> HIDE DEF q
  <2>2. p.fn = Exit => Hooked(Exit)
    BY <1>2
  <2>3. Follows(p, q)
    BY <1>2, <2>1, <2>2 DEF Follows
  <2> QED
    BY <2>3 DEF q
<1>3. Follows(p, Returned(p))
  <2>1. CASE p.via
    <3>1. Returned(p) = Place("detour", p.fn, 1, NoAddress, FALSE, FALSE)
      BY <2>1 DEF Returned
    <3>2. 1 # 2
      OBVIOUS
    <3>3. Follows(p, Place("detour", p.fn, 1, NoAddress, FALSE, FALSE))
      BY <1>2, <2>1, <3>2
    <3> QED
      BY <3>1, <3>3
  <2>2. CASE ~p.via
    BY <1>1, <2>2 DEF Returned
  <2> QED
    BY <2>1, <2>2
<1>4. ASSUME SlotLive(p.fn, p.slot)
      PROVE  Follows(p, Place("detour", p.fn, 0, NoAddress, FALSE, FALSE))
  <2>1. 0 # 2 /\ Hooked(p.fn)
    BY <1>4 DEF SlotLive
  <2> QED
    BY <1>2, <2>1
<1>5. ASSUME NEW in, in # "detour", NEW off, NEW slot, NEW late
      PROVE  Follows(p, Place(in, p.fn, off, slot, p.via, late))
  <2> DEFINE q == Place(in, p.fn, off, slot, p.via, late)
  <2>1. IsPlace(q) /\ q.fn = p.fn /\ q.in = in /\ q.via = p.via
    BY DEF Place, IsPlace
  <2> HIDE DEF q
  <2>2. Follows(p, q)
    BY <1>5, <2>1 DEF Follows
  <2> QED
    BY <2>2 DEF q
<1>6. ASSUME NEW off, p.in # "detour" PROVE Follows(p, [p EXCEPT !.off = off])
  <2>1. [p EXCEPT !.off = off] = Place(p.in, p.fn, off, p.slot, p.via, p.late)
    BY OneField
  <2>2. Follows(p, Place(p.in, p.fn, off, p.slot, p.via, p.late))
    BY <1>5, <1>6
  <2> QED
    BY <2>1, <2>2
<1>7. ASSUME NEW in, in # "detour" PROVE Follows(p, [p EXCEPT !.in = in])
  <2>1. [p EXCEPT !.in = in] = Place(in, p.fn, p.off, p.slot, p.via, p.late)
    BY OneField
  <2>2. Follows(p, Place(in, p.fn, p.off, p.slot, p.via, p.late))
    BY <1>5, <1>7
  <2> QED
    BY <2>1, <2>2
<1>8. ASSUME NEW in, NEW slot, in # "detour" PROVE Follows(p, [p EXCEPT !.in = in, !.slot = slot])
  <2>1. [p EXCEPT !.in = in, !.slot = slot] = Place(in, p.fn, p.off, slot, p.via, p.late)
    BY TwoFields
  <2>2. Follows(p, Place(in, p.fn, p.off, slot, p.via, p.late))
    BY <1>5, <1>8
  <2> QED
    BY <2>1, <2>2
<1>9. ASSUME NEW in, NEW off, NEW slot, NEW late, in # "detour"
      PROVE  Follows(p, Relocated(p, in, off, slot, late))
  <2>1. Relocated(p, in, off, slot, late) = Place(in, p.fn, off, slot, p.via, late)
    BY FourFields
  <2>2. Follows(p, Place(in, p.fn, off, slot, p.via, late))
    BY <1>5, <1>9
  <2> QED
    BY <2>1, <2>2
<1> QED
  BY <1>1, <1>3, <1>4, <1>6, <1>7, <1>8, <1>9

\* What a thread runs keeps the function, and leads into a detour only where the
\* hook is or back from the original the detour called.
LEMMA StepMoves ==
  ASSUME PlaceInv, ExitInv, NEW t \in Threads, Step(t)
  PROVE  Moves
<1>1. PICK p : p = at[t]
  OBVIOUS
<1>2. IsPlace(p) /\ (p.fn = Exit /\ (p.in = "detour" \/ p.via) => Hooked(Exit))
  BY <1>1 DEF PlaceInv, ExitInv
<1>3. /\ Follows(p, Lost) /\ Follows(p, Outside) /\ Follows(p, Returned(p))
      /\ SlotLive(p.fn, p.slot) => Follows(p, Place("detour", p.fn, 0, NoAddress, FALSE, FALSE))
      /\ \A off : p.in # "detour" => Follows(p, [p EXCEPT !.off = off])
      /\ \A in : in # "detour" => Follows(p, [p EXCEPT !.in = in])
      /\ \A in, slot : in # "detour" => Follows(p, [p EXCEPT !.in = in, !.slot = slot])
      /\ \A in, off, slot, late : in # "detour" =>
           Follows(p, Relocated(p, in, off, slot, late))
  BY <1>2, Leads
<1>4. ASSUME StepTarget(t) PROVE \E q : Go(t, q) /\ Follows(p, q) /\ p.in # "detour"
  BY <1>1, <1>3, <1>4, Zenon DEF StepTarget
<1>5. ASSUME StepAbove(t) PROVE \E q : Go(t, q) /\ Follows(p, q) /\ p.in # "detour"
  BY <1>1, <1>3, <1>5, Zenon DEF StepAbove
<1>6. ASSUME StepRelay(t) PROVE \E q : Go(t, q) /\ Follows(p, q) /\ p.in # "detour"
  BY <1>1, <1>3, <1>6, Zenon DEF StepRelay
<1>7. ASSUME StepTrampoline(t) PROVE \E q : Go(t, q) /\ Follows(p, q) /\ p.in # "detour"
  BY <1>1, <1>3, <1>7, Zenon DEF StepTrampoline, Relocated
<1>8. PICK q : Go(t, q) /\ Follows(p, q) /\ p.in # "detour"
  BY <1>4, <1>5, <1>6, <1>7 DEF Step
<1>9. at'[t] = q => Moved(t)
  BY <1>1, <1>8, NotExit DEF Follows, Moved
<1> QED
  BY <1>8, <1>9, GoMoves

\* The calls rmem makes of MinHook: exit is not let go.
CallsOfRmem ==
  \A t \in Threads : owner = t =>
    \/ job.op \in {"init", "create", "enable"}
    \/ job.op = "remove" /\ job.fn \notin {NoFn, Exit}
    \/ job.op = "uninit" /\ ~linkerBased

\* A thread that is suspended stays in its function; MinHook takes a place of an
\* old trampoline for one of the function that has the slot now, but lets no
\* thread into exit that way.
LEMMA FreezeMoves ==
  ASSUME PlaceInv, ExitInv, CallsOfRmem, Table,
         NEW t \in Threads, NEW u \in Threads, Freeze(t, u)
  PROVE  Moves
<1>1. PICK p : p = at[u]
  OBVIOUS
<1>5. CASE UNCHANGED at
  BY SMTT(30), <1>5 DEF Moved, Moves, PlaceInv
<1> SUFFICES ASSUME at' # at PROVE Moves
  BY <1>5
<1>2. /\ at' = [at EXCEPT ![u] = ProcessThreadIPs(p)] /\ Pending # {} /\ owner = t
  BY <1>1 DEF Freeze
<1>3. CASE Movers(p) = {}
  <2>1. at'[u] = at[u]
    BY <1>1, <1>2, <1>3 DEF ProcessThreadIPs, PlaceInv
  <2>2. Go(u, ProcessThreadIPs(p))
    BY <1>2 DEF Go
  <2>3. Moved(u)
    BY <2>1 DEF Moved
  <2> QED
    BY <2>2, <2>3, GoMoves
<1>4. CASE Movers(p) # {}
  <2> DEFINE i == CHOOSE i \in Movers(p) : TRUE
             q == ProcessThreadIPs(p)
  <2>1. i \in Movers(p)
    BY <1>4
  <2>2. q = IF Direction(job.op, job.fn, hooks[i]) THEN FindNewIP(hooks[i], p) ELSE FindOldIP(hooks[i], p)
    BY <1>4 DEF ProcessThreadIPs
  <2> HIDE DEF i, q
  <2>3. /\ i \in DOMAIN hooks /\ job.fn \in {NoFn, hooks[i].target}
        /\ IF Direction(job.op, job.fn, hooks[i]) THEN HasNewIP(hooks[i], p) ELSE HasOldIP(hooks[i], p)
    BY <2>1 DEF Movers
  <2>4. p.in # "detour"
    BY <2>3 DEF HasNewIP, HasOldIP, InTrampoline
  <2>5. job.op \in {"remove", "enable", "disable", "uninit", "apply"}
    BY <1>2 DEF Pending
  <2>6. ASSUME hooks[i].target = Exit PROVE Direction(job.op, job.fn, hooks[i])
    <3>1. linkerBased
      BY <2>3, <2>6, TheEntry DEF ExitInv
    <3>2. job.op = "enable"
      BY <1>2, <2>3, <2>5, <2>6, <3>1 DEF CallsOfRmem
    <3> QED
      BY <3>2 DEF Direction, Wanted
  <2>7. ASSUME Direction(job.op, job.fn, hooks[i])
        PROVE  \E off, slot : q = Place("tramp", p.fn, off, slot, p.via, FALSE)
    BY <2>2, <2>3, <2>7 DEF FindNewIP, HasNewIP
  <2>8. ASSUME ~Direction(job.op, job.fn, hooks[i])
        PROVE  \E off, slot : q = Place("target", hooks[i].target, off, slot, p.via, FALSE)
                              /\ hooks[i].target # Exit
    BY <2>2, <2>3, <2>6, <2>8 DEF FindOldIP
  <2>9. \E in, fn, off, slot : /\ q = Place(in, fn, off, slot, p.via, FALSE) /\ in # "detour"
                               /\ (fn = Exit => p.fn = Exit)
    BY <2>7, <2>8
  <2>10. /\ IsPlace(q) /\ q.in # "detour" /\ (q.fn = Exit => p.fn = Exit) /\ q.via = p.via
    <3>1. PICK in, fn, off, slot : /\ q = Place(in, fn, off, slot, p.via, FALSE) /\ in # "detour"
                                   /\ (fn = Exit => p.fn = Exit)
      BY <2>9
    <3>2. IsPlace(q) /\ q.in = in /\ q.fn = fn /\ q.via = p.via
      BY <3>1 DEF Place, IsPlace
    <3> QED
      BY <3>1, <3>2
  <2>11. at'[u] = q => Moved(u)
    BY <1>1, <2>4, <2>10 DEF Moved, ExitInv
  <2>12. Go(u, q)
    BY <1>2 DEF Go, q
  <2> QED
    BY <2>11, <2>12, GoMoves
<1> QED
  BY <1>3, <1>4

\* The detour of exit begins to unhook.
ExitBegins(t) == detour_exit(t) /\ at[t].off = 0

\* A detour that calls the original.
LEMMA CallMoves ==
  ASSUME PlaceInv, ExitInv, NEW t \in Threads, at[t].in = "detour", Resting(t),
         at[t].fn = Exit => linkerBased, CallOriginal(t)
  PROVE  Moves
<1> DEFINE f == at[t].fn
           q == Place("tramp", f, 0, original[f], TRUE, code[f] = "original")
<1>1. Go(t, q)
  BY DEF CallOriginal
<1>2. q.fn = f /\ q.in = "tramp" /\ IsPlace(q)
  BY DEF Place, IsPlace
<1> HIDE DEF q
<1>3. at'[t] = q => Moved(t)
  BY <1>2 DEF Moved, ExitInv
<1> QED
  BY <1>1, <1>3, GoMoves

\* A step of the library moves threads as said.
LEMMA LibraryMoves ==
  ASSUME PlaceInv, ExitInv, CallsOfRmem, Table, NEW t \in Threads, LibraryStep(t)
  PROVE  Moves
<1>1. ASSUME NEW u \in Threads, Freeze(t, u) PROVE Moves
  BY <1>1, FreezeMoves
<1>2. ASSUME UNCHANGED at PROVE Moves
  BY SMTT(30), <1>2 DEF Moved, Moves, PlaceInv
<1>3. ASSUME \/ EnumerateThreads(t) \/ MH_Initialize(t) \/ MH_Uninitialize(t) \/ MH_RemoveHook(t)
             \/ EnableHook(t) \/ QueueHook(t)
             \/ \E u \in Threads : Unfreeze(t, u)
             \/ \E works \in BOOLEAN : EnableHookLL(t, works)
             \/ \E enough \in BOOLEAN : MH_CreateHook(t, enough)
      PROVE  UNCHANGED at
  BY <1>3 DEF EnumerateThreads, Unfreeze, EnableHookLL, MH_Initialize, MH_Uninitialize,
              MH_RemoveHook, EnableHook, QueueHook, MH_CreateHook, LeaveSpinLock
<1> QED
  BY <1>1, <1>2, <1>3 DEF LibraryStep, Library, Rewriting

\* Whatever happens but that, every thread moves as said.
LEMMA AllMove ==
  ASSUME PlaceInv, ExitInv, CallsOfRmem, Table, client = "rmem",
         [Next]_vars, \A t \in Threads : ~ExitBegins(t)
  PROVE  Moves
<1>1. CASE UNCHANGED at
  BY <1>1 DEF Moved, Moves, PlaceInv
<1>2. CASE rmemHookAllocs \/ rmemUnhookAllocs
  BY <1>1, <1>2 DEF rmemHookAllocs, rmemUnhookAllocs, minVars
<1>3. ASSUME NEW t \in Threads, Anything(t) \/ RecorderCall(t) \/ ProcessEnds(t) \/ MinHookCall(t)
      PROVE  UNCHANGED at
  BY <1>3 DEF Anything, RecorderCall, ProcessEnds, MinHookCall, EnterSpinLock, minVars
<1>4. ASSUME NEW t \in Threads, NEW f \in Fns, CallFunction(t, f)
      PROVE  Moves
  <2> DEFINE q == Place("target", f, 0, NoAddress, FALSE, FALSE)
  <2>1. Go(t, q) /\ at[t] = Outside /\ Resting(t)
        /\ (f = Exit /\ linkerBased => calls > 0 /\ Resting(Main))
    BY <1>4 DEF CallFunction, Between, Resting
  <2>2. IsPlace(q) /\ q.in = "target" /\ q.fn = f /\ q.via = FALSE
    BY DEF Place, IsPlace
  <2> HIDE DEF q
  <2>3. at'[t] = q => Moved(t)
    BY <2>1, <2>2 DEF Moved
  <2> QED
    BY <2>1, <2>3, GoMoves
<1>5. ASSUME NEW t \in Threads, Spawn(t) PROVE Moves
  <2>1. Go(t, Outside) /\ at[t] = Unborn
    BY <1>5 DEF Spawn
  <2>2. at[t].in = "unborn"
    BY <2>1 DEF Unborn, Outside, Place
  <2>3. at'[t] = Outside => Moved(t)
    BY <2>2, FixedPlaces, NotExit DEF Moved
  <2> QED
    BY <2>1, <2>3, GoMoves
<1>6. ASSUME NEW t \in Threads, Detour(t) PROVE Moves
  <2>1. /\ at[t].in = "detour" /\ Resting(t) /\ at[t].fn # Exit
        /\ Go(t, Outside) \/ CallOriginal(t)
    BY <1>6 DEF Detour, Runs, Resting
  <2>2. at'[t] = Outside => Moved(t)
    BY <2>1, FixedPlaces, NotExit DEF Moved
  <2> QED
    BY <2>1, <2>2, GoMoves, CallMoves
<1>7. ASSUME NEW t \in Threads, detour_exit(t) PROVE Moves
  <2>1. /\ at[t].in = "detour" /\ at[t].fn = Exit /\ Resting(t) /\ CallOriginal(t)
    BY <1>7 DEF detour_exit, Runs, Resting, ExitBegins
  <2>2. linkerBased
    BY <2>1 DEF ExitInv
  <2> QED
    BY <2>1, <2>2, CallMoves
<1>8. ASSUME NEW t \in Threads, LibraryStep(t) PROVE Moves
  BY <1>8, LibraryMoves
<1>9. CASE UNCHANGED vars
  BY <1>1, <1>9 DEF vars, minVars
<1> QED
  BY <1>1, <1>2, <1>3, <1>4, <1>5, <1>6, <1>7, <1>8, <1>9, StepMoves DEF Next
--------------------------------------------------------------------------------
\* The calls, and what MH_CreateHook told the caller.

\* The counts, and the call the owner is in.
LEMMA CallInvKept == HookInv /\ CallInv /\ [Next]_vars => CallInv' /\ UNCHANGED <<client, linkerBased>>
<1> SUFFICES ASSUME HookInv, CallInv, [Next]_vars
             PROVE  CallInv' /\ UNCHANGED <<client, linkerBased>>
  OBVIOUS
<1>1. UNCHANGED <<client, linkerBased>>
  BY DEF Next, vars, winVars, rmemHookAllocs, rmemUnhookAllocs, Anything, MinHookCall, RecorderCall,
         CallFunction, Spawn, Detour, detour_exit, ProcessEnds, Step, LibraryStep
<1>2. calls' \in {calls, calls + 1}
  BY ZenonT(30) DEF Next, vars, winVars, rmemHookAllocs, rmemUnhookAllocs, Anything, MinHookCall, RecorderCall,
         CallFunction, Spawn, Detour, detour_exit, ProcessEnds, Step, LibraryStep
<1>3. calls' \in Nat
  BY <1>2 DEF CallInv
<1>4. ASSUME UNCHANGED <<owner, job, fails>> PROVE CallInv'
  BY <1>1, <1>3, <1>4 DEF CallInv
<1>5. CASE UNCHANGED vars
  BY <1>1, <1>4, <1>5 DEF vars, minVars
<1>6. CASE rmemHookAllocs \/ rmemUnhookAllocs
  BY <1>4, <1>6 DEF rmemHookAllocs, rmemUnhookAllocs, minVars
<1>7. ASSUME NEW t \in Threads,
             \/ Anything(t) \/ RecorderCall(t) \/ Spawn(t) \/ Detour(t) \/ detour_exit(t)
             \/ ProcessEnds(t) \/ Step(t) \/ \E f \in Fns : CallFunction(t, f)
      PROVE  UNCHANGED <<owner, job, fails>>
  BY <1>7 DEF Anything, RecorderCall, Spawn, Detour, detour_exit, ProcessEnds, Step, CallFunction,
              minVars
<1>8. ASSUME NEW t \in Threads, MinHookCall(t) PROVE CallInv'
  <2>1. Head(todo[t]) \in ScriptCalls
    BY <1>8 DEF MinHookCall, HookInv, TodoTypes
  <2> DEFINE c == Head(todo[t])
  <2>2. /\ job' = [op |-> c.op, fn |-> c.fn, phase |-> "list", ok |-> TRUE] /\ fails' = fails
        /\ c.op \notin {"rmemInit", "rmemShutDown"}
    BY <1>8 DEF MinHookCall, EnterSpinLock
  <2>3. c.op # "none"
    BY <2>1 DEF ScriptCalls, Ops
  <2> HIDE DEF c
  <2>4. job'.ok = TRUE /\ job'.op = c.op
    BY <2>2
  <2> QED
    BY <1>1, <1>3, <2>2, <2>3, <2>4 DEF CallInv
<1>9. ASSUME NEW t \in Threads, LibraryStep(t) PROVE CallInv'
  <2>1. fails' \in Nat /\ (fails' = 0 => fails = 0)
    <3>1. fails' \in {fails, fails + 1}
      BY <1>9 DEF LibraryStep, Library, Rewriting, EnumerateThreads, Freeze, Unfreeze, EnableHookLL,
                  MH_Initialize, MH_Uninitialize, MH_RemoveHook, DeleteHookEntry, MH_CreateHook,
                  EnableHook, QueueHook
    <3>2. fails \in Nat
      BY DEF CallInv
    <3>3. fails + 1 # 0
      BY <3>2
    <3> QED
      BY SMTT(30), <3>1, <3>2, <3>3
  <2>2. CASE \/ EnumerateThreads(t) \/ \E u \in Threads : Freeze(t, u) \/ Unfreeze(t, u)
    <3>1. UNCHANGED owner /\ job'.op = job.op /\ job'.ok = job.ok
      BY <2>2 DEF EnumerateThreads, Freeze, Unfreeze, HookInv, JobTypes
    <3> QED
      BY <1>1, <1>3, <2>1, <3>1 DEF CallInv
  <2>3. ASSUME NEW works \in BOOLEAN, EnableHookLL(t, works) PROVE CallInv'
    <3>1. UNCHANGED owner /\ job'.op = job.op
      BY <2>3 DEF EnableHookLL, HookInv, JobTypes
    <3>2. fails' = 0 => job' = job
      BY <2>3 DEF EnableHookLL, CallInv
    <3> QED
      BY <1>1, <1>3, <2>1, <3>1, <3>2 DEF CallInv
  <2>4. CASE LeaveSpinLock
    <3>1. owner' = NoThread /\ job'.op = "none" /\ job'.ok = TRUE
      BY <2>4 DEF LeaveSpinLock, Idle
    <3> QED
      BY <1>1, <1>3, <2>1, <3>1, ThreadsAssumption DEF CallInv
  <2>5. ASSUME \/ MH_Initialize(t) \/ MH_Uninitialize(t) \/ MH_RemoveHook(t)
               \/ EnableHook(t) \/ QueueHook(t) \/ \E enough \in BOOLEAN : MH_CreateHook(t, enough)
        PROVE  LeaveSpinLock
    BY <2>5 DEF MH_Initialize, MH_Uninitialize, MH_RemoveHook, EnableHook, QueueHook, MH_CreateHook
  <2> QED
    BY <1>9, <2>2, <2>3, <2>4, <2>5 DEF LibraryStep, Library, Rewriting
<1> QED
  BY <1>1, <1>4, <1>5, <1>6, <1>7, <1>8, <1>9 DEF Next

\* What MH_CreateHook told the caller stays where the hook is, and MinHook has no
\* memory when it is not initialised.
LEMMA OriginalInvKept == HookInv /\ OriginalInv /\ [Next]_vars => OriginalInv'
<1> SUFFICES ASSUME HookInv, OriginalInv, [Next]_vars PROVE OriginalInv'
  OBVIOUS
<1>0. Table /\ JobTypes
  BY DEF HookInv, Table
<1>1. CASE UNCHANGED hookVars
  BY <1>1 DEF hookVars, OriginalInv
<1>2. CASE rmemHookAllocs \/ rmemUnhookAllocs \/ UNCHANGED vars
  BY <1>1, <1>2 DEF rmemHookAllocs, rmemUnhookAllocs, minVars, vars
<1>3. ASSUME NEW t \in Threads,
             \/ Anything(t) \/ RecorderCall(t) \/ Spawn(t) \/ Detour(t) \/ detour_exit(t)
             \/ ProcessEnds(t) \/ Step(t) \/ MinHookCall(t) \/ \E f \in Fns : CallFunction(t, f)
      PROVE  UNCHANGED hookVars
  BY <1>3 DEF Anything, RecorderCall, Spawn, Detour, detour_exit, ProcessEnds, Step, CallFunction,
              MinHookCall, EnterSpinLock, minVars
<1>4. ASSUME NEW t \in Threads, LibraryStep(t) PROVE OriginalInv'
  <2>1. /\ \A i \in DOMAIN hooks' :
             \/ \E j \in DOMAIN hooks : Stays(i, j)
             \/ /\ job.op = "create" /\ hooks'[i].target = job.fn
                /\ job.fn \in Executable /\ ~Hooked(job.fn)
                /\ original' = [original EXCEPT ![job.fn] = hooks'[i].slot]
        /\ \/ UNCHANGED original
           \/ /\ job.op = "create" /\ ~Hooked(job.fn)
              /\ original' = [original EXCEPT ![job.fn] = original'[job.fn]]
    BY <1>0, <1>4, EntriesAfter
  <2>2. DOMAIN original' = Fns
    BY <2>1 DEF OriginalInv
  <2>3. ASSUME NEW i \in DOMAIN hooks', NEW j \in DOMAIN hooks, Stays(i, j)
        PROVE  hooks'[i].target \in Executable /\ original'[hooks'[i].target] = hooks'[i].slot
    <3>1. hooks[j].target \in Executable /\ original[hooks[j].target] = hooks[j].slot
      BY DEF OriginalInv
    <3>2. Hooked(hooks[j].target)
      BY <1>0, TheEntry
    <3>3. original'[hooks[j].target] = original[hooks[j].target]
      <4>1. CASE UNCHANGED original
        BY <4>1
      <4>2. CASE ~Hooked(job.fn) /\ original' = [original EXCEPT ![job.fn] = original'[job.fn]]
        <5>1. hooks[j].target # job.fn
          BY <3>2, <4>2
        <5>2. hooks[j].target \in DOMAIN original
          BY <3>1, FnsAssumption DEF OriginalInv
        <5> QED
          BY <4>2, <5>1, <5>2
      <4> QED
        BY <2>1, <4>1, <4>2
    <3> QED
      BY <2>3, <3>1, <3>3 DEF Stays
  <2>4. ASSUME NEW i \in DOMAIN hooks', hooks'[i].target = job.fn, job.fn \in Executable,
               original' = [original EXCEPT ![job.fn] = hooks'[i].slot]
        PROVE  hooks'[i].target \in Executable /\ original'[hooks'[i].target] = hooks'[i].slot
    BY <2>4, FnsAssumption DEF OriginalInv
  <2>5. ~inited' => blocks' = << >>
    <3>1. CASE \/ EnumerateThreads(t) \/ EnableHook(t) \/ QueueHook(t)
               \/ \E u \in Threads : Freeze(t, u) \/ Unfreeze(t, u)
               \/ \E works \in BOOLEAN : EnableHookLL(t, works)
      <4>1. UNCHANGED <<inited, blocks>>
        BY <3>1 DEF EnumerateThreads, Freeze, Unfreeze, EnableHookLL, EnableHook, QueueHook, hookVars
      <4> QED
        BY <4>1 DEF OriginalInv
    <3>2. CASE MH_Initialize(t)
      BY <3>2 DEF MH_Initialize, OriginalInv
    <3>3. CASE MH_Uninitialize(t)
      BY <3>3 DEF MH_Uninitialize, UninitializeBuffer, OriginalInv
    <3>4. CASE MH_RemoveHook(t)
      BY <3>4 DEF MH_RemoveHook, OriginalInv
    <3>5. ASSUME NEW enough \in BOOLEAN, MH_CreateHook(t, enough) PROVE ~inited' => blocks' = << >>
      BY <3>5 DEF MH_CreateHook, OriginalInv
    <3> QED
      BY <1>4, <3>1, <3>2, <3>3, <3>4, <3>5 DEF LibraryStep, Library, Rewriting
  <2> QED
    BY <2>1, <2>2, <2>3, <2>4, <2>5 DEF OriginalInv
<1> QED
  BY <1>1, <1>2, <1>3, <1>4 DEF Next
--------------------------------------------------------------------------------
\* Threads along their scripts.

\* How a thread goes along its script.
LEMMA SameCall ==
  ASSUME NEW t, NEW s, NEW k, OnScript(t, s, k), todo'[t] = todo[t], owner' = t <=> owner = t,
         owner = t => job'.op = job.op /\ job'.fn = job.fn
  PROVE  OnScript(t, s, k)'
BY DEF OnScript

\* A call begins where the script has come to.
LEMMA CallBegins ==
  ASSUME TodoTypes, NEW t \in Threads, NEW s \in Seq(ScriptCalls), NEW k, OnScript(t, s, k),
         MinHookCall(t)
  PROVE  OnScript(t, s, k)'
<1> DEFINE n == Len(s)
<1>1. k \in 1 .. n + 1 /\ todo[t] = SubSeq(s, k, n) /\ todo[t] # << >>
  BY DEF OnScript, MinHookCall, Between
<1>2. n \in Nat /\ (k = n + 1 => todo[t] = << >>)
  BY <1>1, WholeScript
<1>3. k \in 1 .. n /\ k <= n
  BY <1>1, <1>2
<1>4. Head(todo[t]) = s[k] /\ Tail(todo[t]) = SubSeq(s, k + 1, n)
  BY <1>1, <1>3, NextCall
<1>5. owner' = t /\ job' = [op |-> s[k].op, fn |-> s[k].fn, phase |-> "list", ok |-> TRUE]
      /\ todo' = [todo EXCEPT ![t] = SubSeq(s, k + 1, n)]
  BY <1>4 DEF MinHookCall, EnterSpinLock
<1>6. todo'[t] = SubSeq(s, k + 1, n)
  BY <1>5 DEF TodoTypes
<1>7. s[k] \in ScriptCalls
  BY <1>3
<1>8. s[k] = Call(job'.op, job'.fn)
  BY <1>5, <1>7 DEF ScriptCalls, Call
<1> QED
  BY <1>1, <1>3, <1>5, <1>6, <1>8 DEF OnScript

\* The call that ends is the one of the script, which is then one call further.
LEMMA CallEnds ==
  ASSUME NEW t, NEW s, NEW k \in Nat, OnScript(t, s, k), owner = t, owner' # t, todo' = todo,
         Len(s) \in Nat
  PROVE  OnScript(t, s, k + 1)' /\ k <= Len(s) /\ k >= 1 /\ s[k] = Call(job.op, job.fn)
<1>1. k \in 1 .. Len(s) + 1 /\ k <= Len(s) /\ s[k] = Call(job.op, job.fn)
      /\ todo[t] = SubSeq(s, k + 1, Len(s))
  BY DEF OnScript
<1>2. k + 1 \in 1 .. Len(s) + 1 /\ k >= 1
  BY <1>1
<1> QED
  BY <1>1, <1>2 DEF OnScript

\* A thread that rests has its script behind it.
LEMMA ScriptThrough ==
  ASSUME NEW t, NEW s \in Seq(ScriptCalls), NEW k, OnScript(t, s, k), Resting(t)
  PROVE  k = Len(s) + 1
<1>1. k \in 1 .. Len(s) + 1 /\ SubSeq(s, k, Len(s)) = << >> /\ Len(s) \in Nat
  BY DEF OnScript, Resting
<1>2. k \in 1 .. Len(s) => FALSE
  BY <1>1, NextCall
<1> QED
  BY <1>1, <1>2

\* Who is in the library, and for what.
LEMMA OwnCalls ==
  ASSUME CallInv, NEW h, NEW w, HookShape(h, linkerBased), UnhookShape(w, linkerBased),
         Using(w) \/ \E k \in Nat : Hooking(h, k)
  PROVE  CallsOfRmem
<1> SUFFICES ASSUME NEW t \in Threads, owner = t
             PROVE  \/ job.op \in {"init", "create", "enable"}
                    \/ job.op = "remove" /\ job.fn \notin {NoFn, Exit}
                    \/ job.op = "uninit" /\ ~linkerBased
  BY DEF CallsOfRmem
<1>1. job.op \notin {"rmemInit", "rmemShutDown"}
  BY DEF CallInv
<1>2. ASSUME NEW k \in Nat, Hooking(h, k) PROVE job.op \in {"init", "create", "enable"}
  <2>1. t = Main
    BY <1>2 DEF Hooking, Resting
  <2>2. k \in 1 .. Len(h) /\ h[k] = Call(job.op, job.fn) /\ Len(h) \in Nat /\ Len(h) >= 3
    BY <1>2, <2>1 DEF Hooking, OnScript, HookShape
  <2>3. k = 1 \/ k \in 2 .. Len(h) - 2 \/ k = Len(h) - 1 \/ k = Len(h)
    BY <2>2
  <2>4. job.op = h[k].op
    BY <2>2 DEF Call
  <2>5. h[k].op \in {"init", "create", "enable", "rmemInit"}
    <3>1. k = 1 => h[k].op = "init"
      BY DEF HookShape, Call
    <3>2. ASSUME k \in 2 .. Len(h) - 2 PROVE h[k].op = "create"
      <4>1. PICK f \in Fns : h[k] = Call("create", f)
        BY <3>2 DEF HookShape
      <4> QED
        BY <4>1 DEF Call
    <3>3. k = Len(h) - 1 => h[k].op = "enable"
      BY DEF HookShape, Call
    <3>4. k = Len(h) => h[k].op = "rmemInit"
      BY DEF HookShape, Call
    <3> QED
      BY <2>3, <3>1, <3>2, <3>3, <3>4
  <2> QED
    BY <1>1, <2>4, <2>5
<1>3. ASSUME Using(w)
      PROVE  \/ job.op = "remove" /\ job.fn \notin {NoFn, Exit}
             \/ job.op = "uninit" /\ ~linkerBased
  <2>1. PICK k \in Nat : Unhooking(t, w, k)
    BY <1>3 DEF Using, Resting
  <2>2. k \in 1 .. Len(w) /\ w[k] = Call(job.op, job.fn) /\ Len(w) \in Nat
    BY <2>1 DEF Unhooking, OnScript, UnhookShape
  <2>3. k = 1 \/ k \in 2 .. Len(w)
    BY <2>2
  <2>4. job.op = w[k].op /\ job.fn = w[k].fn
    BY <2>2 DEF Call
  <2>5. k # 1
    BY <1>1, <2>4 DEF UnhookShape, Call
  <2>6. \/ \E f \in HeapAndModules : w[k] = Call("remove", f)
        \/ w[k] = Call("uninit", NoFn) /\ ~linkerBased
    BY <2>3, <2>5 DEF UnhookShape
  <2>7. \A f \in HeapAndModules : f # NoFn /\ f # Exit
    BY HooksAssumption, FnsAssumption DEF HeapAndModules
  <2>8. ASSUME NEW f \in HeapAndModules, w[k] = Call("remove", f)
        PROVE  job.op = "remove" /\ job.fn \notin {NoFn, Exit}
    <3>1. w[k].op = "remove" /\ w[k].fn = f
      BY <2>8 DEF Call
    <3> QED
      BY <2>4, <2>7, <3>1
  <2>9. w[k] = Call("uninit", NoFn) => job.op = "uninit"
    BY <2>4 DEF Call
  <2> QED
    BY <2>6, <2>8, <2>9
<1> QED
  BY <1>2, <1>3

\* rmem is between calls, or in one of its scripts h and w.
On(h, w) == Using(w) \/ \E k \in Nat : Hooking(h, k)
Facts(h, w) ==
  /\ HookInv /\ CallInv /\ OriginalInv /\ PlaceInv /\ ExitInv
  /\ client = "rmem" /\ HookShape(h, linkerBased) /\ UnhookShape(w, linkerBased)
  /\ On(h, w)

\* Threads that move as said are in places.
LEMMA PlacesKept ==
  ASSUME PlaceInv, Moves
  PROVE  PlaceInv'
BY DEF PlaceInv, Moves, Moved

\* Nobody in exit who is not on the way there already: rmem waits for its hooks.
LEMMA NobodyExits ==
  ASSUME Moves, UNCHANGED linkerBased, linkerBased => \A t \in Threads : at[t].fn # Exit,
         ~ (calls > 0 /\ Resting(Main))
  PROVE  linkerBased' => \A t \in Threads : at'[t].fn # Exit
BY DEF Moves, Moved

\* A thread unhooks before a step in which all move as said, or does not, as it
\* does after.
LEMMA UnhookersKept ==
  ASSUME Moves, UNCHANGED <<calls, owner, todo>>, NEW t \in Threads
  PROVE  /\ Unhooks(t)' => Unhooks(t)
         /\ Unhooks(t) /\ ~Unhooks(t)' => Resting(t)'
<1>1. InExit(t)' /\ at'[t].off = 2 => at'[t] = at[t]
  BY DEF Moves, Moved, InExit
<1>2. InExit(t) => at'[t] = at[t] \/ Resting(t)
  BY DEF Moves, Moved, InExit
<1>3. Resting(t) => Resting(t)'
  BY DEF Resting
<1> QED
  BY <1>1, <1>2, <1>3, Zenon DEF Unhooks, InExit

\* A step that moves threads, and in the library does not end a call or touch the
\* table, changes nothing of all this.
LEMMA QuietKeeps ==
  ASSUME NEW h, NEW w, Facts(h, w), Moves, job'.op = job.op, job'.fn = job.fn,
         UNCHANGED <<owner, inited, hooks, blocks, code, todo, calls, recording,
                     client, linkerBased>>,
         fails' = 0 => fails = 0
  PROVE  PlaceInv' /\ ExitInv' /\ On(h, w)'
<1>1. PlaceInv'
  BY PlacesKept DEF Facts
<1>2. Hooked(Exit)' <=> Hooked(Exit)
  BY HookedIs
<1>3. ExitInv'
  BY <1>2 DEF Facts, ExitInv, Moves, Moved
<1>4. \A t \in Threads : /\ \A s, k : OnScript(t, s, k) => OnScript(t, s, k)'
                         /\ Resting(t) => Resting(t)'
  BY SameCall DEF Resting
<1>5. \A s, k : /\ HookDone(s, k) => HookDone(s, k)'
                /\ UnhookDone(s, k) => UnhookDone(s, k)'
  BY HookedIs DEF HookDone, UnhookDone, Cleared
<1>6. ASSUME NEW k \in Nat, Hooking(h, k) PROVE Hooking(h, k)'
  <2>1. ~ Resting(Main)
    <3>1. OnScript(Main, h, k) /\ k <= Len(h) /\ h \in Seq(ScriptCalls) /\ Len(h) \in Nat
      BY <1>6 DEF Hooking, Facts, HookShape
    <3>2. k # Len(h) + 1
      BY <3>1
    <3> QED
      BY <3>1, <3>2, ScriptThrough
  <2>2. linkerBased' => \A t \in Threads : at'[t].fn # Exit
    BY <1>6, <2>1, NobodyExits DEF Hooking
  <2> QED
    BY <1>4, <1>5, <1>6, <2>2, MainAssumption DEF Hooking
<1>7. ASSUME Using(w) PROVE Using(w)'
  <2>1. calls' = 0 => ~recording' /\ (linkerBased' => \A t \in Threads : at'[t].fn # Exit)
    BY <1>7, NobodyExits DEF Using
  <2>2. ASSUME NEW t \in Threads, Unhooks(t)' PROVE \E k \in Nat : Unhooking(t, w, k)'
    <3>1. PICK k \in Nat : Unhooking(t, w, k)
      BY <1>7, <2>2, UnhookersKept DEF Using
    <3> QED
      BY <1>4, <1>5, <3>1 DEF Unhooking
  <2>3. ASSUME NEW t \in Threads, ~Unhooks(t)' PROVE Resting(t)'
    BY <1>4, <1>7, <2>3, UnhookersKept DEF Using
  <2>4. RecordingIntercepts => RecordingIntercepts'
    BY DEF RecordingIntercepts
  <2> QED
    BY <1>7, <2>1, <2>2, <2>3, <2>4 DEF Using
<1> QED
  BY <1>1, <1>3, <1>6, <1>7 DEF Facts, On

\* Whoever unhooks in exit does so with linker-based hooks.
LEMMA ExitUnhooks ==
  ASSUME ExitInv, NEW t \in Threads, InExit(t)
  PROVE  Hooked(Exit) /\ linkerBased /\ at[t].fn = Exit
BY DEF ExitInv, InExit

\* rmemHookAllocs begins when nobody has hooks any more, or yet.
LEMMA HookAllocsKeeps ==
  ASSUME NEW h, NEW w, Facts(h, w), h = HookAllocs(linkerBased), rmemHookAllocs
  PROVE  PlaceInv' /\ ExitInv' /\ On(h, w)'
<1>1. /\ owner # Main /\ todo[Main] = << >> /\ IF linkerBased THEN calls = 0 ELSE calls % 2 = 0
      /\ todo' = [todo EXCEPT ![Main] = h] /\ calls' = calls + 1
      /\ UNCHANGED <<owner, job, inited, hooks, blocks, code, recording, fails, at, linkerBased>>
  BY DEF rmemHookAllocs, Between, minVars, hookVars
<1>2. calls \in Nat /\ Main \in Threads /\ TodoTypes
  BY MainAssumption DEF Facts, CallInv, HookInv
<1>3. calls % 2 = 0 /\ calls' % 2 = 1
  BY <1>1, <1>2
<1>4. Using(w)
  BY <1>3 DEF Facts, On, Hooking
<1>5. ASSUME NEW t \in Threads, InExit(t) PROVE FALSE
  BY <1>1, <1>4, <1>5, ExitUnhooks DEF Facts, Using
<1>6. \A t \in Threads \ {Main} : Resting(t)
  BY <1>4, <1>5 DEF Using, Unhooks
<1>7. ~recording
  <2>1. CASE calls = 0
    BY <1>4, <2>1 DEF Using
  <2>2. CASE calls # 0
    <3>1. Unhooks(Main)
      BY <1>2, <1>3, <2>2 DEF Unhooks
    <3>2. PICK k \in Nat : Unhooking(Main, w, k)
      BY <1>2, <1>4, <3>1 DEF Using
    <3>3. k = Len(w) + 1 /\ Len(w) >= 1 /\ Len(w) \in Nat
      BY <1>1, <3>2, ScriptThrough DEF Unhooking, Resting, Facts, UnhookShape
    <3> QED
      BY <3>2, <3>3 DEF Unhooking
  <2> QED
    BY <2>1, <2>2
<1>8. todo'[Main] = h /\ \A t \in Threads \ {Main} : todo'[t] = todo[t]
  BY <1>1, <1>2 DEF TodoTypes
<1>9. h \in Seq(ScriptCalls) /\ Len(h) \in Nat /\ Len(h) >= 3
  BY DEF Facts, HookShape
<1>10. OnScript(Main, h, 1)'
  <2>1. 1 \in 1 .. Len(h) + 1
    BY <1>9
  <2>2. todo'[Main] = SubSeq(h, 1, Len(h)) /\ owner' # Main
    BY <1>1, <1>8, <1>9, WholeScript
  <2> QED
    BY <2>1, <2>2 DEF OnScript
<1>11. HookDone(h, 1)'
  <2>1. \A j \in 1 .. 1 - 1 : FALSE
    OBVIOUS
  <2>2. ~ (1 > 1)
    OBVIOUS
  <2>3. 1 # Len(h)
    <3>1. \A n \in Nat : n >= 3 => 1 # n
      OBVIOUS
    <3> QED
      BY <1>9, <3>1, Zenon
  <2> QED
    BY <2>1, <2>2, <2>3, Zenon DEF HookDone
<1>12. linkerBased => \A t \in Threads : at[t].fn # Exit
  BY <1>1, <1>4 DEF Using
<1>13. \A t \in Threads \ {Main} : Resting(t)'
  BY <1>1, <1>6, <1>8 DEF Resting
<1>14. Hooking(h, 1)'
  <2>1. 1 <= Len(h)
    BY <1>9
  <2> QED
    BY <1>1, <1>3, <1>7, <1>10, <1>11, <1>12, <1>13, <2>1 DEF Hooking
<1>15. PlaceInv' /\ ExitInv'
  <2>1. Hooked(Exit)' <=> Hooked(Exit)
    BY <1>1, HookedIs
  <2> QED
    BY <1>1, <2>1 DEF Facts, PlaceInv, ExitInv
<1> QED
  BY <1>14, <1>15 DEF On

\* A script of its own for one thread, that begins to unhook.
LEMMA BeginsUnhooking ==
  ASSUME NEW w \in Seq(ScriptCalls), NEW t \in Threads, TodoTypes, owner # t,
         todo' = [todo EXCEPT ![t] = w], UNCHANGED owner
  PROVE  Unhooking(t, w, 1)' /\ \A u \in Threads \ {t} : todo'[u] = todo[u]
<1>1. todo'[t] = w /\ \A u \in Threads \ {t} : todo'[u] = todo[u]
  BY DEF TodoTypes
<1>2. 1 \in 1 .. Len(w) + 1 /\ SubSeq(w, 1, Len(w)) = w
  BY WholeScript
<1>3. OnScript(t, w, 1)'
  BY <1>1, <1>2 DEF OnScript
<1>4. UnhookDone(w, 1)'
  BY DEF UnhookDone
<1> QED
  BY <1>1, <1>3, <1>4 DEF Unhooking

\* The others go on as before.
LEMMA OthersGoOn ==
  ASSUME NEW w, Using(w), NEW u \in Threads, todo'[u] = todo[u], owner' = u <=> owner = u,
         owner = u => job'.op = job.op /\ job'.fn = job.fn,
         recording' => recording, fails' = 0 => fails = 0,
         fails = 0 => \A k \in Nat : UnhookDone(w, k) => UnhookDone(w, k)'
  PROVE  /\ Unhooks(u) => \E k \in Nat : Unhooking(u, w, k)'
         /\ ~Unhooks(u) => Resting(u)'
<1>1. ASSUME Unhooks(u) PROVE \E k \in Nat : Unhooking(u, w, k)'
  <2>1. PICK k \in Nat : Unhooking(u, w, k)
    BY <1>1 DEF Using
  <2>2. OnScript(u, w, k)'
    BY <2>1, SameCall DEF Unhooking
  <2> QED
    BY <2>1, <2>2 DEF Unhooking
<1>2. ~Unhooks(u) => Resting(u)'
  BY DEF Using, Resting
<1> QED
  BY <1>1, <1>2

\* With the table as it is, what was done is done.
LEMMA DoneKept ==
  ASSUME UNCHANGED <<inited, hooks, blocks>>
  PROVE  \A s, k : /\ HookDone(s, k) => HookDone(s, k)'
                   /\ UnhookDone(s, k) => UnhookDone(s, k)'
BY HookedIs DEF HookDone, UnhookDone, Cleared

\* rmemUnhookAllocs begins when the hooks are there, and nobody else has a script.
LEMMA UnhookAllocsKeeps ==
  ASSUME NEW h, NEW w, Facts(h, w), w = UnhookAllocs(linkerBased), rmemUnhookAllocs
  PROVE  PlaceInv' /\ ExitInv' /\ On(h, w)'
<1>1. /\ owner # Main /\ todo[Main] = << >> /\ calls % 2 = 1
      /\ todo' = [todo EXCEPT ![Main] = w] /\ calls' = calls + 1
      /\ UNCHANGED <<owner, job, inited, hooks, blocks, code, recording, fails, at, client, linkerBased>>
  BY DEF rmemUnhookAllocs, Between, minVars, hookVars
<1>2. calls \in Nat /\ Main \in Threads /\ TodoTypes /\ w \in Seq(ScriptCalls)
  BY MainAssumption DEF Facts, CallInv, HookInv, UnhookShape
<1>3. calls > 0 /\ calls' > 0 /\ calls' % 2 = 0 /\ calls' # 0
  BY <1>1, <1>2
<1>4. Using(w)
  <2>1. ASSUME NEW k \in Nat, Hooking(h, k) PROVE FALSE
    <3>1. k = Len(h) + 1 /\ k <= Len(h) /\ Len(h) \in Nat
      BY <1>1, <2>1, ScriptThrough DEF Hooking, Resting, Facts, HookShape
    <3> QED
      BY <3>1
  <2> QED
    BY <2>1 DEF Facts, On
<1>5. Unhooking(Main, w, 1)' /\ \A u \in Threads \ {Main} : todo'[u] = todo[u]
  BY <1>1, <1>2, BeginsUnhooking
<1>6. \A u \in Threads \ {Main} : Unhooks(u)' <=> Unhooks(u)
  BY <1>1 DEF Unhooks, InExit
<1>7. ASSUME NEW u \in Threads
      PROVE  IF Unhooks(u)' THEN \E k \in Nat : Unhooking(u, w, k)' ELSE Resting(u)'
  <2>1. CASE u = Main
    <3>1. Unhooks(Main)'
      BY <1>3 DEF Unhooks
    <3> QED
      BY <1>5, <2>1, <3>1
  <2>2. CASE u # Main
    <3>1. todo'[u] = todo[u]
      BY <1>5, <2>2
    <3>2. /\ Unhooks(u) => \E k \in Nat : Unhooking(u, w, k)'
          /\ ~Unhooks(u) => Resting(u)'
      BY <1>1, <1>4, <3>1, OthersGoOn, DoneKept
    <3> QED
      BY <1>6, <2>2, <3>2
  <2> QED
    BY <2>1, <2>2
<1>8. RecordingIntercepts => RecordingIntercepts'
  BY <1>1 DEF RecordingIntercepts
<1>9. Using(w)'
  BY <1>3, <1>4, <1>7, <1>8 DEF Using
<1>10. PlaceInv' /\ ExitInv'
  <2>1. Hooked(Exit)' <=> Hooked(Exit)
    BY <1>1, HookedIs
  <2> QED
    BY <1>1, <2>1 DEF Facts, PlaceInv, ExitInv
<1> QED
  BY <1>9, <1>10 DEF On

\* A call of MinHook begins.
LEMMA MinHookCallKeeps ==
  ASSUME NEW h, NEW w, Facts(h, w), NEW t \in Threads, MinHookCall(t)
  PROVE  PlaceInv' /\ ExitInv' /\ On(h, w)'
<1>1. /\ owner = NoThread /\ owner' = t /\ todo[t] # << >>
      /\ todo' = [todo EXCEPT ![t] = Tail(@)]
      /\ UNCHANGED <<inited, hooks, blocks, code, recording, fails, at, client, linkerBased, calls>>
  BY DEF MinHookCall, EnterSpinLock, hookVars
<1>2. TodoTypes /\ NoThread \notin Threads /\ \A u \in Threads \ {t} : todo'[u] = todo[u]
  BY <1>1, ThreadsAssumption DEF Facts, HookInv, TodoTypes
<1>3. PlaceInv' /\ ExitInv'
  <2>1. Hooked(Exit)' <=> Hooked(Exit)
    BY <1>1, HookedIs
  <2> QED
    BY <1>1, <2>1 DEF Facts, PlaceInv, ExitInv
<1>4. ASSUME NEW k \in Nat, Hooking(h, k) PROVE Hooking(h, k)'
  <2>1. t = Main
    BY <1>1, <1>4 DEF Hooking, Resting
  <2>2. OnScript(Main, h, k)'
    BY <1>2, <1>4, <2>1, CallBegins DEF Hooking, Facts, HookShape
  <2>3. \A u \in Threads \ {Main} : Resting(u)'
    BY <1>1, <1>2, <1>4, <2>1 DEF Hooking, Resting
  <2>4. HookDone(h, k) => HookDone(h, k)'
    BY <1>1, DoneKept
  <2> QED
    BY <1>1, <1>4, <2>2, <2>3, <2>4 DEF Hooking
<1>5. ASSUME Using(w) PROVE Using(w)'
  <2>1. \A u \in Threads : Unhooks(u)' <=> Unhooks(u)
    BY <1>1 DEF Unhooks, InExit
  <2>2. Unhooks(t)
    BY <1>1, <1>5 DEF Using, Resting
  <2>3. \E k \in Nat : Unhooking(t, w, k)'
    <3>1. PICK k \in Nat : Unhooking(t, w, k)
      BY <1>5, <2>2 DEF Using
    <3>2. OnScript(t, w, k)'
      BY <1>2, <3>1, CallBegins DEF Unhooking, Facts, UnhookShape
    <3>3. UnhookDone(w, k) => UnhookDone(w, k)'
      BY <1>1, DoneKept
    <3> QED
      BY <1>1, <3>1, <3>2, <3>3 DEF Unhooking
  <2>4. ASSUME NEW u \in Threads
        PROVE  IF Unhooks(u)' THEN \E k \in Nat : Unhooking(u, w, k)' ELSE Resting(u)'
    <3>1. CASE u = t
      BY <2>1, <2>2, <2>3, <3>1
    <3>2. CASE u # t
      <4>1. /\ Unhooks(u) => \E k \in Nat : Unhooking(u, w, k)'
            /\ ~Unhooks(u) => Resting(u)'
        BY <1>1, <1>2, <1>5, <3>2, OthersGoOn, DoneKept
      <4> QED
        BY <2>1, <4>1
    <3> QED
      BY <3>1, <3>2
  <2>5. RecordingIntercepts => RecordingIntercepts'
    BY <1>1 DEF RecordingIntercepts
  <2> QED
    BY <1>1, <1>5, <2>4, <2>5 DEF Using
<1> QED
  BY <1>3, <1>4, <1>5 DEF Facts, On

\* The first and the last call of a script are not MinHook's.
LEMMA RecorderCalls ==
  ASSUME NEW linker, NEW s, NEW k \in 1 .. Len(s), s[k].op \in {"rmemInit", "rmemShutDown"}
  PROVE  /\ HookShape(s, linker) => k = Len(s) /\ s[k].op = "rmemInit"
         /\ UnhookShape(s, linker) => k = 1 /\ s[k].op = "rmemShutDown"
<1>1. ASSUME HookShape(s, linker) PROVE k = Len(s) /\ s[k].op = "rmemInit"
  <2>1. k = 1 \/ k \in 2 .. Len(s) - 2 \/ k = Len(s) - 1 \/ k = Len(s)
    BY <1>1 DEF HookShape
  <2>2. k = 1 => s[k].op = "init"
    BY <1>1 DEF HookShape, Call
  <2>3. ASSUME k \in 2 .. Len(s) - 2 PROVE s[k].op = "create"
    <3>1. PICK f \in Fns : s[k] = Call("create", f)
      BY <1>1, <2>3 DEF HookShape
    <3> QED
      BY <3>1 DEF Call
  <2>4. k = Len(s) - 1 => s[k].op = "enable"
    BY <1>1 DEF HookShape, Call
  <2>5. k = Len(s) => s[k].op = "rmemInit"
    BY <1>1 DEF HookShape, Call
  <2> QED
    BY <2>1, <2>2, <2>3, <2>4, <2>5
<1>2. ASSUME UnhookShape(s, linker) PROVE k = 1 /\ s[k].op = "rmemShutDown"
  <2>1. k = 1 \/ k \in 2 .. Len(s)
    BY <1>2 DEF UnhookShape
  <2>2. k = 1 => s[k].op = "rmemShutDown"
    BY <1>2 DEF UnhookShape, Call
  <2>3. ASSUME k \in 2 .. Len(s) PROVE s[k].op \in {"remove", "uninit"}
    <3>1. \/ \E f \in HeapAndModules : s[k] = Call("remove", f)
          \/ s[k] = Call("uninit", NoFn)
      BY <1>2, <2>3 DEF UnhookShape
    <3>2. ASSUME NEW f \in HeapAndModules, s[k] = Call("remove", f) PROVE s[k].op = "remove"
      BY <3>2 DEF Call
    <3>3. s[k] = Call("uninit", NoFn) => s[k].op = "uninit"
      BY DEF Call
    <3> QED
      BY <3>1, <3>2, <3>3
  <2> QED
    BY <2>1, <2>2, <2>3
<1> QED
  BY <1>1, <1>2

\* rmemInit ends the script of rmemHookAllocs, when all is hooked and enabled.
LEMMA RecorderStarts ==
  ASSUME NEW h, NEW w, Facts(h, w), NEW t \in Threads, NEW k \in Nat, Hooking(h, k), RecorderCall(t)
  PROVE  Using(w)'
<1>1. /\ owner # t /\ todo[t] # << >> /\ Head(todo[t]).op \in {"rmemInit", "rmemShutDown"}
      /\ todo' = [todo EXCEPT ![t] = Tail(@)]
      /\ UNCHANGED <<owner, inited, hooks, blocks, code, fails, at, client, linkerBased, calls>>
  BY DEF RecorderCall, Between, minVars, hookVars
<1>2. TodoTypes /\ \A u \in Threads \ {t} : todo'[u] = todo[u]
  BY <1>1 DEF Facts, HookInv, TodoTypes
<1>3. t = Main
  BY <1>1 DEF Hooking, Resting
<1>4. h \in Seq(ScriptCalls) /\ Len(h) \in Nat /\ Len(h) >= 3 /\ k \in 1 .. Len(h)
      /\ todo[Main] = SubSeq(h, k, Len(h))
  BY <1>1, <1>3 DEF Facts, HookShape, Hooking, OnScript
<1>5. Head(todo[Main]) = h[k] /\ Tail(todo[Main]) = SubSeq(h, k + 1, Len(h))
  BY <1>4, NextCall
<1>6. k = Len(h)
  BY <1>1, <1>3, <1>4, <1>5, RecorderCalls DEF Facts
<1>7. Resting(Main)'
  <2>1. SubSeq(h, k + 1, Len(h)) = << >>
    BY <1>4, <1>6, WholeScript
  <2>2. todo'[Main] = << >>
    BY <1>1, <1>2, <1>3, <1>5, <2>1, MainAssumption DEF TodoTypes
  <2> QED
    BY <1>1, <1>3, <2>2 DEF Resting
<1>8. ASSUME NEW u \in Threads PROVE ~Unhooks(u)' /\ Resting(u)'
  <2>1. Resting(u)'
    BY <1>1, <1>2, <1>3, <1>7 DEF Hooking, Resting
  <2>2. ~ InExit(u)
    BY ExitUnhooks DEF Facts, Hooking
  <2> QED
    BY <1>1, <2>1, <2>2 DEF Hooking, Unhooks, InExit
<1>9. calls' # 0
  <2>1. calls % 2 = 1 /\ calls \in Nat
    BY DEF Hooking, Facts, CallInv
  <2> QED
    BY <1>1, <2>1
<1>10. ASSUME Roomy, fails = 0, NEW f \in HeapAndModules, f \in Executable
       PROVE  code[f] = "patched"
  <2>1. HookDone(h, Len(h))
    BY <1>6, <1>10 DEF Hooking
  <2>2. PICK j \in 2 .. Len(h) - 2 : h[j] = Call("create", f)
    BY <1>10 DEF Facts, HookShape
  <2>3. j \in 1 .. Len(h) - 1 /\ h[j].op = "create" /\ h[j].fn = f
    <3>1. h[j].op = "create" /\ h[j].fn = f
      BY <2>2 DEF Call
    <3> QED
      BY <1>4, <3>1
  <2>4. Hooked(f)
    BY <1>10, <2>1, <2>3 DEF HookDone
  <2>5. PICK i \in DOMAIN hooks : hooks[i].target = f
    BY <2>4, HookedIs
  <2>6. hooks[i].isEnabled
    BY <2>1 DEF HookDone
  <2>7. f \in Fns
    BY <1>10, FnsAssumption
  <2> QED
    BY <2>5, <2>6, <2>7 DEF Facts, HookInv, TableInv
<1>11. Roomy => RecordingIntercepts'
  BY <1>1, <1>10 DEF RecordingIntercepts, HeapAndModules
<1> QED
  BY <1>8, <1>9, <1>11 DEF Using

\* rmemShutDown comes first in that of rmemUnhookAllocs.
LEMMA RecorderStops ==
  ASSUME NEW h, NEW w, Facts(h, w), NEW t \in Threads, Using(w), RecorderCall(t)
  PROVE  Using(w)'
<1>1. /\ owner # t /\ todo[t] # << >> /\ Head(todo[t]).op \in {"rmemInit", "rmemShutDown"}
      /\ todo' = [todo EXCEPT ![t] = Tail(@)]
      /\ recording' = (Head(todo[t]).op = "rmemInit")
      /\ UNCHANGED <<owner, job, inited, hooks, blocks, code, fails, at, client, linkerBased, calls>>
  BY DEF RecorderCall, Between, minVars, hookVars
<1>2. TodoTypes /\ \A u \in Threads \ {t} : todo'[u] = todo[u]
  BY <1>1 DEF Facts, HookInv, TodoTypes
<1>3. PICK k \in Nat : Unhooking(t, w, k)
  BY <1>1 DEF Using, Resting
<1>4. w \in Seq(ScriptCalls) /\ Len(w) \in Nat /\ k \in 1 .. Len(w) + 1
      /\ todo[t] = SubSeq(w, k, Len(w))
  BY <1>1, <1>3 DEF Facts, UnhookShape, Unhooking, OnScript
<1>5. k \in 1 .. Len(w)
  <2>1. k # Len(w) + 1
    BY <1>1, <1>4, WholeScript
  <2> QED
    BY <1>4, <2>1
<1>6. Head(todo[t]) = w[k] /\ Tail(todo[t]) = SubSeq(w, k + 1, Len(w))
  BY <1>4, <1>5, NextCall
<1>7. k = 1 /\ Head(todo[t]).op = "rmemShutDown"
  BY <1>1, <1>5, <1>6, RecorderCalls DEF Facts
<1>8. ~ recording'
  BY <1>1, <1>7
<1>9. todo'[t] = SubSeq(w, 2, Len(w))
  BY <1>1, <1>2, <1>6, <1>7 DEF TodoTypes
<1>10. Unhooking(t, w, 2)'
  <2>1. 2 \in 1 .. Len(w) + 1
    BY <1>4, <1>5
  <2>2. OnScript(t, w, 2)'
    BY <1>1, <1>9, <2>1 DEF OnScript
  <2>3. w[1].op \notin {"remove", "uninit"}
    BY <1>6, <1>7
  <2>4. UnhookDone(w, 2)'
    BY <2>3 DEF UnhookDone
  <2> QED
    BY <1>8, <2>2, <2>4 DEF Unhooking
<1>11. \A u \in Threads : Unhooks(u)' <=> Unhooks(u)
  BY <1>1 DEF Unhooks, InExit
<1>12. Unhooks(t)
  BY <1>1 DEF Using, Resting
<1>13. ASSUME NEW u \in Threads
       PROVE  IF Unhooks(u)' THEN \E i \in Nat : Unhooking(u, w, i)' ELSE Resting(u)'
  <2>1. CASE u = t
    BY <1>10, <1>11, <1>12, <2>1
  <2>2. CASE u # t
    <3>1. /\ Unhooks(u) => \E i \in Nat : Unhooking(u, w, i)'
          /\ ~Unhooks(u) => Resting(u)'
      BY <1>1, <1>2, <1>8, <2>2, OthersGoOn, DoneKept
    <3> QED
      BY <1>11, <3>1
  <2> QED
    BY <2>1, <2>2
<1>14. RecordingIntercepts'
  BY <1>8 DEF RecordingIntercepts
<1> QED
  BY <1>1, <1>8, <1>13, <1>14 DEF Using

\* A call of the recorder, in either script.
LEMMA RecorderKeeps ==
  ASSUME NEW h, NEW w, Facts(h, w), NEW t \in Threads, RecorderCall(t)
  PROVE  PlaceInv' /\ ExitInv' /\ On(h, w)'
<1>1. Using(w)'
  BY RecorderStarts, RecorderStops DEF Facts, On
<1>2. UNCHANGED <<at, hooks, linkerBased>>
  BY DEF RecorderCall, minVars, hookVars
<1>3. Hooked(Exit)' <=> Hooked(Exit)
  BY <1>2, HookedIs
<1> QED
  BY <1>1, <1>2, <1>3 DEF Facts, PlaceInv, ExitInv, On

\* The detour of exit begins to unhook, whoever else does.
LEMMA ExitKeeps ==
  ASSUME NEW h, NEW w, Facts(h, w), w = UnhookAllocs(linkerBased), NEW t \in Threads, ExitBegins(t)
  PROVE  PlaceInv' /\ ExitInv' /\ On(h, w)'
<1>1. /\ owner # t /\ InExit(t) /\ todo[t] = << >>
      /\ at' = [at EXCEPT ![t] = [at[t] EXCEPT !.off = 2]] /\ todo' = [todo EXCEPT ![t] = w]
      /\ UNCHANGED <<owner, job, inited, hooks, blocks, code, recording, fails, client, linkerBased, calls>>
  BY DEF ExitBegins, detour_exit, Go, InExit, Runs, hookVars
<1>2. TodoTypes /\ w \in Seq(ScriptCalls) /\ PlaceInv
  BY DEF Facts, HookInv, UnhookShape
<1>3. Hooked(Exit) /\ linkerBased /\ at[t].fn = Exit
  BY <1>1, ExitUnhooks DEF Facts
<1>4. Using(w) /\ calls # 0
  BY <1>3 DEF Facts, On, Hooking, Using
<1>5. Unhooking(t, w, 1)' /\ \A u \in Threads \ {t} : todo'[u] = todo[u]
  BY <1>1, <1>2, BeginsUnhooking
<1> DEFINE p == at[t]
           q == [p EXCEPT !.off = 2]
<1>6. IsPlace(q) /\ q.in = p.in /\ q.fn = p.fn /\ q.via = p.via /\ q.off = 2
  <2>1. IsPlace(p)
    BY <1>2 DEF PlaceInv
  <2>2. q = Place(p.in, p.fn, 2, p.slot, p.via, p.late)
    BY <2>1, OneField
  <2> HIDE DEF p, q
  <2> QED
    BY <2>2 DEF Place, IsPlace
<1>7. at' = [at EXCEPT ![t] = q]
  BY <1>1
<1> HIDE DEF q
<1>8. at'[t] = q /\ at' = [u \in Threads |-> at'[u]] /\ \A u \in Threads \ {t} : at'[u] = at[u]
  <2>1. DOMAIN at = Threads
    BY <1>2 DEF PlaceInv
  <2> QED
    BY <1>7, <2>1
<1>9. PlaceInv'
  BY <1>2, <1>6, <1>8 DEF PlaceInv
<1>10. ExitInv'
  <2>1. Hooked(Exit)'
    BY <1>1, <1>3, HookedIs
  <2> QED
    BY <1>1, <1>3, <2>1 DEF ExitInv
<1>11. Unhooks(t)'
  BY <1>1, <1>6, <1>8 DEF Unhooks, InExit
<1>12. \A u \in Threads \ {t} : Unhooks(u)' <=> Unhooks(u)
  BY <1>1, <1>8 DEF Unhooks, InExit
<1>13. ASSUME NEW u \in Threads
       PROVE  IF Unhooks(u)' THEN \E i \in Nat : Unhooking(u, w, i)' ELSE Resting(u)'
  <2>1. CASE u = t
    BY <1>5, <1>11, <2>1
  <2>2. CASE u # t
    <3>1. /\ Unhooks(u) => \E i \in Nat : Unhooking(u, w, i)'
          /\ ~Unhooks(u) => Resting(u)'
      BY <1>1, <1>4, <1>5, <2>2, OthersGoOn, DoneKept
    <3> QED
      BY <1>12, <2>2, <3>1
  <2> QED
    BY <2>1, <2>2
<1>14. RecordingIntercepts => RecordingIntercepts'
  BY <1>1 DEF RecordingIntercepts
<1>15. Using(w)'
  BY <1>1, <1>4, <1>13, <1>14 DEF Using
<1> QED
  BY <1>9, <1>10, <1>15 DEF On
--------------------------------------------------------------------------------
\* Room for every trampoline.

\* AllocateBuffer has no slot only when it needs a new block and finds no region.
LEMMA NoSlot ==
  ASSUME NEW bs, Sound(bs), NEW origin \in Nat, AllocateBuffer(bs, origin).slot = NoAddress
  PROVE  /\ \A i \in DOMAIN bs : InReach(bs[i], origin) => bs[i].free = << >>
         /\ RegionFor(bs, origin) = NoAddress
<1> DEFINE buffer == AllocateBuffer(bs, origin)
           found == GetMemoryBlock(bs, origin)
           ready == {i \in DOMAIN bs : InReach(bs[i], origin) /\ bs[i].free # << >>}
<1>1. found.at = 0
  <2> SUFFICES ASSUME found.at # 0 PROVE FALSE
    OBVIOUS
  <2> DEFINE block == found.blocks[found.at]
  <2>1. /\ found.at \in DOMAIN found.blocks /\ BlockOK(block) /\ block.free # << >>
    BY GetMemoryBlockGives
  <2>2. buffer.slot = Head(block.free)
    BY DEF AllocateBuffer
  <2> HIDE DEF block, found, buffer
  <2>3. block.free \in Seq(Nat) /\ block.base \in Nat
    BY <2>1 DEF BlockOK, Blocks
  <2>4. Head(block.free) \in ToSet(block.free)
    BY <2>1, <2>3 DEF ToSet
  <2>5. Head(block.free) \in block.base + 1 .. block.base + BlockSlots - 1
    BY <2>1, <2>4 DEF BlockOK, SlotsOf
  <2>6. Head(block.free) # NoAddress
    BY <2>3, <2>5 DEF NoAddress
  <2> QED
    BY <2>2, <2>6 DEF buffer
<1>2. ready = {}
  <2> SUFFICES ASSUME ready # {} PROVE FALSE
    OBVIOUS
  <2>1. ready \in SUBSET Nat
    BY DEF Sound
  <2>2. (CHOOSE i \in ready : \A j \in ready : i <= j) \in ready
    <3> HIDE DEF ready
    <3> QED BY <2>1, LeastNatural
  <2>3. found.at \in ready
    BY <2>2 DEF GetMemoryBlock
  <2>4. 0 \notin DOMAIN bs
    BY DEF Sound
  <2> QED
    BY <1>1, <2>3, <2>4
<1>3. RegionFor(bs, origin) = NoAddress
  <2> SUFFICES ASSUME RegionFor(bs, origin) # NoAddress PROVE FALSE
    OBVIOUS
  <2>1. found = [blocks |-> <<NewBlock(RegionFor(bs, origin))>> \o bs, at |-> 1]
    BY <1>2 DEF GetMemoryBlock
  <2> QED
    BY <1>1, <2>1
<1> QED
  BY <1>2, <1>3

\* Then every slot it might use is in use.
LEMMA AllNearInUse ==
  ASSUME NEW bs, Sound(bs), NEW f \in Fns, AllocateBuffer(bs, Address[f]).slot = NoAddress
  PROVE  SlotsNear(f) \subseteq SlotsInUse(bs)
<1> DEFINE origin == Address[f]
           base == origin - (origin % Granularity)
<1>1. origin \in Nat
  BY AddressAssumption
<1>2. /\ \A i \in DOMAIN bs : InReach(bs[i], origin) => bs[i].free = << >>
      /\ RegionFor(bs, origin) = NoAddress
  BY <1>1, NoSlot
<1>3. /\ FindPrevFreeRegions(bs, origin) \ Refused = {}
      /\ FindNextFreeRegions(bs, origin) \ Refused = {}
  <2> DEFINE prev == FindPrevFreeRegions(bs, origin) \ Refused
             next == FindNextFreeRegions(bs, origin) \ Refused
  <2>1. prev \in SUBSET Granules /\ next \in SUBSET Granules
    BY DEF FindPrevFreeRegions, FindNextFreeRegions
  <2>2. NoAddress \notin Granules
    BY GranuleDivides DEF NoAddress
  <2>3. RegionFor(bs, origin) =
          IF prev # {} THEN CHOOSE g \in prev : \A h \in prev : h <= g
          ELSE IF next # {} THEN CHOOSE g \in next : \A h \in next : g <= h
          ELSE NoAddress
    BY DEF RegionFor
  <2> HIDE DEF prev, next
  <2>4. prev # {} => (CHOOSE g \in prev : \A h \in prev : h <= g) \in prev
    BY <2>1, GranuleExtremes
  <2>5. next # {} => (CHOOSE g \in next : \A h \in next : g <= h) \in next
    BY <2>1, GranuleExtremes
  <2>6. prev = {} /\ next = {}
    BY <1>2, <2>1, <2>2, <2>3, <2>4, <2>5
  <2> QED
    BY <2>6 DEF prev, next
<1>4. ASSUME NEW g \in Granules \ (Taken \cup Refused), LowestFor(origin) <= g, g < HighestFor(origin),
             g # base, NEW s \in g + 1 .. g + BlockSlots - 1
      PROVE  s \in SlotsInUse(bs)
  <2>1. g \in Nat /\ base \in Nat
    BY <1>1, <1>4, GranuleDivides, Rounded
  <2>2. g < base \/ base < g
    BY <1>4, <2>1
  <2>3. HighestFor(origin) \in Int
    BY <1>1, AppAssumption, RangeAssumption, BlockAssumption DEF HighestFor
  <2>4. g <= HighestFor(origin)
    BY <1>4, <2>1, <2>3
  <2>5. ~ IsFree(bs, g)
    BY <1>3, <1>4, <2>2, <2>4 DEF FindPrevFreeRegions, FindNextFreeRegions
  <2>6. PICK i \in DOMAIN bs : bs[i].base = g
    BY <1>4, <2>5 DEF IsFree
  <2>7. bs[i].free = << >>
    BY <1>2, <1>4, <2>6 DEF InReach
  <2>8. s \in UsedOf(bs[i])
    BY <1>4, <2>6, <2>7 DEF UsedOf, SlotsOf, ToSet
  <2> QED
    BY <2>8, SlotsInUseAre
<1> QED
  BY <1>4 DEF SlotsNear

\* So MH_CreateHook finds a slot where there is room for all functions.
LEMMA RoomForOne ==
  ASSUME Table, OriginalInv, Roomy, NEW f \in Executable, ~Hooked(f)
  PROVE  AllocateBuffer(blocks, Address[f]).slot # NoAddress
<1> SUFFICES ASSUME AllocateBuffer(blocks, Address[f]).slot = NoAddress PROVE FALSE
  OBVIOUS
<1> DEFINE used == SlotsInUse(blocks)
           others == Executable \ {f}
           HookAt(s) == CHOOSE i \in DOMAIN hooks : hooks[i].slot = s
           functionOf == [s \in used |-> hooks[HookAt(s)].target]
<1>1. SlotsNear(f) \subseteq used
  BY FnsAssumption, AllNearInUse DEF Table, SlotInv
<1>2. \A s \in used : HookAt(s) \in DOMAIN hooks /\ hooks[HookAt(s)].slot = s
  BY DEF Table, SlotInv
<1>3. \A i \in DOMAIN hooks : hooks[i].target \in others
  BY HookedIs DEF OriginalInv
<1> HIDE DEF HookAt
<1>4. functionOf \in Injection(used, others)
  <2>1. functionOf \in [used -> others]
    BY <1>2, <1>3
  <2>2. \A s, r \in used : functionOf[s] = functionOf[r] => s = r
    BY <1>2 DEF Table, TableInv
  <2> HIDE DEF functionOf, used, others
  <2> QED
    BY <2>1, <2>2 DEF Injection, IsInjective
<1>5. IsFiniteSet(Executable) /\ Cardinality(Executable) <= Cardinality(SlotsNear(f))
      /\ Cardinality(Executable) \in Nat
  <2>1. IsFiniteSet(Executable) /\ Cardinality(SlotsNear(f)) >= Cardinality(Executable)
    BY DEF Roomy
  <2>2. IsFiniteSet(SlotsNear(f))
    <3>1. IsFiniteSet(others)
      BY <2>1, FS_RemoveElement
    <3>2. IsFiniteSet(used)
      BY <1>4, <3>1, FS_Injection
    <3> QED
      BY <1>1, <3>2, FS_Subset
  <2>3. Cardinality(Executable) \in Nat /\ Cardinality(SlotsNear(f)) \in Nat
    BY <2>1, <2>2, FS_CardinalityType
  <2> QED
    BY <2>1, <2>3
<1>6. IsFiniteSet(others) /\ Cardinality(others) = Cardinality(Executable) - 1
  BY <1>5, FS_RemoveElement
<1> HIDE DEF functionOf, used, others
<1>7. IsFiniteSet(used) /\ Cardinality(used) <= Cardinality(others)
  BY <1>4, <1>6, FS_Injection
<1>8. IsFiniteSet(SlotsNear(f)) /\ Cardinality(SlotsNear(f)) <= Cardinality(used)
  BY <1>1, <1>7, FS_Subset
<1>9. Cardinality(used) \in Nat /\ Cardinality(SlotsNear(f)) \in Nat
  BY <1>7, <1>8, FS_CardinalityType
<1> QED
  BY <1>5, <1>6, <1>7, <1>8, <1>9
--------------------------------------------------------------------------------
\* Steps of the library.

\* The owner of the lock is in rmemHookAllocs, before rmemInit.
LEMMA HookingCall ==
  ASSUME NEW h, NEW w, Facts(h, w), NEW t \in Threads, owner = t, NEW k \in Nat, Hooking(h, k)
  PROVE  /\ t = Main /\ k \in 1 .. Len(h) - 1 /\ h[k] = Call(job.op, job.fn)
         /\ h[k].op = job.op /\ h[k].fn = job.fn
<1>1. t = Main
  BY DEF Hooking, Resting
<1>2. k \in 1 .. Len(h) /\ h[k] = Call(job.op, job.fn) /\ Len(h) \in Nat
  BY <1>1 DEF Hooking, OnScript, Facts, HookShape
<1>3. h[k].op = job.op /\ h[k].fn = job.fn
  BY <1>2 DEF Call
<1>4. k # Len(h)
  BY <1>3 DEF Facts, HookShape, Call, CallInv
<1> QED
  BY <1>1, <1>2, <1>3, <1>4

\* The owner of the lock is in rmemUnhookAllocs, past rmemShutDown.
LEMMA UnhookingCall ==
  ASSUME NEW h, NEW w, Facts(h, w), NEW t \in Threads, owner = t, Using(w)
  PROVE  \E k \in 2 .. Len(w) :
           /\ Unhooking(t, w, k) /\ w[k] = Call(job.op, job.fn)
           /\ w[k].op = job.op /\ w[k].fn = job.fn
<1>1. PICK k \in Nat : Unhooking(t, w, k)
  BY DEF Using, Resting
<1>2. k \in 1 .. Len(w) /\ w[k] = Call(job.op, job.fn) /\ Len(w) \in Nat
  BY <1>1 DEF Unhooking, OnScript, Facts, UnhookShape
<1>3. w[k].op = job.op /\ w[k].fn = job.fn
  BY <1>2 DEF Call
<1>4. k # 1
  BY <1>3 DEF Facts, UnhookShape, Call, CallInv
<1>5. k \in 2 .. Len(w)
  BY <1>2, <1>4
<1> QED
  BY <1>1, <1>2, <1>3, <1>5

\* exit is hooked with linker-based hooks only, and for good.
LEMMA ExitStaysHooked ==
  ASSUME NEW h, NEW w, Facts(h, w), NEW t \in Threads, owner = t, LibraryStep(t)
  PROVE  PlaceInv' /\ ExitInv'
<1>1. CallsOfRmem /\ Table /\ JobTypes /\ UNCHANGED linkerBased
  BY OwnCalls DEF Facts, On, HookInv, Table, LibraryStep, winVars
<1>2. Moves /\ PlaceInv'
  BY <1>1, LibraryMoves, PlacesKept DEF Facts
<1>3. Hooked(Exit) => Hooked(Exit)'
  BY <1>1, HookedAfter DEF CallsOfRmem, Facts, ExitInv
<1>4. ASSUME job.op = "create", job.fn = Exit PROVE linkerBased
  <2>1. ASSUME NEW k \in Nat, Hooking(h, k) PROVE linkerBased
    <3>1. k \in 1 .. Len(h) - 1 /\ h[k].op = "create" /\ h[k].fn = Exit /\ Len(h) \in Nat
      BY <1>4, <2>1, HookingCall DEF Facts, HookShape
    <3>2. k = 1 \/ k \in 2 .. Len(h) - 2 \/ k = Len(h) - 1
      BY <3>1
    <3>3. k # 1 /\ k # Len(h) - 1
      BY <3>1 DEF Facts, HookShape, Call
    <3>4. PICK f \in Fns : h[k] = Call("create", f) /\ (f = Exit => linkerBased)
      BY <3>2, <3>3 DEF Facts, HookShape
    <3> QED
      BY <3>1, <3>4 DEF Call
  <2>2. ~ Using(w)
    <3>1. ASSUME Using(w), NEW k \in 2 .. Len(w), w[k].op = "create" PROVE FALSE
      <4>1. ASSUME NEW f, w[k] = Call("remove", f) PROVE FALSE
        BY <3>1, <4>1 DEF Call
      <4>2. w[k] # Call("uninit", NoFn)
        BY <3>1 DEF Call
      <4> QED
        BY <4>1, <4>2 DEF Facts, UnhookShape
    <3> QED
      BY <1>4, <3>1, UnhookingCall
  <2> QED
    BY <2>1, <2>2 DEF Facts, On
<1>5. Hooked(Exit)' => linkerBased'
  BY <1>1, <1>4, HookedAfter DEF Facts, ExitInv
<1> QED
  BY <1>1, <1>2, <1>3, <1>5 DEF Facts, ExitInv, Moves, Moved

\* What MinHook's own state shows of a call in progress, and of one that ends.
LEMMA InitedAfter ==
  ASSUME NEW t \in Threads, LibraryStep(t)
  PROVE  /\ inited => inited' \/ job.op = "uninit"
         /\ owner' # t /\ job.op = "init" /\ fails \in Nat /\ fails' = 0 => inited'
<1>1. ASSUME Rewriting(t) PROVE owner' = owner /\ inited' = inited /\ owner = t
  BY <1>1 DEF Rewriting, EnumerateThreads, Freeze, Unfreeze, EnableHookLL, hookVars
<1>2. ASSUME MH_Initialize(t)
      PROVE  (inited => inited') /\ (fails \in Nat /\ fails' = 0 => inited')
  BY <1>2 DEF MH_Initialize
<1>3. ASSUME \/ MH_RemoveHook(t) \/ EnableHook(t) \/ QueueHook(t)
             \/ \E enough \in BOOLEAN : MH_CreateHook(t, enough)
      PROVE  inited' = inited /\ job.op # "init"
  BY <1>3 DEF MH_RemoveHook, MH_CreateHook, EnableHook, QueueHook, Ready, hookVars
<1>4. ASSUME MH_Uninitialize(t) PROVE job.op = "uninit"
  BY SMTT(30), <1>4 DEF MH_Uninitialize, Ready
<1> QED
  BY <1>1, <1>2, <1>3, <1>4 DEF LibraryStep, Library

\* A call that ends is in its last step.
LEMMA CallOver ==
  ASSUME NEW t \in Threads, LibraryStep(t), owner' # t
  PROVE  /\ owner = t /\ owner' = NoThread /\ UNCHANGED <<at, code>>
         /\ \/ MH_Initialize(t) \/ MH_Uninitialize(t) \/ MH_RemoveHook(t)
            \/ EnableHook(t) \/ QueueHook(t) \/ \E enough \in BOOLEAN : MH_CreateHook(t, enough)
<1>1. ~Rewriting(t)
  BY DEF Rewriting, EnumerateThreads, Freeze, Unfreeze, EnableHookLL
<1>2. \/ MH_Initialize(t) \/ MH_Uninitialize(t) \/ MH_RemoveHook(t)
      \/ EnableHook(t) \/ QueueHook(t) \/ \E enough \in BOOLEAN : MH_CreateHook(t, enough)
  BY <1>1 DEF LibraryStep, Library
<1> QED
  BY <1>2 DEF MH_Initialize, MH_Uninitialize, MH_RemoveHook, EnableHook, QueueHook, MH_CreateHook,
              LeaveSpinLock, Ready

\* rmemHookAllocs: what is done stays done, and the call that ends is done.
LEMMA HookDoneKept ==
  ASSUME NEW h, NEW w, Facts(h, w), NEW t \in Threads, owner = t, LibraryStep(t),
         NEW k \in Nat, Hooking(h, k), HookDone(h, k)
  PROVE  /\ k > 1 => inited'
         /\ \A j \in 1 .. k - 1 :
              Roomy /\ h[j].op = "create" /\ h[j].fn \in Executable => Hooked(h[j].fn)'
<1>1. job.op \in {"init", "create", "enable"}
  <2>1. k \in 1 .. Len(h) - 1 /\ h[k].op = job.op /\ Len(h) \in Nat
    BY HookingCall DEF Facts, HookShape
  <2>2. k = 1 \/ k \in 2 .. Len(h) - 2 \/ k = Len(h) - 1
    BY <2>1
  <2>3. ASSUME k \in 2 .. Len(h) - 2 PROVE h[k].op = "create"
    <3>1. PICK f \in Fns : h[k] = Call("create", f)
      BY <2>3 DEF Facts, HookShape
    <3> QED
      BY <3>1 DEF Call
  <2> QED
    BY <2>1, <2>2, <2>3 DEF Facts, HookShape, Call
<1>2. \A f : Hooked(f) => Hooked(f)'
  BY <1>1, HookedAfter DEF Facts, HookInv, Table
<1>3. inited => inited'
  BY <1>1, InitedAfter
<1> QED
  BY <1>2, <1>3 DEF HookDone

\* MH_CreateHook of a function that exists, with room for it and no failure.
LEMMA CreatedHook ==
  ASSUME NEW h, NEW w, Facts(h, w), NEW t \in Threads, LibraryStep(t), owner' # t, job.op = "create",
         inited, Roomy, job.fn \in Executable, fails' = 0
  PROVE  \A f : f = job.fn => Hooked(f)'
<1> SUFFICES ASSUME NEW f, f = job.fn PROVE Hooked(f)'
  OBVIOUS
<1> DEFINE buffer == AllocateBuffer(blocks, Address[f])
<1>1. PICK enough \in BOOLEAN : MH_CreateHook(t, enough)
  BY CallOver DEF MH_Initialize, MH_Uninitialize, MH_RemoveHook, EnableHook, QueueHook, Ready
<1>2. CASE Hooked(f)
  <2>1. UNCHANGED hooks
    BY <1>1, <1>2 DEF MH_CreateHook
  <2> QED
    BY <1>2, <2>1, HookedIs
<1>3. CASE ~Hooked(f)
  <2>1. buffer.slot # NoAddress
    BY <1>3, RoomForOne DEF Facts, HookInv, Table
  <2>2. TrampolineOf[f].ok
    BY DEF Roomy
  <2>3. enough
    <3>1. fails \in Nat
      BY DEF Facts, CallInv
    <3>2. fails + 1 # 0
      BY <3>1
    <3> QED
      BY <1>1, <3>2 DEF MH_CreateHook
  <2> DEFINE entry == [target |-> f, slot |-> buffer.slot, ct |-> TrampolineOf[f],
                       isEnabled |-> FALSE, queueEnable |-> FALSE]
  <2>4. hooks' = Append(hooks, entry)
    BY <1>1, <1>3, <2>1, <2>2, <2>3 DEF MH_CreateHook, AddHookEntry
  <2>5. entry.target = f
    OBVIOUS
  <2> HIDE DEF entry, buffer
  <2>6. Len(hooks) \in Nat /\ hooks = [i \in 1 .. Len(hooks) |-> hooks[i]]
    BY DEF Facts, HookInv, TableTypes
  <2>7. Len(hooks) + 1 \in DOMAIN hooks' /\ hooks'[Len(hooks) + 1] = entry
    BY <2>4, <2>6
  <2> QED
    BY <2>5, <2>7, HookedIs
<1> QED
  BY <1>2, <1>3

\* The call of rmemHookAllocs that ends has done what it is for.
LEMMA HookDoneGrows ==
  ASSUME NEW h, NEW w, Facts(h, w), NEW t \in Threads, LibraryStep(t), owner' # t, fails' = 0, fails = 0,
         NEW k \in Nat, Hooking(h, k)
  PROVE  HookDone(h, k + 1)'
<1>1. owner = t /\ HookDone(h, k)
  BY CallOver DEF Hooking
<1>2. k \in 1 .. Len(h) - 1 /\ h[k].op = job.op /\ h[k].fn = job.fn /\ Len(h) \in Nat
  BY <1>1, HookingCall DEF Facts, HookShape
<1>3. k > 1 => inited /\ inited'
  BY <1>1, HookDoneKept DEF HookDone
<1>4. k = 1 \/ k > 1
  BY <1>2
<1>5. inited'
  <2>1. k = 1 => job.op = "init"
    BY <1>2 DEF Facts, HookShape, Call
  <2> QED
    BY <1>3, <1>4, <2>1, InitedAfter DEF Facts, CallInv
<1>6. ASSUME NEW j \in 1 .. (k + 1) - 1, Roomy, h[j].op = "create", h[j].fn \in Executable
      PROVE  Hooked(h[j].fn)'
  <2>1. CASE j = k
    <3>1. k # 1
      BY <1>6, <2>1 DEF Facts, HookShape, Call
    <3> QED
      BY <1>2, <1>3, <1>4, <1>6, <2>1, <3>1, CreatedHook
  <2>2. CASE j # k
    <3>1. j \in 1 .. k - 1
      BY <1>2, <2>2
    <3> QED
      BY <1>1, <1>6, <3>1, HookDoneKept
  <2> QED
    BY <2>1, <2>2
<1>7. ASSUME k + 1 = Len(h) PROVE \A i \in DOMAIN hooks' : hooks'[i].isEnabled
  <2>1. k = Len(h) - 1
    BY <1>2, <1>7
  <2>2. job.op = "enable" /\ job.fn = NoFn
    BY <1>2, <2>1 DEF Facts, HookShape, Call
  <2>3. EnableHook(t)
    BY <2>2, CallOver DEF MH_Initialize, MH_Uninitialize, MH_RemoveHook, MH_CreateHook, QueueHook, Ready
  <2>4. Pending = {} /\ UNCHANGED hooks
    BY <2>3 DEF EnableHook, Ready, hookVars
  <2>5. job.ok
    BY DEF Facts, CallInv
  <2> QED
    BY <2>2, <2>4, <2>5 DEF Pending, Wanted, Facts, HookInv, TableTypes
<1> QED
  BY <1>5, <1>6, <1>7 DEF HookDone

\* A step of the library that rewrites no code and ends no call.
Quiet(t) == EnumerateThreads(t) \/ \E u \in Threads : Freeze(t, u) \/ Unfreeze(t, u)

\* The threads are listed, suspended, moved or resumed: nothing is done or undone.
LEMMA QuietLibrary ==
  ASSUME NEW h, NEW w, Facts(h, w), NEW t \in Threads, LibraryStep(t), Quiet(t)
  PROVE  On(h, w)'
<1>1. CallsOfRmem /\ Table /\ JobTypes /\ PlaceInv /\ ExitInv /\ client = "rmem"
  BY OwnCalls DEF Facts, On, HookInv, Table
<1>2. Moves
  BY <1>1, LibraryMoves
<1>3. job'.op = job.op /\ job'.fn = job.fn /\ UNCHANGED <<owner, inited, hooks, blocks, code>>
  BY <1>1 DEF Quiet, EnumerateThreads, Freeze, Unfreeze, hookVars, JobTypes
<1>4. UNCHANGED <<todo, calls, recording, client, linkerBased>>
  BY DEF LibraryStep, winVars
<1>5. fails' = 0 => fails = 0
  <2>1. fails' \in {fails, fails + 1}
    BY DEF Quiet, EnumerateThreads, Freeze, Unfreeze
  <2>2. fails \in Nat
    BY DEF Facts, CallInv
  <2>3. fails + 1 # 0
    BY <2>2
  <2> QED
    BY <2>1, <2>3
<1> QED
  BY <1>2, <1>3, <1>4, <1>5, QuietKeeps

\* A step of the library rewrites code, ends the call, or does neither.
LEMMA LibraryCases ==
  ASSUME NEW h, NEW w, Facts(h, w), NEW t \in Threads, LibraryStep(t)
  PROVE  /\ owner = t
         /\ \/ Quiet(t)
            \/ /\ owner' = t /\ job'.op = job.op /\ job'.fn = job.fn
               /\ \E works \in BOOLEAN : EnableHookLL(t, works)
               /\ UNCHANGED at
            \/ owner' = NoThread /\ owner' # t /\ UNCHANGED at
         /\ fails' = 0 => fails = 0
         /\ UNCHANGED <<todo, calls, recording, client, linkerBased>>
<1>1. ASSUME NEW works \in BOOLEAN, EnableHookLL(t, works)
      PROVE  owner' = t /\ owner = t /\ job'.op = job.op /\ job'.fn = job.fn /\ UNCHANGED at
  BY <1>1 DEF EnableHookLL, Facts, HookInv, JobTypes
<1>2. Quiet(t) => owner = t
  BY DEF Quiet, EnumerateThreads, Freeze, Unfreeze
<1>3. NoThread # t
  BY ThreadsAssumption
<1>4. fails' = 0 => fails = 0
  <2>1. fails' \in {fails, fails + 1}
    BY DEF LibraryStep, Library, Rewriting, EnumerateThreads, Freeze, Unfreeze, EnableHookLL,
           MH_Initialize, MH_Uninitialize, MH_RemoveHook, DeleteHookEntry, MH_CreateHook,
           EnableHook, QueueHook
  <2>2. fails \in Nat
    BY DEF Facts, CallInv
  <2>3. fails + 1 # 0
    BY <2>2
  <2> QED
    BY SMTT(30), <2>1, <2>3
<1>5. UNCHANGED <<todo, calls, recording, client, linkerBased>>
  BY DEF LibraryStep, winVars
<1>6. CASE Rewriting(t)
  BY <1>1, <1>2, <1>4, <1>5, <1>6 DEF Rewriting, Quiet
<1>7. CASE ~Rewriting(t)
  <2>1. LeaveSpinLock /\ owner = t
    BY <1>7 DEF LibraryStep, Library, MH_Initialize, MH_Uninitialize, MH_RemoveHook, EnableHook,
                QueueHook, MH_CreateHook, Ready
  <2> QED
    BY <1>3, <1>4, <1>5, <2>1 DEF LeaveSpinLock
<1> QED
  BY <1>6, <1>7

\* rmemHookAllocs goes on.
LEMMA HookingGoesOn ==
  ASSUME NEW h, NEW w, Facts(h, w), NEW t \in Threads, LibraryStep(t), NEW k \in Nat, Hooking(h, k)
  PROVE  On(h, w)'
<1>1. /\ owner = t /\ (fails' = 0 => fails = 0)
      /\ UNCHANGED <<todo, calls, recording, client, linkerBased>>
  BY LibraryCases
<1>2. /\ t = Main /\ k \in 1 .. Len(h) - 1 /\ Len(h) \in Nat
      /\ OnScript(Main, h, k) /\ \A u \in Threads \ {Main} : Resting(u)
  BY <1>1, HookingCall DEF Facts, HookShape, Hooking
<1>3. k <= Len(h) /\ k + 1 <= Len(h) /\ k # Len(h)
  BY <1>2
<1>4. CASE Quiet(t)
  BY <1>4, QuietLibrary
<1>5. CASE owner' = t /\ job'.op = job.op /\ job'.fn = job.fn /\ UNCHANGED at
  <2>1. OnScript(Main, h, k)'
    BY <1>1, <1>2, <1>5, SameCall
  <2>2. \A u \in Threads \ {Main} : Resting(u)'
    BY <1>1, <1>2, <1>5 DEF Resting
  <2>3. fails' = 0 => HookDone(h, k)'
    <3>1. HookDone(h, k) =>
            /\ k > 1 => inited'
            /\ \A j \in 1 .. k - 1 :
                 Roomy /\ h[j].op = "create" /\ h[j].fn \in Executable => Hooked(h[j].fn)'
      BY <1>1, HookDoneKept
    <3> QED
      BY <1>1, <1>3, <3>1 DEF Hooking, HookDone
  <2>4. Hooking(h, k)'
    BY <1>1, <1>5, <2>1, <2>2, <2>3 DEF Hooking
  <2> QED
    BY <2>4 DEF On
<1>6. CASE owner' = NoThread /\ owner' # t /\ UNCHANGED at
  <2>1. OnScript(Main, h, k + 1)'
    BY <1>1, <1>2, <1>6, CallEnds
  <2>2. \A u \in Threads \ {Main} : Resting(u)'
    BY <1>1, <1>2, <1>6, ThreadsAssumption DEF Resting
  <2>3. fails' = 0 => HookDone(h, k + 1)'
    BY <1>1, <1>6, HookDoneGrows
  <2>4. Hooking(h, k + 1)'
    BY <1>1, <1>3, <1>6, <2>1, <2>2, <2>3 DEF Hooking
  <2>5. k + 1 \in Nat
    OBVIOUS
  <2> QED
    BY <2>4, <2>5 DEF On
<1> QED
  BY <1>4, <1>5, <1>6, LibraryCases

\* rmemUnhookAllocs: what is gone stays gone while others remove too.
LEMMA UnhookDoneKept ==
  ASSUME NEW h, NEW w, Facts(h, w), NEW t \in Threads, LibraryStep(t),
         job.op \in {"remove", "uninit"}, NEW k \in Nat, UnhookDone(w, k)
  PROVE  UnhookDone(w, k)'
<1>1. \A f : ~Hooked(f) => ~Hooked(f)'
  BY HookedAfter DEF Facts, HookInv, Table
<1>2. Cleared => Cleared'
  <2> SUFFICES ASSUME Cleared PROVE Cleared'
    OBVIOUS
  <2>1. DOMAIN hooks = {} /\ Pending = {}
    BY DEF Cleared, Pending
  <2>2. CASE Rewriting(t)
    BY <2>1, <2>2 DEF Rewriting, EnumerateThreads, Freeze, Unfreeze, EnableHookLL, hookVars, Cleared
  <2>3. CASE MH_Uninitialize(t)
    BY <2>3 DEF MH_Uninitialize, Cleared
  <2>4. CASE MH_RemoveHook(t)
    BY <2>4 DEF MH_RemoveHook, Cleared
  <2> QED
    BY <2>2, <2>3, <2>4 DEF LibraryStep, Library, MH_Initialize, MH_CreateHook, EnableHook,
                            QueueHook, Ready
<1> QED
  BY <1>1, <1>2 DEF UnhookDone

\* The call of rmemUnhookAllocs that ends has removed its hook, or all of MinHook.
LEMMA UnhookDoneGrows ==
  ASSUME NEW h, NEW w, Facts(h, w), NEW t \in Threads, LibraryStep(t), owner' # t, fails = 0,
         NEW k \in Nat, w[k].op = job.op, w[k].fn = job.fn,
         job.op \in {"remove", "uninit"}, UnhookDone(w, k)
  PROVE  UnhookDone(w, k + 1)'
<1>1. UnhookDone(w, k)'
  BY UnhookDoneKept
<1>2. job.ok /\ Table /\ JobTypes /\ OriginalInv
  BY DEF Facts, CallInv, HookInv, Table
<1>3. ASSUME w[k].op = "remove" PROVE ~Hooked(w[k].fn)'
  <2>1. MH_RemoveHook(t)
    BY <1>3, CallOver DEF MH_Initialize, MH_Uninitialize, MH_CreateHook, EnableHook, QueueHook, Ready
  <2> QED
    BY <1>2, <2>1, RemovedGone
<1>4. ASSUME w[k].op = "uninit" PROVE Cleared'
  <2>1. MH_Uninitialize(t)
    BY <1>4, CallOver DEF MH_Initialize, MH_RemoveHook, MH_CreateHook, EnableHook, QueueHook, Ready
  <2>2. CASE inited
    BY <1>2, <2>1, <2>2 DEF MH_Uninitialize, UninitializeBuffer, Cleared
  <2>3. CASE ~inited
    BY <1>2, <2>1, <2>3 DEF MH_Uninitialize, Cleared, Table, TableTypes, OriginalInv
  <2> QED
    BY <2>2, <2>3
<1>5. \A j \in 1 .. (k + 1) - 1 : j = k \/ j \in 1 .. k - 1
  OBVIOUS
<1> QED
  BY <1>1, <1>3, <1>4, <1>5 DEF UnhookDone

\* And it goes on.
LEMMA UnhookingGoesOn ==
  ASSUME NEW h, NEW w, Facts(h, w), NEW t \in Threads, LibraryStep(t), Using(w)
  PROVE  On(h, w)'
<1>1. /\ owner = t /\ (fails' = 0 => fails = 0)
      /\ UNCHANGED <<todo, calls, recording, client, linkerBased>>
  BY LibraryCases
<1>2. PICK k \in 2 .. Len(w) : /\ Unhooking(t, w, k)
                               /\ w[k].op = job.op /\ w[k].fn = job.fn
  BY <1>1, UnhookingCall
<1>3. Len(w) \in Nat /\ k \in Nat /\ k > 1 /\ k + 1 > 1 /\ ~recording
  BY <1>2 DEF Facts, UnhookShape, Unhooking
<1>4. job.op \in {"remove", "uninit"}
  <2>1. \/ \E f \in HeapAndModules : w[k] = Call("remove", f)
        \/ w[k] = Call("uninit", NoFn)
    BY <1>2 DEF Facts, UnhookShape
  <2>2. ASSUME NEW f, w[k] = Call("remove", f) PROVE job.op = "remove"
    BY <1>2, <2>2 DEF Call
  <2>3. w[k] = Call("uninit", NoFn) => job.op = "uninit"
    BY <1>2 DEF Call
  <2> QED
    BY <2>1, <2>2, <2>3
<1>5. CASE Quiet(t)
  BY <1>5, QuietLibrary
<1>6. ASSUME \/ owner' = t /\ job'.op = job.op /\ job'.fn = job.fn
             \/ owner' = NoThread /\ owner' # t,
             UNCHANGED at
      PROVE  Using(w)'
  <2>1. \A u \in Threads : Unhooks(u)' <=> Unhooks(u)
    BY <1>1, <1>6 DEF Unhooks, InExit
  <2>2. Unhooks(t)
    BY <1>1 DEF Using, Resting
  <2>3. calls' # 0
    <3>1. CASE t = Main /\ calls > 0
      BY <1>1, <3>1
    <3>2. CASE InExit(t)
      <4>1. linkerBased /\ at[t].fn = Exit
        BY <3>2, ExitUnhooks DEF Facts
      <4> QED
        BY <1>1, <4>1 DEF Using
    <3> QED
      BY <2>2, <3>1, <3>2 DEF Unhooks
  <2>4. \E i \in Nat : Unhooking(t, w, i)'
    <3>1. CASE owner' = t /\ job'.op = job.op /\ job'.fn = job.fn
      <4>1. OnScript(t, w, k)'
        BY <1>1, <1>2, <3>1, SameCall DEF Unhooking
      <4>2. fails' = 0 => UnhookDone(w, k)'
        BY <1>1, <1>2, <1>3, <1>4, UnhookDoneKept DEF Unhooking
      <4> QED
        BY <1>1, <1>3, <4>1, <4>2 DEF Unhooking
    <3>2. CASE owner' = NoThread /\ owner' # t
      <4>1. OnScript(t, w, k + 1)'
        BY <1>1, <1>2, <1>3, <3>2, CallEnds DEF Unhooking
      <4>2. fails' = 0 => UnhookDone(w, k + 1)'
        BY <1>1, <1>2, <1>3, <1>4, <3>2, UnhookDoneGrows DEF Unhooking
      <4>3. Unhooking(t, w, k + 1)' /\ k + 1 \in Nat
        BY <1>1, <1>3, <4>1, <4>2 DEF Unhooking
      <4> QED
        BY <4>3
    <3> QED
      BY <1>6, <3>1, <3>2
  <2>5. ASSUME NEW u \in Threads
        PROVE  IF Unhooks(u)' THEN \E i \in Nat : Unhooking(u, w, i)' ELSE Resting(u)'
    <3>1. CASE u = t
      BY <2>1, <2>2, <2>4, <3>1
    <3>2. CASE u # t
      <4>1. owner # u /\ owner' # u
        BY <1>1, <1>6, <3>2, ThreadsAssumption
      <4>2. \A i \in Nat : UnhookDone(w, i) => UnhookDone(w, i)'
        BY <1>4, UnhookDoneKept
      <4>3. /\ Unhooks(u) => \E i \in Nat : Unhooking(u, w, i)'
            /\ ~Unhooks(u) => Resting(u)'
        BY <1>1, <4>1, <4>2, OthersGoOn
      <4> QED
        BY <2>1, <4>3
    <3> QED
      BY <3>1, <3>2
  <2>6. RecordingIntercepts'
    BY <1>1, <1>3 DEF RecordingIntercepts
  <2> QED
    BY <2>3, <2>5, <2>6 DEF Using
<1> QED
  BY <1>5, <1>6, LibraryCases DEF On

\* A step of the library, in either script.
LEMMA LibraryKeeps ==
  ASSUME NEW h, NEW w, Facts(h, w), NEW t \in Threads, LibraryStep(t)
  PROVE  PlaceInv' /\ ExitInv' /\ On(h, w)'
<1>1. PlaceInv' /\ ExitInv'
  BY LibraryCases, ExitStaysHooked
<1>2. On(h, w)'
  BY HookingGoesOn, UnhookingGoesOn DEF Facts, On
<1> QED
  BY <1>1, <1>2
--------------------------------------------------------------------------------
\* The scripts as a whole.

\* Every step of the program keeps what the scripts have done.
LEMMA NextKeeps ==
  ASSUME NEW h, NEW w, Facts(h, w), h = HookAllocs(linkerBased), w = UnhookAllocs(linkerBased),
         [Next]_vars
  PROVE  PlaceInv' /\ ExitInv' /\ On(h, w)'
<1>1. CASE \E t \in Threads : ExitBegins(t)
  BY <1>1, ExitKeeps
<1>2. CASE \A t \in Threads : ~ExitBegins(t)
  <2>1. CallsOfRmem /\ Table /\ PlaceInv /\ ExitInv /\ client = "rmem"
    BY OwnCalls DEF Facts, On, HookInv, Table
  <2>2. Moves
    BY <1>2, <2>1, AllMove
  <2>3. ASSUME UNCHANGED <<owner, job, inited, hooks, blocks, code, todo, calls, recording, fails,
                           client, linkerBased>>
        PROVE  PlaceInv' /\ ExitInv' /\ On(h, w)'
    <3>1. job'.op = job.op /\ job'.fn = job.fn
      BY <2>3
    <3> QED
      BY <2>2, <2>3, <3>1, QuietKeeps
  <2>4. CASE UNCHANGED vars
    BY <2>3, <2>4 DEF vars, minVars, hookVars, winVars
  <2>5. CASE rmemHookAllocs \/ rmemUnhookAllocs
    BY <2>5, HookAllocsKeeps, UnhookAllocsKeeps
  <2>6. ASSUME NEW t \in Threads, MinHookCall(t) \/ RecorderCall(t) \/ LibraryStep(t)
        PROVE  PlaceInv' /\ ExitInv' /\ On(h, w)'
    BY <2>6, MinHookCallKeeps, RecorderKeeps, LibraryKeeps
  <2>7. ASSUME NEW t \in Threads,
               \/ Spawn(t) \/ Detour(t) \/ detour_exit(t) \/ ProcessEnds(t) \/ Step(t)
               \/ \E f \in Fns : CallFunction(t, f)
        PROVE  UNCHANGED <<owner, job, inited, hooks, blocks, code, todo, calls, recording, fails,
                           client, linkerBased>>
    BY <1>2, <2>7 DEF Spawn, Detour, detour_exit, ExitBegins, ProcessEnds, Step, CallFunction,
                      minVars, hookVars, winVars
  <2>8. \A t \in Threads : ~Anything(t)
    BY <2>1 DEF Anything
  <2> QED
    BY <2>3, <2>4, <2>5, <2>6, <2>7, <2>8 DEF Next
<1> QED
  BY <1>1, <1>2

\* Before rmemHookAllocs there is nothing to hook or to unhook.
LEMMA ScriptInit == Init => CallInv /\ OriginalInv /\ ScriptInv
<1> SUFFICES ASSUME Init PROVE CallInv /\ OriginalInv /\ ScriptInv
  OBVIOUS
<1>1. /\ owner = NoThread /\ job = Idle /\ inited = FALSE /\ hooks = << >> /\ blocks = << >>
      /\ original = [f \in Fns |-> NoAddress] /\ fails = 0 /\ calls = 0 /\ recording = FALSE
      /\ todo = [t \in Threads |-> << >>]
      /\ client \in {"rmem", "any"} /\ linkerBased \in BOOLEAN
      /\ at = [t \in Threads |-> IF t = Main THEN Outside ELSE Unborn]
  BY DEF Init, MinInit
<1>2. NoThread \notin Threads
  BY ThreadsAssumption
<1>3. CallInv
  <2>1. job.ok = TRUE /\ job.op = "none"
    BY <1>1 DEF Idle
  <2>2. 0 \in Nat /\ "none" \notin {"rmemInit", "rmemShutDown"}
    OBVIOUS
  <2> QED
    BY <1>1, <1>2, <2>1, <2>2, Zenon DEF CallInv
<1>4. DOMAIN hooks = {}
  BY <1>1
<1>5. OriginalInv
  BY <1>1, <1>4 DEF OriginalInv
<1>6. \A f : ~Hooked(f)
  BY <1>4, HookedIs
<1>7. IsPlace(Unborn) /\ Unborn.fn = NoFn /\ Unborn.in = "unborn" /\ Unborn.via = FALSE
  <2> DEFINE p == Outside
  <2> HIDE DEF p
  <2>1. Unborn = Place("unborn", p.fn, p.off, p.slot, p.via, p.late)
    BY FixedPlaces, OneField DEF Unborn, p
  <2>2. IsPlace(Unborn) /\ Unborn.in = "unborn" /\ Unborn.fn = p.fn /\ Unborn.via = p.via
    BY <2>1 DEF Place, IsPlace
  <2> QED
    BY <2>2, FixedPlaces DEF p
<1>8. \A t \in Threads : /\ IsPlace(at[t]) /\ at[t].fn = NoFn /\ at[t].in # "detour"
                         /\ at[t].via = FALSE
  BY <1>1, <1>7, FixedPlaces
<1>9. PlaceInv
  BY <1>1, <1>8 DEF PlaceInv
<1>10. ExitInv
  BY <1>6, <1>8, NotExit DEF ExitInv
<1>11. \A t \in Threads : ~Unhooks(t) /\ Resting(t)
  BY <1>1, <1>2, <1>8 DEF Unhooks, InExit, Resting
<1>12. Using(UnhookAllocs(linkerBased))
  BY <1>1, <1>8, <1>11, NotExit DEF Using, RecordingIntercepts
<1> QED
  BY <1>3, <1>5, <1>9, <1>10, <1>12 DEF ScriptInv

\* What rmem has done of its scripts, as the invariant the theorems below rest on.
RmemInv == HookInv /\ CallInv /\ OriginalInv /\ ScriptInv

\* In a client that is rmem, the scripts are those two.
LEMMA RmemFacts ==
  ASSUME RmemInv, client = "rmem"
  PROVE  Facts(HookAllocs(linkerBased), UnhookAllocs(linkerBased))
<1>1. linkerBased \in BOOLEAN
  BY DEF RmemInv, CallInv
<1> QED
  BY <1>1, HookScript, UnhookScript DEF RmemInv, ScriptInv, Facts, On

\* At every moment rmem is between calls, or in one of its scripts with all the
\* calls before the present one done.
THEOREM ScriptInvariance == Spec => []RmemInv
<1>1. Init => RmemInv
  BY InitInv, ScriptInit DEF RmemInv
<1>2. RmemInv /\ [Next]_vars => RmemInv'
  <2> SUFFICES ASSUME RmemInv, [Next]_vars PROVE RmemInv'
    OBVIOUS
  <2>1. HookInv'
    BY TodoTypesKept, JobTypesKept, FreezeInvKept, TableKept DEF RmemInv, HookInv, Table
  <2>2. CallInv' /\ UNCHANGED <<client, linkerBased>>
    BY CallInvKept DEF RmemInv
  <2>3. OriginalInv'
    BY OriginalInvKept DEF RmemInv
  <2>4. ScriptInv'
    <3> SUFFICES ASSUME client = "rmem"
                 PROVE  PlaceInv' /\ ExitInv' /\
                        (\/ Using(UnhookAllocs(linkerBased))'
                         \/ \E k \in Nat : Hooking(HookAllocs(linkerBased), k)')
      BY <2>2 DEF ScriptInv
    <3>1. PICK l : l = linkerBased
      OBVIOUS
    <3> DEFINE h == HookAllocs(l)
               w == UnhookAllocs(l)
    <3>2. Facts(h, w)
      BY <3>1, RmemFacts
    <3>3. h = HookAllocs(linkerBased) /\ w = UnhookAllocs(linkerBased)
      BY <3>1
    <3>4. linkerBased' = l
      BY <2>2, <3>1
    <3>5. PlaceInv' /\ ExitInv' /\ On(h, w)'
      <4> HIDE DEF h, w
      <4> QED
        BY <3>2, <3>3, NextKeeps
    <3> QED
      BY <3>4, <3>5 DEF On
  <2> QED
    BY <2>1, <2>2, <2>3, <2>4 DEF RmemInv
<1> QED
  BY <1>1, <1>2, PTL DEF Spec

\* A thread in the detour of exit finds the trampoline of exit, whatever the rest
\* of rmemUnhookAllocs has taken away: exit is not among the functions it removes,
\* and it is hooked only where MH_Uninitialize is not called.
THEOREM ExitAlwaysCallable == Spec => []ExitCanBeCalled
<1>1. RmemInv => ExitCanBeCalled
  <2> SUFFICES ASSUME RmemInv, NEW t \in Threads,
                      client = "rmem", at[t].in = "detour", at[t].fn = Exit
               PROVE  SlotLive(Exit, original[Exit])
    BY DEF ExitCanBeCalled
  <2>1. Hooked(Exit) /\ Table /\ OriginalInv
    BY DEF RmemInv, ScriptInv, ExitInv, HookInv, Table
  <2>2. PICK i \in DOMAIN hooks : hooks[i].target = Exit
    BY <2>1, HookedIs
  <2>3. Hook(Exit) = hooks[i] /\ original[Exit] = hooks[i].slot
    BY <2>1, <2>2, TheEntry DEF OriginalInv
  <2> QED
    BY <2>1, <2>3 DEF SlotLive
<1> QED
  BY <1>1, ScriptInvariance, PTL

\* The code at a function is the jump only if the function is hooked.
LEMMA PatchedIsHooked ==
  ASSUME HookInv, NEW f \in Fns, code[f] = "patched"
  PROVE  Hooked(f)
BY HookedIs DEF HookInv, TableInv

\* When rmemUnhookAllocs is through, in whichever thread, its calls have removed
\* all it is to remove, though others may have hooks to remove still.
LEMMA AllUndone ==
  ASSUME NEW w, NEW linker \in BOOLEAN, UnhookShape(w, linker), UnhookDone(w, Len(w) + 1)
  PROVE  /\ linker => \A f \in HeapAndModules : ~Hooked(f)
         /\ ~linker => Cleared
<1>1. Len(w) \in Nat
  BY DEF UnhookShape
<1>2. \A j \in 2 .. Len(w) : j \in 1 .. (Len(w) + 1) - 1
  BY <1>1
<1>3. ASSUME linker, NEW f \in HeapAndModules PROVE ~Hooked(f)
  <2>1. PICK j \in 2 .. Len(w) : w[j] = Call("remove", f)
    BY <1>3 DEF UnhookShape
  <2>2. w[j].op = "remove" /\ w[j].fn = f
    BY <2>1 DEF Call
  <2> QED
    BY <1>2, <2>2 DEF UnhookDone
<1>4. ASSUME ~linker PROVE Cleared
  <2>1. PICK j \in 2 .. Len(w) : w[j] = Call("uninit", NoFn)
    BY <1>4 DEF UnhookShape
  <2>2. w[j].op = "uninit"
    BY <2>1 DEF Call
  <2> QED
    BY <1>2, <2>2 DEF UnhookDone
<1> QED
  BY <1>3, <1>4

\* After rmemUnhookAllocs without a failure no function starts with the jump but,
\* with linker-based hooks, exit, and without them MinHook has given back its
\* table and its memory: on whichever thread the calls were made, and whatever
\* other threads in exit do meanwhile.
THEOREM UnhookingRestores == Spec => []UnhookRestores
<1>1. RmemInv => UnhookRestores
  <2> SUFFICES ASSUME RmemInv, NEW t \in Threads, Unhooked(t)
               PROVE  /\ \A f \in Fns : code[f] = "patched" => linkerBased /\ f = Exit
                      /\ ~linkerBased => blocks = << >> /\ hooks = << >> /\ ~inited
    BY DEF UnhookRestores
  <2> DEFINE w == UnhookAllocs(linkerBased)
             h == HookAllocs(linkerBased)
  <2>1. client = "rmem" /\ fails = 0 /\ Resting(t) /\ Unhooks(t)
    BY DEF Unhooked, Unhooks, InExit, Resting
  <2>2. Facts(h, w)
    BY <2>1, RmemFacts
  <2> HIDE DEF h, w
  <2>3. Using(w)
    <3>1. ASSUME NEW k \in Nat, Hooking(h, k) PROVE FALSE
      <4>1. CASE InExit(t)
        BY <2>2, <3>1, <4>1, ExitUnhooks DEF Facts, Hooking
      <4>2. CASE calls % 2 = 0
        BY <3>1, <4>2 DEF Hooking
      <4> QED
        BY <2>1, <4>1, <4>2 DEF Unhooks
    <3> QED
      BY <2>2, <3>1 DEF Facts, On
  <2>4. PICK k \in Nat : Unhooking(t, w, k)
    BY <2>1, <2>3 DEF Using
  <2>5. k = Len(w) + 1
    BY <2>1, <2>2, <2>4, ScriptThrough DEF Unhooking, Facts, UnhookShape
  <2>6. /\ linkerBased => \A f \in HeapAndModules : ~Hooked(f)
        /\ ~linkerBased => Cleared
    <3>1. UnhookDone(w, Len(w) + 1) /\ UnhookShape(w, linkerBased) /\ linkerBased \in BOOLEAN
      BY <2>1, <2>2, <2>4, <2>5 DEF Unhooking, Facts, CallInv
    <3> QED
      BY <3>1, AllUndone
  <2>7. ASSUME NEW f \in Fns, code[f] = "patched" PROVE linkerBased /\ f = Exit
    <3>1. Hooked(f)
      BY <2>7, PatchedIsHooked DEF RmemInv
    <3>2. linkerBased
      BY <2>6, <3>1, HookedIs DEF Cleared
    <3>3. f \in HeapAndModules \/ f = Exit
      BY HooksAssumption DEF HeapAndModules
    <3> QED
      BY <2>6, <3>1, <3>2, <3>3
  <2> QED
    BY <2>6, <2>7 DEF Cleared
<1> QED
  BY <1>1, ScriptInvariance, PTL

\* Where MinHook has what it needs (Roomy) and nothing fails, a recorder is there
\* only while every function of the heap and the module list starts with the jump:
\* rmemInit comes after the last hook is enabled, rmemShutDown before the first
\* goes, and exit, which others may have called, removes none while it is there.
THEOREM RecorderInterceptsAll == ASSUME Roomy PROVE Spec => []RecordingIntercepts
<1>1. RmemInv => RecordingIntercepts
  <2> SUFFICES ASSUME RmemInv, client = "rmem" PROVE RecordingIntercepts
    BY DEF RecordingIntercepts
  <2>1. On(HookAllocs(linkerBased), UnhookAllocs(linkerBased))
    BY RmemFacts DEF Facts
  <2>2. ASSUME NEW h, NEW k, Hooking(h, k) PROVE RecordingIntercepts
    BY <2>2 DEF Hooking, RecordingIntercepts
  <2>3. ASSUME NEW w, Using(w) PROVE RecordingIntercepts
    BY <2>3 DEF Using
  <2> QED
    BY <2>1, <2>2, <2>3 DEF On
<1> QED
  BY <1>1, ScriptInvariance, PTL

-----------------------------------------------------------------------------
\* Nobody stands in the bytes that the jump overwrites.

\* Where a thread may be: at an instruction of a function, or of a trampoline that
\* could be built; whoever is on the way to a detour, in it or called from it, came
\* by such a trampoline's hook.
PositionOK(p) ==
  /\ p.in = "target" => p.fn \in Fns /\ p.off \in Starts(FnCode[p.fn])
  /\ p.in \in {"above", "relay", "detour", "tramp"} \/ p.via =>
       p.fn \in Fns /\ TrampolineOf[p.fn].ok
  /\ p.in = "tramp" => p.off \in ToSet(TrampolineOf[p.fn].newIPs)
Positions == PlaceInv /\ \A t \in Threads : PositionOK(at[t])

\* Every entry of the table has the trampoline of its function.
OwnTrampolines ==
  \A i \in DOMAIN hooks : hooks[i].ct = TrampolineOf[hooks[i].target] /\ hooks[i].ct.ok

\* Threads already suspended are out of the bytes of every hook that is still to
\* be enabled, but for those that could not be examined.
ClearOf(hook, p) ==
  p.in = "target" /\ p.fn = hook.target => p.off = 0 \/ p.off >= PatchedBytes(hook.ct)
HeadsClear ==
  \A i \in Pending, u \in frozen \ skipped :
    Wanted(job.op, hooks[i]) => ClearOf(hooks[i], at[u])

BytesInv == Positions /\ OwnTrampolines /\ HeadsClear

\* The instructions of a function, and where they start.
LEMMA TheCode ==
  ASSUME NEW f \in Fns
  PROVE  LET insts == FnCode[f].insts
         IN  /\ FnCode[f] \in Code /\ insts \in Seq(Instructions) /\ Len(insts) \in Nat
             /\ DOMAIN insts = 1 .. Len(insts) /\ 1 \in 1 .. Len(insts)
             /\ insts[Len(insts)].kind = "ret"
             /\ \A i \in 1 .. Len(insts) : insts[i].kind \in {"plain", "rip", "ret"}
             /\ \A i \in 1 .. Len(insts) : StartOf[f][i] = Offsets(insts)[i - 1]
             /\ \A i \in 1 .. Len(insts) : StartOf[f][i] \in Starts(FnCode[f])
             /\ \A o \in Starts(FnCode[f]) : \E i \in 1 .. Len(insts) : StartOf[f][i] = o
             /\ 0 \in Starts(FnCode[f]) /\ Starts(FnCode[f]) \subseteq Nat
<1> DEFINE insts == FnCode[f].insts
           n == Len(insts)
<1>1. FnCode[f] \in Code /\ insts \in Seq(Instructions) /\ insts # << >>
  BY CodeAssumption DEF Code
<1>2. /\ n \in Nat /\ DOMAIN insts = 1 .. n /\ insts[n].kind = "ret"
      /\ \A i \in 1 .. n : insts[i].kind \in {"plain", "rip", "ret"}
  BY <1>1, LenProperties, CodeAssumption
<1>3. 1 \in 1 .. n
  <2>1. n # 0
    BY <1>1, EmptySeq
  <2> QED
    BY <1>2, <2>1
<1>4. \A i \in 1 .. n : StartOf[f][i] = Offsets(insts)[i - 1]
  BY <1>2 DEF StartOf
<1>5. Starts(FnCode[f]) = {Offsets(insts)[k] : k \in 0 .. n - 1}
  BY DEF Starts
<1> HIDE DEF insts, n
<1>6. \A i \in 1 .. n : StartOf[f][i] \in Starts(FnCode[f])
  <2>1. \A i \in 1 .. n : i - 1 \in 0 .. n - 1
    BY <1>2
  <2> QED
    BY <1>4, <1>5, <2>1
<1>7. ASSUME NEW o \in Starts(FnCode[f]) PROVE \E i \in 1 .. n : StartOf[f][i] = o
  <2>1. PICK k \in 0 .. n - 1 : o = Offsets(insts)[k]
    BY <1>5
  <2>2. k + 1 \in 1 .. n /\ (k + 1) - 1 = k
    BY <1>2
  <2>3. StartOf[f][k + 1] = o
    BY <1>4, <2>1, <2>2
  <2> QED
    BY <2>2, <2>3
<1>8. 0 \in Starts(FnCode[f])
  <2>1. StartOf[f][1] = Offsets(insts)[1 - 1] /\ 1 - 1 = 0
    BY <1>3, <1>4
  <2>2. Offsets(insts)[0] = 0
    BY <1>1, OffsetsType DEF insts
  <2> QED
    BY <1>3, <1>6, <2>1, <2>2
<1>9. Starts(FnCode[f]) \subseteq Nat
  <2>1. \A k \in 0 .. n - 1 : k \in 0 .. n
    BY <1>2
  <2>2. \A k \in 0 .. n : Offsets(insts)[k] \in Nat
    BY SMTT(30), <1>1, OffsetsType DEF n, insts
  <2> QED
    BY <1>5, <2>1, <2>2
<1> QED
  BY <1>1, <1>2, <1>3, <1>4, <1>6, <1>7, <1>8, <1>9 DEF insts, n

\* The trampoline of a function, as its threads run it.
LEMMA TheTrampoline ==
  ASSUME NEW f \in Fns, TrampolineOf[f].ok
  PROVE  LET ct == TrampolineOf[f]
             k == Len(ct.oldIPs)
         IN  /\ k \in Nat /\ DOMAIN ct.oldIPs = 1 .. k /\ DOMAIN ct.newIPs = 1 .. k
             /\ 0 \in ToSet(ct.newIPs)
             /\ \A i \in 1 .. k : ct.newIPs[i] \in ToSet(ct.newIPs)
             /\ \A i \in 1 .. k : ct.oldIPs[i] \in Starts(FnCode[f])
             /\ \A i \in 1 .. k :
                  \/ ct.oldIPs[i] >= JmpRel \/ FnCode[f].insts[i].kind = "ret"
                  \/ ct.newIPs[i + 1] \in ToSet(ct.newIPs)
             /\ \A o \in Starts(FnCode[f]) : o < PatchedBytes(ct) => o \in ToSet(ct.oldIPs)
<1> DEFINE fn == FnCode[f]
           ct == TrampolineOf[f]
           k == Len(ct.oldIPs)
<1>1. ct = CreateTrampolineFunction(fn)
  BY DEF TrampolineOf
<1>2. /\ fn \in Code /\ Len(fn.insts) \in Nat
      /\ \A i \in 1 .. Len(fn.insts) : fn.insts[i].kind \in {"plain", "rip", "ret"}
      /\ \A i \in 1 .. Len(fn.insts) : StartOf[f][i] = Offsets(fn.insts)[i - 1]
      /\ \A i \in 1 .. Len(fn.insts) : StartOf[f][i] \in Starts(fn)
  BY TheCode
<1> HIDE DEF fn
<1>3. /\ ct.oldIPs \in Seq(Nat) /\ ct.newIPs \in Seq(Nat) /\ Len(ct.newIPs) = k
      /\ k \in 1 .. Len(fn.insts)
      /\ \A i \in 1 .. k : ct.oldIPs[i] = Offsets(fn.insts)[i - 1]
      /\ ct.newIPs[1] = 0
      /\ ct.oldIPs[k] >= JmpRel \/ fn.insts[k].kind \in {"ripjmp", "jmp", "ret"}
  BY <1>1, <1>2, TrampolineLists
<1>4. \A o \in Starts(fn) : o < PatchedBytes(ct) => o \in ToSet(ct.oldIPs)
  BY <1>1, <1>2, PlacesForAll DEF EveryThreadHasAPlace
<1> HIDE DEF ct
<1>5. k \in Nat /\ DOMAIN ct.oldIPs = 1 .. k /\ DOMAIN ct.newIPs = 1 .. k
  BY <1>3, LenProperties
<1>6. \A i \in 1 .. k : ct.newIPs[i] \in ToSet(ct.newIPs)
  BY <1>5 DEF ToSet
<1> HIDE DEF k
<1>7. /\ 1 \in 1 .. k /\ \A i \in 1 .. k : i \in 1 .. Len(fn.insts)
      /\ k \in 1 .. k /\ \A i \in 1 .. k : i = k \/ i + 1 \in 1 .. k
  BY <1>2, <1>3, <1>5
<1>8. \A i \in 1 .. k : ct.oldIPs[i] \in Starts(fn)
  BY <1>2, <1>3, <1>7
<1>9. ASSUME NEW i \in 1 .. k
      PROVE  \/ ct.oldIPs[i] >= JmpRel \/ fn.insts[i].kind = "ret"
             \/ ct.newIPs[i + 1] \in ToSet(ct.newIPs)
  <2>1. CASE i = k
    BY <1>2, <1>3, <1>7, <2>1
  <2>2. CASE i # k
    BY <1>6, <1>7, <2>2
  <2> QED
    BY <2>1, <2>2
<1> QED
  BY <1>3, <1>4, <1>5, <1>6, <1>7, <1>8, <1>9 DEF fn, ct, k

\* One thread goes to a good place.
LEMMA GoKeeps ==
  ASSUME Positions, NEW t \in Threads, NEW p, Go(t, p), IsPlace(p), PositionOK(p)
  PROVE  Positions'
<1>1. at' = [at EXCEPT ![t] = p] /\ DOMAIN at = Threads
  BY DEF Go, Positions, PlaceInv
<1>2. at'[t] = p /\ \A u \in Threads : u # t => at'[u] = at[u]
  BY <1>1
<1>3. at' = [u \in Threads |-> at'[u]]
  BY <1>1
<1>4. ASSUME NEW u \in Threads PROVE IsPlace(at'[u]) /\ PositionOK(at'[u])
  BY <1>2 DEF Positions, PlaceInv
<1> QED
  BY <1>3, <1>4 DEF Positions, PlaceInv, PositionOK, IsPlace

\* A place is good when it is in no function's code.
LEMMA FreePlaces ==
  /\ IsPlace(Lost) /\ PositionOK(Lost) /\ IsPlace(Outside) /\ PositionOK(Outside)
BY FixedPlaces DEF PositionOK

\* A place in a function, or in a trampoline, is good at a start of its code.
LEMMA CodePlaces ==
  ASSUME NEW f \in Fns, NEW off, NEW slot, NEW via, NEW late, via => TrampolineOf[f].ok
  PROVE  /\ off \in Starts(FnCode[f]) =>
              LET p == Place("target", f, off, slot, via, late) IN IsPlace(p) /\ PositionOK(p)
         /\ TrampolineOf[f].ok /\ off \in ToSet(TrampolineOf[f].newIPs) =>
              LET p == Place("tramp", f, off, slot, via, late) IN IsPlace(p) /\ PositionOK(p)
         /\ TrampolineOf[f].ok =>
              \A in \in {"above", "relay", "detour"} :
                LET p == Place(in, f, off, slot, via, late) IN IsPlace(p) /\ PositionOK(p)
<1>1. ASSUME NEW in, NEW p, p = Place(in, f, off, slot, via, late)
      PROVE  IsPlace(p) /\ p.in = in /\ p.fn = f /\ p.off = off /\ p.via = via
  BY <1>1, Fields
<1>2. ASSUME off \in Starts(FnCode[f])
      PROVE  LET p == Place("target", f, off, slot, via, late) IN IsPlace(p) /\ PositionOK(p)
  <2> DEFINE p == Place("target", f, off, slot, via, late)
  <2>1. IsPlace(p) /\ p.in = "target" /\ p.fn = f /\ p.off = off /\ p.via = via
    BY <1>1
  <2> HIDE DEF p
  <2>2. PositionOK(p)
    BY <1>2, <2>1 DEF PositionOK
  <2> QED
    BY <2>1, <2>2 DEF p
<1>3. ASSUME TrampolineOf[f].ok, off \in ToSet(TrampolineOf[f].newIPs)
      PROVE  LET p == Place("tramp", f, off, slot, via, late) IN IsPlace(p) /\ PositionOK(p)
  <2> DEFINE p == Place("tramp", f, off, slot, via, late)
  <2>1. IsPlace(p) /\ p.in = "tramp" /\ p.fn = f /\ p.off = off /\ p.via = via
    BY <1>1
  <2> HIDE DEF p
  <2>2. PositionOK(p)
    BY <1>3, <2>1 DEF PositionOK
  <2> QED
    BY <2>1, <2>2 DEF p
<1>4. ASSUME TrampolineOf[f].ok, NEW in \in {"above", "relay", "detour"}
      PROVE  LET p == Place(in, f, off, slot, via, late) IN IsPlace(p) /\ PositionOK(p)
  <2> DEFINE p == Place(in, f, off, slot, via, late)
  <2>1. IsPlace(p) /\ p.in = in /\ p.fn = f /\ p.via = via
    BY <1>1
  <2> HIDE DEF p
  <2>2. PositionOK(p)
    BY <1>4, <2>1 DEF PositionOK
  <2> QED
    BY <2>1, <2>2 DEF p
<1> QED
  BY <1>2, <1>3, <1>4

\* A function whose code is patched has a hook, and that hook its trampoline.
LEMMA PatchedHasTrampoline ==
  ASSUME TableInv, OwnTrampolines, NEW f \in Fns, code[f] = "patched"
  PROVE  TrampolineOf[f].ok
<1>1. PICK i \in DOMAIN hooks : hooks[i].target = f
  BY DEF TableInv
<1> QED
  BY <1>1 DEF OwnTrampolines

\* Where ret leads.
LEMMA ReturnedOK ==
  ASSUME NEW p, PositionOK(p)
  PROVE  IsPlace(Returned(p)) /\ PositionOK(Returned(p))
<1>1. CASE p.via
  <2>1. p.fn \in Fns /\ TrampolineOf[p.fn].ok
    BY <1>1 DEF PositionOK
  <2> QED
    BY <1>1, <2>1, CodePlaces DEF Returned
<1>2. CASE ~p.via
  BY <1>2, FreePlaces DEF Returned
<1> QED
  BY <1>1, <1>2

\* A step in a function.
LEMMA TargetStep ==
  ASSUME Positions, TableInv, OwnTrampolines, NEW t \in Threads, StepTarget(t)
  PROVE  Positions'
<1> DEFINE p == at[t]
           f == p.fn
           fn == FnCode[f]
           i == CHOOSE i \in DOMAIN fn.insts : StartOf[f][i] = p.off
<1>1. /\ IsPlace(p) /\ PositionOK(p) /\ p.in = "target" /\ f \in Fns /\ p.off \in Starts(fn)
      /\ p.via => TrampolineOf[f].ok
  BY ZenonT(30) DEF StepTarget, Positions, PlaceInv, PositionOK
<1>2. /\ i \in 1 .. Len(fn.insts) /\ StartOf[f][i] = p.off /\ Len(fn.insts) \in Nat
      /\ fn.insts[Len(fn.insts)].kind = "ret"
      /\ \A j \in 1 .. Len(fn.insts) : StartOf[f][j] \in Starts(fn)
  <2>1. /\ Len(fn.insts) \in Nat /\ DOMAIN fn.insts = 1 .. Len(fn.insts)
        /\ fn.insts[Len(fn.insts)].kind = "ret"
        /\ \A j \in 1 .. Len(fn.insts) : StartOf[f][j] \in Starts(fn)
        /\ \A o \in Starts(fn) : \E j \in 1 .. Len(fn.insts) : StartOf[f][j] = o
    BY <1>1, TheCode
  <2>2. \E j \in DOMAIN fn.insts : StartOf[f][j] = p.off
    BY <1>1, <2>1
  <2>3. i \in DOMAIN fn.insts /\ StartOf[f][i] = p.off
    BY SMTT(30), <2>2
  <2> QED
    BY ZenonT(30), <2>1, <2>3
<1>3. Go(t, IF code[f] = "patched" /\ p.off = 0
            THEN IF TrampolineOf[f].patchAbove THEN [p EXCEPT !.in = "above"]
                 ELSE [p EXCEPT !.in = "relay", !.slot = Hook(f).slot]
            ELSE IF code[f] = "patched" /\ p.off < PatchedBytes(TrampolineOf[f]) THEN Lost
            ELSE IF fn.insts[i].kind = "ret" THEN Returned(p)
            ELSE [p EXCEPT !.off = StartOf[f][i + 1]])
  BY Zenon DEF StepTarget
<1> HIDE DEF p, f, fn, i
<1>4. CASE code[f] = "patched" /\ p.off = 0
  <2>1. TrampolineOf[f].ok
    BY <1>1, <1>4, PatchedHasTrampoline
  <2>2. [p EXCEPT !.in = "above"] = Place("above", f, p.off, p.slot, p.via, p.late)
    BY <1>1, OneField DEF f
  <2>3. [p EXCEPT !.in = "relay", !.slot = Hook(f).slot]
          = Place("relay", f, p.off, Hook(f).slot, p.via, p.late)
    BY <1>1, TwoFields DEF f
  <2>4. CASE TrampolineOf[f].patchAbove
    <3>1. Go(t, Place("above", f, p.off, p.slot, p.via, p.late))
      BY <1>3, <1>4, <2>2, <2>4
    <3>2. IsPlace(Place("above", f, p.off, p.slot, p.via, p.late))
          /\ PositionOK(Place("above", f, p.off, p.slot, p.via, p.late))
      BY <1>1, <2>1, CodePlaces
    <3> QED
      BY <3>1, <3>2, GoKeeps
  <2>5. CASE ~TrampolineOf[f].patchAbove
    <3>1. Go(t, Place("relay", f, p.off, Hook(f).slot, p.via, p.late))
      BY <1>3, <1>4, <2>3, <2>5
    <3>2. IsPlace(Place("relay", f, p.off, Hook(f).slot, p.via, p.late))
          /\ PositionOK(Place("relay", f, p.off, Hook(f).slot, p.via, p.late))
      BY <1>1, <2>1, CodePlaces
    <3> QED
      BY <3>1, <3>2, GoKeeps
  <2> QED
    BY <2>4, <2>5
<1>5. CASE ~(code[f] = "patched" /\ p.off = 0) /\ code[f] = "patched"
           /\ p.off < PatchedBytes(TrampolineOf[f])
  <2>1. Go(t, Lost)
    BY <1>3, <1>5
  <2> QED
    BY <2>1, FreePlaces, GoKeeps
<1>6. CASE ~(code[f] = "patched" /\ p.off = 0)
           /\ ~(code[f] = "patched" /\ p.off < PatchedBytes(TrampolineOf[f]))
           /\ fn.insts[i].kind = "ret"
  <2>1. Go(t, Returned(p))
    BY <1>3, <1>6
  <2> QED
    BY <1>1, <2>1, ReturnedOK, GoKeeps
<1>7. CASE ~(code[f] = "patched" /\ p.off = 0)
           /\ ~(code[f] = "patched" /\ p.off < PatchedBytes(TrampolineOf[f]))
           /\ fn.insts[i].kind # "ret"
  <2> DEFINE off == StartOf[f][i + 1]
  <2>1. i # Len(fn.insts)
    BY <1>2, <1>7
  <2>2. i + 1 \in 1 .. Len(fn.insts)
    BY <1>2, <2>1
  <2>3. off \in Starts(fn)
    BY <1>2, <2>2
  <2> HIDE DEF off
  <2>4. [p EXCEPT !.off = off] = Place("target", f, off, p.slot, p.via, p.late)
    <3>1. [p EXCEPT !.off = off] = Place(p.in, p.fn, off, p.slot, p.via, p.late)
      BY <1>1, OneField
    <3> QED
      BY <1>1, <3>1 DEF f
  <2>5. Go(t, Place("target", f, off, p.slot, p.via, p.late))
    BY <1>3, <1>7, <2>4 DEF off
  <2>6. IsPlace(Place("target", f, off, p.slot, p.via, p.late))
        /\ PositionOK(Place("target", f, off, p.slot, p.via, p.late))
    BY <1>1, <2>3, CodePlaces DEF fn
  <2> QED
    BY <2>5, <2>6, GoKeeps
<1> QED
  BY SMTT(30), <1>4, <1>5, <1>6, <1>7

\* A step in a trampoline.
LEMMA TrampolineStep ==
  ASSUME Positions, NEW t \in Threads, StepTrampoline(t)
  PROVE  Positions'
<1> DEFINE p == at[t]
           f == p.fn
           fn == FnCode[f]
           ct == TrampolineOf[f]
           i == CHOOSE i \in DOMAIN ct.newIPs : ct.newIPs[i] = p.off
<1>1. /\ IsPlace(p) /\ PositionOK(p) /\ p.in = "tramp" /\ f \in Fns /\ ct.ok
      /\ p.off \in ToSet(ct.newIPs)
  BY Zenon DEF StepTrampoline, Positions, PlaceInv, PositionOK
<1>2. \E j \in DOMAIN ct.newIPs : ct.newIPs[j] = p.off
  BY <1>1 DEF ToSet
<1>3. i \in DOMAIN ct.newIPs
  BY SMTT(30), <1>2
<1>4. Go(t, IF ~SlotLive(f, p.slot) THEN Lost
            ELSE IF ct.oldIPs[i] >= JmpRel
            THEN Relocated(p, "target", ct.oldIPs[i], NoAddress, FALSE)
            ELSE IF fn.insts[i].kind = "ret" THEN Returned(p)
            ELSE [p EXCEPT !.off = ct.newIPs[i + 1]])
  BY Zenon DEF StepTrampoline, Relocated
<1> HIDE DEF p, f, fn, i
<1>5. /\ ct.oldIPs[i] \in Starts(fn)
      /\ \/ ct.oldIPs[i] >= JmpRel \/ fn.insts[i].kind = "ret"
         \/ ct.newIPs[i + 1] \in ToSet(ct.newIPs)
  BY <1>1, <1>3, TheTrampoline DEF fn
<1> HIDE DEF ct
<1>6. CASE ~SlotLive(f, p.slot)
  <2>1. Go(t, Lost)
    BY <1>4, <1>6
  <2> QED
    BY <2>1, FreePlaces, GoKeeps
<1>7. CASE SlotLive(f, p.slot) /\ ct.oldIPs[i] >= JmpRel
  <2> DEFINE off == ct.oldIPs[i]
             q == Place("target", f, off, NoAddress, p.via, FALSE)
  <2>1. Relocated(p, "target", off, NoAddress, FALSE) = q
    BY <1>1, FourFields DEF f
  <2>2. Go(t, q)
    BY <1>4, <1>7, <2>1
  <2>3. IsPlace(q) /\ PositionOK(q)
    BY <1>1, <1>5, CodePlaces DEF ct, fn
  <2> HIDE DEF q
  <2> QED
    BY <2>2, <2>3, GoKeeps
<1>8. CASE SlotLive(f, p.slot) /\ ~(ct.oldIPs[i] >= JmpRel) /\ fn.insts[i].kind = "ret"
  <2>1. Go(t, Returned(p))
    BY <1>4, <1>8
  <2> QED
    BY <1>1, <2>1, ReturnedOK, GoKeeps
<1>9. CASE SlotLive(f, p.slot) /\ ~(ct.oldIPs[i] >= JmpRel) /\ fn.insts[i].kind # "ret"
  <2> DEFINE off == ct.newIPs[i + 1]
             q == Place("tramp", f, off, p.slot, p.via, p.late)
  <2>1. [p EXCEPT !.off = off] = q
    <3>1. [p EXCEPT !.off = off] = Place(p.in, p.fn, off, p.slot, p.via, p.late)
      BY <1>1, OneField
    <3> QED
      BY <1>1, <3>1 DEF f
  <2>2. Go(t, q)
    BY <1>4, <1>9, <2>1
  <2>3. off \in ToSet(ct.newIPs)
    BY <1>5, <1>9
  <2>4. IsPlace(q) /\ PositionOK(q)
    BY <1>1, <2>3, CodePlaces DEF ct
  <2> HIDE DEF q
  <2> QED
    BY <2>2, <2>4, GoKeeps
<1> QED
  BY SMTT(30), <1>6, <1>7, <1>8, <1>9

\* The other steps of a thread: above the function, in the relay.
LEMMA StepPositions ==
  ASSUME Positions, TableInv, OwnTrampolines, NEW t \in Threads, Step(t)
  PROVE  Positions'
<1>1. ASSUME StepAbove(t) PROVE Positions'
  <2> DEFINE p == at[t]
             f == p.fn
  <2>1. IsPlace(p) /\ p.in = "above" /\ f \in Fns /\ TrampolineOf[f].ok
    BY <1>1 DEF StepAbove, Positions, PlaceInv, PositionOK
  <2>2. Go(t, IF code[f] = "patched" THEN [p EXCEPT !.in = "relay", !.slot = Hook(f).slot]
              ELSE Lost)
    BY <1>1 DEF StepAbove
  <2> HIDE DEF p
  <2> DEFINE q == Place("relay", f, p.off, Hook(f).slot, p.via, p.late)
  <2>3. [p EXCEPT !.in = "relay", !.slot = Hook(f).slot] = q
    BY <2>1, TwoFields
  <2>4. IsPlace(q) /\ PositionOK(q)
    BY <2>1, CodePlaces
  <2> HIDE DEF q
  <2> QED
    BY <2>2, <2>3, <2>4, FreePlaces, GoKeeps
<1>2. ASSUME StepRelay(t) PROVE Positions'
  <2> DEFINE p == at[t]
             f == p.fn
             q == Place("detour", f, 0, NoAddress, FALSE, FALSE)
  <2>1. p.in = "relay" /\ f \in Fns /\ TrampolineOf[f].ok
    BY <1>2 DEF StepRelay, Positions, PositionOK
  <2>2. Go(t, IF SlotLive(f, p.slot) THEN q ELSE Lost)
    BY <1>2 DEF StepRelay
  <2>3. IsPlace(q) /\ PositionOK(q)
    BY <2>1, CodePlaces
  <2> HIDE DEF q
  <2> QED
    BY <2>2, <2>3, FreePlaces, GoKeeps
<1> QED
  BY <1>1, <1>2, TargetStep, TrampolineStep DEF Step

\* Freeze leaves a thread at a good place, out of the bytes of every hook that is
\* still to be enabled: who stood in them has gone to the trampoline, and who is
\* moved back goes to a function that is being restored.
LEMMA Processed ==
  ASSUME Table, OwnTrampolines, NEW p, IsPlace(p), PositionOK(p)
  PROVE  LET q == ProcessThreadIPs(p)
         IN  /\ IsPlace(q) /\ PositionOK(q)
             /\ \A i \in Pending : Wanted(job.op, hooks[i]) => ClearOf(hooks[i], q)
<1>1. \A i \in DOMAIN hooks : /\ hooks[i].target \in Fns /\ hooks[i].isEnabled \in BOOLEAN
                              /\ hooks[i].ct = TrampolineOf[hooks[i].target]
                              /\ TrampolineOf[hooks[i].target].ok
  <2>1. \A i \in DOMAIN hooks : hooks[i] \in Entries
    BY DEF Table, TableTypes
  <2> QED
    BY <2>1 DEF Entries, OwnTrampolines
<1>2. CASE Movers(p) = {}
  <2>1. ProcessThreadIPs(p) = p
    BY <1>2 DEF ProcessThreadIPs
  <2>2. ASSUME NEW i \in Pending, Wanted(job.op, hooks[i]), p.in = "target",
               p.fn = hooks[i].target
        PROVE  p.off >= PatchedBytes(hooks[i].ct)
    <3>1. /\ i \in DOMAIN hooks /\ job.fn \in {NoFn, hooks[i].target}
          /\ hooks[i].isEnabled # Wanted(job.op, hooks[i])
      BY DEF Pending
    <3>2. Direction(job.op, job.fn, hooks[i])
      BY <2>2 DEF Direction
    <3>3. ~HasNewIP(hooks[i], p)
      BY <1>1, <1>2, <2>2, <3>1, <3>2 DEF Movers, Direction
    <3>4. p.off \notin ToSet(hooks[i].ct.oldIPs)
      BY <2>2, <3>3 DEF HasNewIP
    <3>5. p.off \in Starts(FnCode[p.fn]) /\ p.fn \in Fns
      BY <2>2 DEF PositionOK
    <3>6. ~(p.off < PatchedBytes(hooks[i].ct))
      BY <1>1, <2>2, <3>1, <3>4, <3>5, TheTrampoline
    <3>7. p.off \in Nat /\ PatchedBytes(hooks[i].ct) \in Nat
      BY <3>5, TheCode DEF PatchedBytes, JmpRel, JmpRelShort
    <3> QED
      BY <3>6, <3>7
  <2>3. \A i \in Pending : Wanted(job.op, hooks[i]) => ClearOf(hooks[i], p)
    BY <2>2 DEF ClearOf
  <2> QED
    BY <2>1, <2>3
<1>3. CASE Movers(p) # {}
  <2> DEFINE m == CHOOSE i \in Movers(p) : TRUE
             f == hooks[m].target
             ct == TrampolineOf[f]
             q == ProcessThreadIPs(p)
  <2>1. m \in Movers(p)
    BY <1>3
  <2>2. q = IF Direction(job.op, job.fn, hooks[m]) THEN FindNewIP(hooks[m], p)
            ELSE FindOldIP(hooks[m], p)
    BY <1>3 DEF ProcessThreadIPs
  <2> HIDE DEF m, q
  <2>3. /\ m \in DOMAIN hooks
        /\ IF Direction(job.op, job.fn, hooks[m]) THEN HasNewIP(hooks[m], p)
           ELSE HasOldIP(hooks[m], p)
    BY <2>1 DEF Movers
  <2>4. f \in Fns /\ hooks[m].ct = ct /\ ct.ok
    BY <1>1, <2>3
  <2>5. /\ DOMAIN ct.oldIPs = DOMAIN ct.newIPs
        /\ \A j \in DOMAIN ct.newIPs : ct.newIPs[j] \in ToSet(ct.newIPs)
        /\ \A j \in DOMAIN ct.newIPs : ct.oldIPs[j] \in Starts(FnCode[f])
    BY <2>4, TheTrampoline
  <2> HIDE DEF f, ct
  <2>6. CASE Direction(job.op, job.fn, hooks[m])
    <3> DEFINE j == CHOOSE j \in DOMAIN ct.oldIPs : ct.oldIPs[j] = p.off
               off == ct.newIPs[j]
               r == Place("tramp", f, off, hooks[m].slot, p.via, FALSE)
    <3>1. p.off \in ToSet(ct.oldIPs)
      BY <2>3, <2>4, <2>6 DEF HasNewIP
    <3>2. \E k \in DOMAIN ct.oldIPs : ct.oldIPs[k] = p.off
      BY <3>1 DEF ToSet
    <3>3. j \in DOMAIN ct.oldIPs
      BY <3>2
    <3>4. q = r
      BY <2>2, <2>4, <2>6 DEF FindNewIP, f
    <3> HIDE DEF j
    <3>5. off \in ToSet(ct.newIPs)
      BY <2>5, <3>3
    <3> HIDE DEF off
    <3>6. IsPlace(r) /\ PositionOK(r)
      <4>1. f \in Fns /\ TrampolineOf[f].ok /\ off \in ToSet(TrampolineOf[f].newIPs)
        BY <2>4, <3>5 DEF ct
      <4> DEFINE via == p.via
                 slot == hooks[m].slot
      <4> HIDE DEF via, slot
      <4>2. IsPlace(Place("tramp", f, off, slot, via, FALSE))
            /\ PositionOK(Place("tramp", f, off, slot, via, FALSE))
        BY <4>1, CodePlaces
      <4> QED
        BY <4>2 DEF via, slot
    <3>7. r.in = "tramp"
      BY DEF Place
    <3> HIDE DEF r
    <3> QED
      BY <3>4, <3>6, <3>7 DEF ClearOf, q
  <2>7. CASE ~Direction(job.op, job.fn, hooks[m])
    <3> DEFINE j == CHOOSE j \in DOMAIN ct.newIPs : ct.newIPs[j] = p.off
               off == IF InTrampoline(hooks[m], p) THEN ct.oldIPs[j] ELSE 0
               r == Place("target", f, off, NoAddress, p.via, FALSE)
    <3>1. q = r
      BY <2>2, <2>4, <2>7 DEF FindOldIP, f
    <3>2. off \in Starts(FnCode[f])
      <4>1. CASE InTrampoline(hooks[m], p)
        <5>1. p.off \in ToSet(ct.newIPs)
          BY <2>4, <4>1 DEF InTrampoline
        <5>2. \E k \in DOMAIN ct.newIPs : ct.newIPs[k] = p.off
          BY <5>1 DEF ToSet
        <5>3. j \in DOMAIN ct.newIPs
          BY <5>2
        <5> HIDE DEF j
        <5> QED
          BY <2>5, <4>1, <5>3
      <4>2. CASE ~InTrampoline(hooks[m], p)
        BY <2>4, <4>2, TheCode
      <4> QED
        BY <4>1, <4>2
    <3> HIDE DEF off
    <3>3. IsPlace(r) /\ PositionOK(r)
      <4>1. f \in Fns /\ TrampolineOf[f].ok
        BY <2>4 DEF ct
      <4> DEFINE via == p.via
      <4> HIDE DEF via
      <4>2. IsPlace(Place("target", f, off, NoAddress, via, FALSE))
            /\ PositionOK(Place("target", f, off, NoAddress, via, FALSE))
        BY <3>2, <4>1, CodePlaces
      <4> QED
        BY <4>2 DEF via
    <3>4. r.fn = f
      BY DEF Place
    <3> HIDE DEF r
    <3>5. ASSUME NEW i \in Pending, Wanted(job.op, hooks[i]) PROVE hooks[i].target # f
      <4>1. i \in DOMAIN hooks /\ Direction(job.op, job.fn, hooks[i])
        BY <3>5 DEF Pending, Direction
      <4>2. i # m
        BY <2>7, <4>1
      <4> QED
        BY <2>3, <4>1, <4>2 DEF Table, TableInv, f
    <3>6. \A i \in Pending : Wanted(job.op, hooks[i]) => ClearOf(hooks[i], r)
      BY <3>4, <3>5 DEF ClearOf
    <3> QED
      BY <3>1, <3>3, <3>6 DEF q
  <2> QED
    BY <2>6, <2>7
<1> QED
  BY <1>2, <1>3

\* Whatever happens, threads stay at good places.
LEMMA PositionsKept ==
  ASSUME HookInv, Positions, OwnTrampolines, [Next]_vars
  PROVE  Positions'
<1>0. Table /\ TableInv
  BY DEF HookInv, Table
<1>1. CASE UNCHANGED at
  BY <1>1 DEF Positions, PlaceInv, PositionOK, IsPlace
<1>2. CASE rmemHookAllocs \/ rmemUnhookAllocs
  BY <1>1, <1>2 DEF rmemHookAllocs, rmemUnhookAllocs, minVars
<1>3. ASSUME NEW t \in Threads, Anything(t) \/ RecorderCall(t) \/ ProcessEnds(t) \/ MinHookCall(t)
      PROVE  UNCHANGED at
  BY <1>3 DEF Anything, RecorderCall, ProcessEnds, MinHookCall, EnterSpinLock, minVars
<1>4. ASSUME NEW t \in Threads, NEW f \in Fns, CallFunction(t, f)
      PROVE  Positions'
  <2> DEFINE q == Place("target", f, 0, NoAddress, FALSE, FALSE)
  <2>1. Go(t, q)
    BY <1>4 DEF CallFunction
  <2>2. 0 \in Starts(FnCode[f])
    BY TheCode
  <2>3. IsPlace(q) /\ PositionOK(q)
    BY <2>2, CodePlaces
  <2> HIDE DEF q
  <2> QED
    BY <2>1, <2>3, GoKeeps
<1>5. ASSUME NEW t \in Threads, Spawn(t) PROVE Positions'
  <2>1. Go(t, Outside)
    BY <1>5 DEF Spawn
  <2> QED
    BY <2>1, FreePlaces, GoKeeps
<1>6. ASSUME NEW t \in Threads, at[t].in = "detour", CallOriginal(t) PROVE Positions'
  <2> DEFINE f == at[t].fn
             q == Place("tramp", f, 0, original[f], TRUE, code[f] = "original")
  <2>1. Go(t, q)
    BY <1>6 DEF CallOriginal
  <2>2. f \in Fns /\ TrampolineOf[f].ok
    BY <1>6 DEF Positions, PositionOK
  <2>3. 0 \in ToSet(TrampolineOf[f].newIPs)
    BY <2>2, TheTrampoline
  <2>4. IsPlace(q) /\ PositionOK(q)
    BY <2>2, <2>3, CodePlaces
  <2> HIDE DEF q
  <2> QED
    BY <2>1, <2>4, GoKeeps
<1>7. ASSUME NEW t \in Threads, Detour(t) PROVE Positions'
  <2>1. at[t].in = "detour" /\ (Go(t, Outside) \/ CallOriginal(t))
    BY <1>7 DEF Detour
  <2> QED
    BY <1>6, <2>1, FreePlaces, GoKeeps
<1>8. ASSUME NEW t \in Threads, detour_exit(t) PROVE Positions'
  <2>1. CASE at[t].off = 2 /\ CallOriginal(t)
    BY <1>6, <1>8, <2>1 DEF detour_exit
  <2>2. CASE Go(t, [at[t] EXCEPT !.off = 2])
    <3> DEFINE p == at[t]
               f == p.fn
               q == Place("detour", f, 2, p.slot, p.via, p.late)
    <3>1. p.in = "detour" /\ IsPlace(p) /\ f \in Fns /\ TrampolineOf[f].ok
      BY <1>8 DEF detour_exit, Positions, PlaceInv, PositionOK
    <3> HIDE DEF p
    <3>2. [p EXCEPT !.off = 2] = Place(p.in, p.fn, 2, p.slot, p.via, p.late)
      BY <3>1, OneField
    <3>3. [p EXCEPT !.off = 2] = q
      BY <3>1, <3>2
    <3>4. IsPlace(q) /\ PositionOK(q)
      BY <3>1, CodePlaces
    <3> HIDE DEF q
    <3> QED
      BY <2>2, <3>3, <3>4, GoKeeps DEF p
  <2> QED
    BY <1>8, <2>1, <2>2 DEF detour_exit
<1>9. ASSUME NEW t \in Threads, NEW u \in Threads, Freeze(t, u) PROVE Positions'
  <2> SUFFICES ASSUME at' # at PROVE Positions'
    BY <1>1
  <2>1. Go(u, ProcessThreadIPs(at[u]))
    BY <1>9 DEF Freeze, Go
  <2>2. IsPlace(at[u]) /\ PositionOK(at[u])
    BY DEF Positions, PlaceInv
  <2>3. IsPlace(ProcessThreadIPs(at[u])) /\ PositionOK(ProcessThreadIPs(at[u]))
    BY <1>0, <2>2, Processed
  <2> QED
    BY <2>1, <2>3, GoKeeps
<1>10. ASSUME NEW t \in Threads, LibraryStep(t) PROVE Positions'
  <2>1. ASSUME \/ EnumerateThreads(t) \/ MH_Initialize(t) \/ MH_Uninitialize(t) \/ MH_RemoveHook(t)
               \/ EnableHook(t) \/ QueueHook(t)
               \/ \E u \in Threads : Unfreeze(t, u)
               \/ \E works \in BOOLEAN : EnableHookLL(t, works)
               \/ \E enough \in BOOLEAN : MH_CreateHook(t, enough)
        PROVE  UNCHANGED at
    BY <2>1 DEF EnumerateThreads, Unfreeze, EnableHookLL, MH_Initialize, MH_Uninitialize,
                MH_RemoveHook, EnableHook, QueueHook, MH_CreateHook, LeaveSpinLock
  <2> QED
    BY <1>1, <1>9, <1>10, <2>1 DEF LibraryStep, Library, Rewriting
<1>11. CASE UNCHANGED vars
  BY <1>1, <1>11 DEF vars, minVars
<1> QED
  BY <1>0, <1>1, <1>2, <1>3, <1>4, <1>5, <1>7, <1>8, <1>10, <1>11, StepPositions DEF Next

\* The table's trampolines are their functions'.
LEMMA OwnTrampolinesKept ==
  ASSUME HookInv, OwnTrampolines, [Next]_vars
  PROVE  OwnTrampolines'
<1>1. CASE UNCHANGED hooks
  BY <1>1 DEF OwnTrampolines
<1>2. ASSUME NEW t \in Threads, LibraryStep(t) PROVE OwnTrampolines'
  <2>1. Table /\ JobTypes
    BY DEF HookInv, Table
  <2>2. ASSUME NEW i \in DOMAIN hooks'
        PROVE  hooks'[i].ct = TrampolineOf[hooks'[i].target] /\ hooks'[i].ct.ok
    <3>1. \/ \E j \in DOMAIN hooks : Stays(i, j)
          \/ /\ hooks'[i].target = job.fn
             /\ hooks'[i].ct = TrampolineOf[job.fn] /\ TrampolineOf[job.fn].ok
      BY <1>2, <2>1, EntriesAfter
    <3> QED
      BY <3>1 DEF Stays, OwnTrampolines
  <2> QED
    BY <2>2 DEF OwnTrampolines, TrampolineOf
<1>3. (\A t \in Threads : ~LibraryStep(t)) => UNCHANGED hooks
  BY StepKinds DEF tableVars
<1> QED
  BY <1>1, <1>2, <1>3

\* Nobody outside the library moves a suspended thread.
LEMMA SuspendedStay ==
  ASSUME Positions, [Next]_vars, \A t \in Threads : ~LibraryStep(t), NEW u \in frozen
  PROVE  u \in Threads => at'[u] = at[u] \/ at'[u] = Outside
<1> SUFFICES ASSUME u \in Threads PROVE at'[u] = at[u] \/ at'[u] = Outside
  OBVIOUS
<1>0. DOMAIN at = Threads
  BY DEF Positions, PlaceInv
<1>1. CASE UNCHANGED at
  BY <1>1
<1>2. ASSUME NEW t \in Threads, NEW p, Go(t, p), t \notin frozen \/ p = Outside
      PROVE  at'[u] = at[u] \/ at'[u] = Outside
  <2>1. at' = [at EXCEPT ![t] = p]
    BY <1>2 DEF Go
  <2> QED
    BY <1>0, <1>2, <2>1
<1>3. CASE rmemHookAllocs \/ rmemUnhookAllocs
  BY <1>1, <1>3 DEF rmemHookAllocs, rmemUnhookAllocs, minVars
<1>4. ASSUME NEW t \in Threads, Anything(t) \/ RecorderCall(t) \/ ProcessEnds(t) \/ MinHookCall(t)
      PROVE  UNCHANGED at
  BY <1>4 DEF Anything, RecorderCall, ProcessEnds, MinHookCall, EnterSpinLock, minVars
<1>5. ASSUME NEW t \in Threads, NEW f \in Fns, CallFunction(t, f)
      PROVE  \E p : Go(t, p) /\ (t \notin frozen \/ p = Outside)
  BY <1>5 DEF CallFunction, Between
<1>6. ASSUME NEW t \in Threads, Spawn(t)
      PROVE  \E p : Go(t, p) /\ (t \notin frozen \/ p = Outside)
  BY <1>6 DEF Spawn
<1>7. ASSUME NEW t \in Threads, Detour(t) \/ detour_exit(t)
      PROVE  \E p : Go(t, p) /\ (t \notin frozen \/ p = Outside)
  BY Zenon, <1>7 DEF Detour, detour_exit, CallOriginal, Runs
<1>8. ASSUME NEW t \in Threads, Step(t)
      PROVE  \E p : Go(t, p) /\ (t \notin frozen \/ p = Outside)
  BY Zenon, <1>8 DEF Step, StepTarget, StepAbove, StepRelay, StepTrampoline, Runs
<1>9. CASE UNCHANGED vars
  BY <1>1, <1>9 DEF vars, minVars
<1> QED
  BY <1>1, <1>2, <1>3, <1>4, <1>5, <1>6, <1>7, <1>8, <1>9 DEF Next

\* The bytes of the hooks still to be enabled stay clear: Freeze clears them of one
\* thread more, EnableHookLL leaves fewer such hooks, and nothing else happens
\* while threads are suspended and hooks are to be changed.
LEMMA HeadsClearKept ==
  ASSUME HookInv, Positions, OwnTrampolines, HeadsClear, [Next]_vars
  PROVE  HeadsClear'
<1>0. /\ Table /\ JobTypes /\ TableInv /\ FreezeInv /\ FreezeInv' /\ DOMAIN at = Threads
  BY FreezeInvKept DEF HookInv, Table, Positions, PlaceInv
<1>1. ASSUME frozen' \ skipped' = {} \/ Pending' = {} PROVE HeadsClear'
  BY <1>1 DEF HeadsClear
<1>2. ASSUME UNCHANGED <<hooks, job>> PROVE Pending' = Pending
  BY <1>2 DEF Pending
<1>3. CASE \A t \in Threads : ~LibraryStep(t)
  <2>1. CASE UNCHANGED <<tableVars, lockVars>>
    <3>1. UNCHANGED <<hooks, job, frozen, skipped>>
      BY <2>1 DEF tableVars, lockVars
    <3>2. ASSUME NEW i \in Pending, NEW u \in frozen \ skipped, Wanted(job.op, hooks[i])
          PROVE  ClearOf(hooks[i], at'[u])
      <4>1. u \in Threads
        BY <1>0 DEF FreezeInv
      <4>2. at'[u] = at[u] \/ at'[u] = Outside
        BY <1>3, <4>1, SuspendedStay
      <4>3. ClearOf(hooks[i], at[u])
        BY <3>2 DEF HeadsClear
      <4>4. ClearOf(hooks[i], Outside)
        BY FixedPlaces DEF ClearOf
      <4> QED
        BY <4>2, <4>3, <4>4
    <3> QED
      BY <1>2, <3>1, <3>2 DEF HeadsClear, ClearOf, Wanted
  <2>2. ASSUME NEW t \in Threads, MinHookCall(t) PROVE frozen' \ skipped' = {}
    BY <1>0, <2>2, ThreadsAssumption DEF MinHookCall, EnterSpinLock, FreezeInv
  <2> QED
    BY <1>1, <1>3, <2>1, <2>2, StepKinds
<1>4. ASSUME NEW t \in Threads, LibraryStep(t) PROVE HeadsClear'
  <2>1. ASSUME EnumerateThreads(t) PROVE frozen' \ skipped' = {}
    BY <1>0, <2>1 DEF EnumerateThreads, FreezeInv
  <2>2. ASSUME NEW u \in Threads, Freeze(t, u) PROVE HeadsClear'
    <3>0. /\ UNCHANGED <<hooks, job>> /\ frozen' \ {u} = frozen \ {u} /\ skipped' \ {u} = skipped \ {u}
          /\ (u \in skipped' /\ UNCHANGED at) \/ at' = [at EXCEPT ![u] = ProcessThreadIPs(at[u])]
      BY <2>2 DEF Freeze, hookVars
    <3>1. \A v \in Threads : v # u => at'[v] = at[v]
      BY <1>0, <3>0
    <3>2. IsPlace(at[u]) /\ PositionOK(at[u])
      BY DEF Positions, PlaceInv
    <3>3. \A i \in Pending : Wanted(job.op, hooks[i]) => ClearOf(hooks[i], ProcessThreadIPs(at[u]))
      BY <1>0, <3>2, Processed
    <3>4. ASSUME NEW i \in Pending, NEW v \in frozen' \ skipped', Wanted(job.op, hooks[i])
          PROVE  ClearOf(hooks[i], at'[v])
      <4>1. CASE v = u
        BY <1>0, <3>0, <3>3, <3>4, <4>1
      <4>2. CASE v # u
        <5>1. v \in frozen \ skipped /\ at'[v] = at[v]
          BY <1>0, <3>0, <3>1, <4>2 DEF FreezeInv
        <5> QED
          BY <3>4, <5>1 DEF HeadsClear
      <4> QED
        BY <4>1, <4>2
    <3> QED
      BY <1>2, <3>0, <3>4 DEF HeadsClear, ClearOf, Wanted
  <2>3. ASSUME NEW u \in Threads, Unfreeze(t, u) PROVE Pending' = {}
    <3>1. UNCHANGED <<hooks, job>> /\ Pending = {}
      BY <2>3 DEF Unfreeze, hookVars
    <3> QED
      BY <1>2, <3>1
  <2>4. ASSUME NEW works \in BOOLEAN, EnableHookLL(t, works) PROVE HeadsClear'
    <3> DEFINE k == CHOOSE i \in Pending : \A j \in Pending : i <= j
               enable == Wanted(job.op, hooks[k])
               entry == [target |-> hooks[k].target, slot |-> hooks[k].slot, ct |-> hooks[k].ct,
                         isEnabled |-> enable, queueEnable |-> enable]
    <3>1. UNCHANGED <<frozen, skipped, at>>
      BY <2>4 DEF EnableHookLL
    <3>2. CASE works /\ hooks' = [hooks EXCEPT ![k] = entry] /\ job' = job
      <4> HIDE DEF k, enable
      <4>1. entry.target = hooks[k].target /\ entry.ct = hooks[k].ct
            /\ entry.isEnabled = enable /\ entry.queueEnable = enable
        OBVIOUS
      <4> HIDE DEF entry
      <4>2. DOMAIN hooks' = DOMAIN hooks
        BY <3>2
      <4>3. ASSUME NEW i \in DOMAIN hooks PROVE hooks'[i] = IF i = k THEN entry ELSE hooks[i]
        BY <3>2
      <4>4. ASSUME NEW i \in Pending' PROVE i \in DOMAIN hooks /\ hooks'[i] = hooks[i]
        <5>1. i \in DOMAIN hooks /\ hooks'[i].isEnabled # Wanted(job.op, hooks'[i])
          BY <3>2, <4>2 DEF Pending
        <5>2. i # k
          <6>1. ASSUME i = k PROVE FALSE
            <7>1. hooks'[i] = entry
              BY <4>3, <5>1, <6>1
            <7>2. enable # Wanted(job.op, entry)
              BY <4>1, <5>1, <7>1
            <7>3. Wanted(job.op, entry) <=> (job.op = "enable" \/ (job.op = "apply" /\ enable))
              <8>1. entry.queueEnable = enable
                BY <4>1
              <8> QED
                BY <8>1 DEF Wanted
            <7>4. enable <=> (job.op = "enable" \/ (job.op = "apply" /\ hooks[k].queueEnable))
              BY DEF enable, Wanted
            <7> QED
              <8>1. enable \in BOOLEAN /\ Wanted(job.op, entry) \in BOOLEAN
                BY DEF enable, Wanted
              <8>2. ~(enable <=> Wanted(job.op, entry))
                BY <7>2, <8>1
              <8> QED
                BY <7>3, <7>4, <8>2
          <6> QED
            BY <6>1
        <5> QED
          BY <4>3, <5>1, <5>2
      <4>5. ASSUME NEW i \in Pending' PROVE i \in Pending
        BY <3>2, <4>4, <4>5 DEF Pending
      <4>6. ASSUME NEW i \in Pending', NEW u \in frozen' \ skipped', Wanted(job.op, hooks'[i])
            PROVE  ClearOf(hooks'[i], at'[u])
        BY <3>1, <4>4, <4>5, <4>6 DEF HeadsClear
      <4> QED
        BY <3>2, <4>6 DEF HeadsClear, ClearOf, Wanted
    <3>3. CASE job' = [job EXCEPT !.ok = FALSE]
      <4>1. job'.ok = FALSE
        BY <1>0, <3>3 DEF JobTypes
      <4> QED
        BY <1>1, <4>1 DEF Pending
    <3> QED
      BY <2>4, <3>2, <3>3 DEF EnableHookLL
  <2>5. ASSUME \/ MH_Initialize(t) \/ MH_Uninitialize(t) \/ MH_RemoveHook(t)
               \/ EnableHook(t) \/ QueueHook(t) \/ \E enough \in BOOLEAN : MH_CreateHook(t, enough)
        PROVE  frozen' \ skipped' = {}
    BY <2>5 DEF Ready, MH_Initialize, MH_Uninitialize, MH_RemoveHook, EnableHook, QueueHook,
                MH_CreateHook, LeaveSpinLock
  <2> QED
    BY <1>1, <1>4, <2>1, <2>2, <2>3, <2>4, <2>5 DEF LibraryStep, Library, Rewriting
<1> QED
  BY <1>3, <1>4

\* Initially nobody is in a function and no hook is there.
LEMMA BytesInit == Init => BytesInv
<1> SUFFICES ASSUME Init PROVE BytesInv
  OBVIOUS
<1>1. hooks = << >> /\ frozen = {} /\ skipped = {}
      /\ at = [t \in Threads |-> IF t = Main THEN Outside ELSE Unborn]
  BY DEF Init, MinInit
<1>2. IsPlace(Outside) /\ PositionOK(Outside)
  BY FreePlaces
<1>3. IsPlace(Unborn) /\ PositionOK(Unborn)
  <2> DEFINE p == Outside
  <2>1. IsPlace(p) /\ p.via = FALSE
    BY FixedPlaces
  <2> HIDE DEF p
  <2>2. Unborn = Place("unborn", p.fn, p.off, p.slot, p.via, p.late)
    BY <2>1, OneField DEF Unborn, p
  <2>3. IsPlace(Unborn) /\ Unborn.in = "unborn" /\ Unborn.via = FALSE
    BY <2>1, <2>2 DEF Place, IsPlace
  <2> QED
    BY <2>3 DEF PositionOK
<1>4. DOMAIN hooks = {}
  BY <1>1
<1>5. Positions
  <2>1. \A t \in Threads : at[t] = Outside \/ at[t] = Unborn
    BY <1>1
  <2>2. at = [t \in Threads |-> at[t]]
    BY <1>1
  <2> QED
    BY <1>2, <1>3, <2>1, <2>2 DEF Positions, PlaceInv
<1> QED
  BY <1>1, <1>4, <1>5 DEF BytesInv, OwnTrampolines, HeadsClear

\* Threads are where they can be, the table has the right trampolines, and whoever
\* is suspended and could be examined is out of the bytes about to change.
THEOREM BytesInvariance == Spec => []BytesInv
<1>1. HookInv /\ BytesInv /\ [Next]_vars => BytesInv'
  BY PositionsKept, OwnTrampolinesKept, HeadsClearKept DEF BytesInv
<1> QED
  BY <1>1, BytesInit, HookInvariance, PTL DEF Spec

\* What is patched is the first hook still to be enabled, and whoever was
\* suspended and examined is out of its bytes (EnableHookLL after Freeze).
LEMMA PatchIsClear ==
  ASSUME HookInv, BytesInv, [Next]_vars, NEW f \in Fns, NEW t \in frozen \ skipped,
         code[f] = "original", code'[f] = "patched", at[t].in = "target", at[t].fn = f
  PROVE  at[t].off = 0 \/ at[t].off >= PatchedBytes(TrampolineOf[f])
<1>1. PICK u \in Threads, works \in BOOLEAN : EnableHookLL(u, works) /\ code' # code
  <2>1. code' # code
    OBVIOUS
  <2>2. PICK u \in Threads : LibraryStep(u)
    BY <2>1, StepKinds DEF tableVars
  <2>3. ~ \/ EnumerateThreads(u) \/ MH_Initialize(u) \/ MH_Uninitialize(u) \/ MH_RemoveHook(u)
          \/ EnableHook(u) \/ QueueHook(u)
          \/ \E v \in Threads : Freeze(u, v) \/ Unfreeze(u, v)
          \/ \E enough \in BOOLEAN : MH_CreateHook(u, enough)
    BY <2>1 DEF EnumerateThreads, Unfreeze, Freeze, MH_Initialize, MH_Uninitialize,
                MH_RemoveHook, EnableHook, QueueHook, MH_CreateHook, LeaveSpinLock
  <2> QED
    BY <2>1, <2>2, <2>3 DEF LibraryStep, Library, Rewriting
<1> DEFINE k == CHOOSE i \in Pending : \A j \in Pending : i <= j
           enable == Wanted(job.op, hooks[k])
<1>2. /\ Pending # {}
      /\ code' = [code EXCEPT ![hooks[k].target] = IF enable THEN "patched" ELSE "original"]
  BY <1>1 DEF EnableHookLL
<1>3. k \in Pending
  <2>1. Pending \subseteq Nat
    BY DEF Pending, HookInv, TableTypes
  <2> QED
    BY <1>2, <2>1, LeastNatural
<1> HIDE DEF k
<1>4. code \in [Fns -> {"original", "patched"}]
  BY DEF HookInv, TableTypes
<1>5. hooks[k].target = f /\ enable
  BY <1>2, <1>4
<1>6. ClearOf(hooks[k], at[t])
  BY <1>2, <1>3, <1>5 DEF BytesInv, HeadsClear
<1>7. hooks[k].ct = TrampolineOf[f]
  BY <1>3, <1>5 DEF BytesInv, OwnTrampolines, Pending
<1> QED
  BY <1>5, <1>6, <1>7 DEF ClearOf

\* No thread that Freeze suspended and could examine stands inside bytes that
\* EnableHookLL then replaces by the jump, whatever the functions' code, for any
\* threads and calls, and whatever else fails.
THEOREM NobodyEverInPatchedBytes == Spec => NobodyInPatchedBytes
<1>1. HookInv /\ BytesInv /\ [Next]_vars =>
        [\A f \in Fns, t \in frozen \ skipped :
           code[f] = "original" /\ code'[f] = "patched" /\ at[t].in = "target" /\ at[t].fn = f
           => at[t].off = 0 \/ at[t].off >= PatchedBytes(TrampolineOf[f])]_vars
  BY PatchIsClear
<1> QED
  BY <1>1, HookInvariance, BytesInvariance, PTL DEF Spec, NobodyInPatchedBytes
--------------------------------------------------------------------------------
\* The slot each function gets.

\* The blocks, and the slot of each function (NoAddress: it has none).
Nothing == [blocks |-> << >>, slots |-> [f \in Fns |-> NoAddress]]

\* What a call of rmemHookAllocs adds when nothing fails (MH_CreateHook).
AfterCall(b, c) ==
  LET buffer == AllocateBuffer(b.blocks, Address[c.fn])
  IN  IF \/ c.op # "create" \/ c.fn \notin Executable
         \/ b.slots[c.fn] # NoAddress \/ buffer.slot = NoAddress
      THEN b
      ELSE IF TrampolineOf[c.fn].ok
      THEN [blocks |-> buffer.blocks, slots |-> [b.slots EXCEPT ![c.fn] = buffer.slot]]
      ELSE [blocks |-> FreeBuffer(buffer.blocks, buffer.slot), slots |-> b.slots]

\* What there is after each of the first m calls of the script h.
BuiltBy(h, m, B) ==
  B = [k \in 0 .. m |-> IF k = 0 THEN Nothing ELSE AfterCall(B[k - 1], h[k])]
Built(h) == CHOOSE B : BuiltBy(h, Len(h), B)
SlotOf(h) == Built(h)[Len(h)].slots

\* There is such a table of what the calls build, for a script of any length.
LEMMA BuiltExists ==
  ASSUME NEW h, NEW m \in Nat
  PROVE  \E B : BuiltBy(h, m, B)
<1> DEFINE G == {k \in Nat : \E B : BuiltBy(h, k, B)}
<1>1. 0 \in G
  <2> DEFINE g == [n \in 0 .. 0 |-> Nothing]
  <2>1. BuiltBy(h, 0, g)
    BY DEF BuiltBy
  <2> HIDE DEF g
  <2> QED
    BY <2>1
<1>2. ASSUME NEW k \in G PROVE k + 1 \in G
  <2>1. PICK B : BuiltBy(h, k, B)
    OBVIOUS
  <2> DEFINE g == [n \in 0 .. (k + 1) |-> IF n <= k THEN B[n] ELSE AfterCall(B[n - 1], h[n])]
  <2>2. \A n \in 0 .. (k + 1) : g[n] = IF n = 0 THEN Nothing ELSE AfterCall(g[n - 1], h[n])
    <3>1. \A n \in 0 .. k : B[n] = IF n = 0 THEN Nothing ELSE AfterCall(B[n - 1], h[n])
      BY <2>1 DEF BuiltBy
    <3>2. g[k + 1] = AfterCall(B[k], h[k + 1])
      OBVIOUS
    <3>3. \A n \in 0 .. k : g[n] = B[n]
      OBVIOUS
    <3> HIDE DEF g
    <3> QED
      BY <3>1, <3>2, <3>3
  <2>3. BuiltBy(h, k + 1, g)
    BY <2>2 DEF BuiltBy
  <2> HIDE DEF g
  <2> QED
    BY <2>3
<1>3. G = Nat
  <2>1. G \in SUBSET Nat
    OBVIOUS
  <2> HIDE DEF G
  <2> QED
    BY <1>1, <1>2, <2>1, NatInduct
<1> QED
  BY <1>3

\* Built follows the script call by call.
LEMMA BuiltIs ==
  ASSUME NEW h, Len(h) \in Nat
  PROVE  /\ Built(h)[0] = Nothing
         /\ \A k \in 1 .. Len(h) : Built(h)[k] = AfterCall(Built(h)[k - 1], h[k])
<1> DEFINE B == Built(h)
<1>1. BuiltBy(h, Len(h), B)
  BY BuiltExists DEF Built
<1> HIDE DEF B
<1>2. \A k \in 0 .. Len(h) : B[k] = IF k = 0 THEN Nothing ELSE AfterCall(B[k - 1], h[k])
  BY <1>1 DEF BuiltBy
<1>3. B[0] = Nothing
  BY <1>2
<1>4. \A k \in 1 .. Len(h) : B[k] = AfterCall(B[k - 1], h[k])
  BY <1>2
<1> QED
  BY <1>3, <1>4 DEF B

\* Every function has a slot of its own, and the blocks are sound.
Good(b) ==
  /\ Sound(b.blocks) /\ b.slots \in [Fns -> Nat]
  /\ \A f \in Fns : b.slots[f] # NoAddress => b.slots[f] \in SlotsInUse(b.blocks)
  /\ \A f, g \in Fns : b.slots[f] = b.slots[g] /\ b.slots[f] # NoAddress => f = g

\* No slot is at address NULL.
LEMMA SlotsAreSomewhere ==
  ASSUME NEW bs, Sound(bs)
  PROVE  NoAddress \notin SlotsInUse(bs)
<1> SUFFICES ASSUME NoAddress \in SlotsInUse(bs) PROVE FALSE
  OBVIOUS
<1>1. PICK i \in DOMAIN bs : NoAddress \in bs[i].base + 1 .. bs[i].base + BlockSlots - 1
  BY DEF SlotsInUse
<1>2. bs[i].base \in Granules
  BY DEF Sound, BufferOK
<1>3. bs[i].base \in Nat
  BY <1>2, AppAssumption DEF Granules
<1> QED
  BY <1>1, <1>3, BlockAssumption DEF NoAddress

\* A call keeps the slots apart and takes none away.
LEMMA CallKeepsGood ==
  ASSUME NEW b, Good(b), NEW c
  PROVE  /\ Good(AfterCall(b, c))
         /\ \A f \in Fns : b.slots[f] # NoAddress => AfterCall(b, c).slots[f] = b.slots[f]
<1> DEFINE f == c.fn
           buffer == AllocateBuffer(b.blocks, Address[f])
           d == AfterCall(b, c)
           slots == [b.slots EXCEPT ![f] = buffer.slot]
           Kept == Good(d) /\ \A g \in Fns : b.slots[g] # NoAddress => d.slots[g] = b.slots[g]
<1>0. Kept => /\ Good(AfterCall(b, c))
              /\ \A g \in Fns : b.slots[g] # NoAddress => AfterCall(b, c).slots[g] = b.slots[g]
  OBVIOUS
<1>1. ASSUME d = b PROVE Kept
  BY <1>1
<1>2. ASSUME /\ f \in Executable /\ b.slots[f] = NoAddress /\ buffer.slot # NoAddress
             /\ \/ d = [blocks |-> buffer.blocks, slots |-> slots]
                \/ d = [blocks |-> FreeBuffer(buffer.blocks, buffer.slot), slots |-> b.slots]
      PROVE  Kept
  <2>1. f \in Fns /\ Address[f] \in Nat /\ Sound(b.blocks) /\ b.slots \in [Fns -> Nat]
    BY <1>2, FnsAssumption, AddressAssumption DEF Good
  <2>2. /\ Sound(buffer.blocks) /\ buffer.slot \in Nat /\ buffer.slot \notin SlotsInUse(b.blocks)
        /\ SlotsInUse(buffer.blocks) = SlotsInUse(b.blocks) \cup {buffer.slot}
    <3> DEFINE origin == Address[f]
    <3>1. buffer = AllocateBuffer(b.blocks, origin) /\ origin \in Nat /\ buffer.slot # NoAddress
      BY <1>2, <2>1
    <3> HIDE DEF buffer, origin
    <3> QED
      BY <2>1, <3>1, AllocateBufferGives
  <2>3. /\ Sound(FreeBuffer(buffer.blocks, buffer.slot))
        /\ SlotsInUse(FreeBuffer(buffer.blocks, buffer.slot)) = SlotsInUse(buffer.blocks) \ {buffer.slot}
    BY <2>2, FreeBufferGives
  <2>4. slots \in [Fns -> Nat] /\ \A g \in Fns : slots[g] = IF g = f THEN buffer.slot ELSE b.slots[g]
    BY <2>1, <2>2
  <2> HIDE DEF buffer, slots, f
  <2>5. CASE d = [blocks |-> buffer.blocks, slots |-> slots]
    <3>1. d.blocks = buffer.blocks /\ d.slots = slots
      BY <2>5
    <3> HIDE DEF d
    <3>2. \A g \in Fns : slots[g] # NoAddress => slots[g] \in SlotsInUse(buffer.blocks)
      BY <2>2, <2>4 DEF Good
    <3>3. \A g, e \in Fns : slots[g] = slots[e] /\ slots[g] # NoAddress => g = e
      BY <1>2, <2>2, <2>4 DEF Good
    <3>4. \A g \in Fns : b.slots[g] # NoAddress => slots[g] = b.slots[g]
      BY <1>2, <2>4
    <3> QED
      BY <2>2, <2>4, <3>1, <3>2, <3>3, <3>4 DEF Good
  <2>6. CASE d = [blocks |-> FreeBuffer(buffer.blocks, buffer.slot), slots |-> b.slots]
    <3>1. d.blocks = FreeBuffer(buffer.blocks, buffer.slot) /\ d.slots = b.slots
      BY <2>6
    <3> HIDE DEF d
    <3>2. SlotsInUse(d.blocks) = SlotsInUse(b.blocks)
      BY <2>2, <2>3, <3>1
    <3> QED
      BY <2>3, <3>1, <3>2 DEF Good
  <2> QED
    BY <1>2, <2>5, <2>6
<1>3. \/ d = b
      \/ /\ f \in Executable /\ b.slots[f] = NoAddress /\ buffer.slot # NoAddress
         /\ \/ d = [blocks |-> buffer.blocks, slots |-> slots]
            \/ d = [blocks |-> FreeBuffer(buffer.blocks, buffer.slot), slots |-> b.slots]
  BY DEF AfterCall
<1> HIDE DEF Kept, d, buffer, slots
<1> QED
  BY <1>0, <1>1, <1>2, <1>3

\* So the script never gives two functions the same slot.
LEMMA BuiltGood ==
  ASSUME NEW h, Len(h) \in Nat, NEW k \in 0 .. Len(h)
  PROVE  Good(Built(h)[k])
<1> DEFINE G == {n \in Nat : n <= Len(h) => Good(Built(h)[n])}
<1>1. Good(Nothing)
  <2>1. Nothing.blocks = << >> /\ Nothing.slots = [f \in Fns |-> NoAddress]
    BY DEF Nothing
  <2>2. << >> \in Seq(Blocks) /\ DOMAIN << >> = {}
    OBVIOUS
  <2>3. Sound(<< >>)
    BY <2>2 DEF Sound, BufferOK
  <2> QED
    BY <2>1, <2>3 DEF Good, NoAddress
<1>2. 0 \in G
  BY <1>1, BuiltIs
<1>3. ASSUME NEW n \in G PROVE n + 1 \in G
  <2>1. SUFFICES ASSUME n + 1 <= Len(h) PROVE Good(Built(h)[n + 1])
    OBVIOUS
  <2>2. Good(Built(h)[n])
    BY <2>1
  <2>3. n + 1 \in 1 .. Len(h) /\ (n + 1) - 1 = n
    BY <2>1
  <2>4. Built(h)[n + 1] = AfterCall(Built(h)[n], h[n + 1])
    BY <2>3, BuiltIs
  <2> QED
    BY <2>2, <2>4, CallKeepsGood
<1>4. G = Nat
  <2>1. G \in SUBSET Nat
    OBVIOUS
  <2> HIDE DEF G
  <2> QED
    BY <1>2, <1>3, <2>1, NatInduct
<1> QED
  BY <1>4

\* A slot once given stays: it is the function's in the end.
LEMMA BuiltGrows ==
  ASSUME NEW h, Len(h) \in Nat, NEW k \in 0 .. Len(h), NEW f \in Fns,
         Built(h)[k].slots[f] # NoAddress
  PROVE  SlotOf(h)[f] = Built(h)[k].slots[f]
<1> DEFINE n == Len(h)
           v == Built(h)[k].slots[f]
           G == {d \in Nat : k + d <= n => Built(h)[k + d].slots[f] = v}
<1>1. 0 \in G
  OBVIOUS
<1>2. ASSUME NEW d \in G PROVE d + 1 \in G
  <2>1. SUFFICES ASSUME k + (d + 1) <= n PROVE Built(h)[k + (d + 1)].slots[f] = v
    OBVIOUS
  <2>2. /\ k + d \in 0 .. n /\ k + (d + 1) \in 1 .. n /\ (k + (d + 1)) - 1 = k + d
    BY <2>1
  <2>3. Built(h)[k + d].slots[f] = v
    BY <2>2
  <2>4. Good(Built(h)[k + d])
    BY <2>2, BuiltGood
  <2>5. Built(h)[k + (d + 1)] = AfterCall(Built(h)[k + d], h[k + (d + 1)])
    BY <2>2, BuiltIs
  <2> QED
    BY <2>3, <2>4, <2>5, CallKeepsGood
<1>3. G = Nat
  <2>1. G \in SUBSET Nat
    OBVIOUS
  <2> HIDE DEF G
  <2> QED
    BY <1>1, <1>2, <2>1, NatInduct
<1>4. n - k \in G /\ k + (n - k) = n
  <2>1. n - k \in Nat /\ k + (n - k) = n
    OBVIOUS
  <2> HIDE DEF G
  <2> QED
    BY <1>3, <2>1
<1> QED
  BY <1>4 DEF SlotOf
--------------------------------------------------------------------------------
\* When rmemHookAllocs is at work, and with which of its calls.

AtWork == calls % 2 = 1 /\ ~Resting(Main) /\ ~InExit(Main)

\* rmemHookAllocs is at work exactly while Main is in its script.
LEMMA WorkIsHooking ==
  ASSUME NEW h, NEW w, Facts(h, w)
  PROVE  AtWork <=> \E k \in Nat : Hooking(h, k)
<1>1. ASSUME AtWork PROVE \E k \in Nat : Hooking(h, k)
  <2>1. ~Unhooks(Main)
    <3>1. calls \in Nat
      BY DEF Facts, CallInv
    <3> QED
      BY <1>1, <3>1 DEF AtWork, Unhooks
  <2>2. ~Using(w)
    BY <1>1, <2>1, MainAssumption DEF AtWork, Using
  <2> QED
    BY <2>2 DEF Facts, On
<1>2. ASSUME NEW k \in Nat, Hooking(h, k) PROVE AtWork
  <2>1. calls % 2 = 1 /\ OnScript(Main, h, k) /\ k <= Len(h) /\ h \in Seq(ScriptCalls) /\ Len(h) \in Nat
    BY <1>2 DEF Hooking, Facts, HookShape
  <2>2. ~Resting(Main)
    <3>1. Resting(Main) => k = Len(h) + 1
      BY <2>1, ScriptThrough
    <3> QED
      BY <2>1, <3>1
  <2>3. ~InExit(Main)
    <3>1. InExit(Main) => linkerBased /\ at[Main].fn = Exit
      BY MainAssumption, ExitUnhooks DEF Facts
    <3> QED
      BY <1>2, <3>1, MainAssumption DEF Hooking
  <2> QED
    BY <2>1, <2>2, <2>3 DEF AtWork
<1> QED
  BY <1>1, <1>2

\* What is left of a script tells the position in it.
LEMMA WhichCall ==
  ASSUME NEW s \in Seq(ScriptCalls), NEW j \in 1 .. Len(s) + 1, NEW k \in 1 .. Len(s) + 1,
         SubSeq(s, j, Len(s)) = SubSeq(s, k, Len(s))
  PROVE  j = k
<1> DEFINE n == Len(s)
<1>1. n \in Nat /\ \A i \in 1 .. n : s[i] \in ScriptCalls
  OBVIOUS
<1>2. ASSUME NEW i \in 1 .. n + 1 PROVE Len(SubSeq(s, i, n)) = n + 1 - i
  <2>1. Len(SubSeq(s, i, n)) = IF i <= n THEN n - i + 1 ELSE 0
    BY <1>1, SubSeqProperties
  <2> HIDE DEF n
  <2> QED
    BY <1>1, <2>1
<1>3. n + 1 - j = n + 1 - k
  BY <1>2
<1> HIDE DEF n
<1> QED
  BY <1>1, <1>3 DEF n

\* What a step can be, for the scripts.
LEMMA ScriptSteps ==
  ASSUME [Next]_vars, client = "rmem"
  PROVE  \/ rmemHookAllocs \/ rmemUnhookAllocs
         \/ \E t \in Threads : MinHookCall(t) \/ RecorderCall(t) \/ ExitBegins(t) \/ LibraryStep(t)
         \/ UNCHANGED <<tableVars, lockVars, original, fails, todo, calls>>
<1>1. CASE UNCHANGED vars
  BY <1>1 DEF vars, minVars, hookVars, tableVars, lockVars, winVars
<1>2. ASSUME NEW t \in Threads, Anything(t) PROVE FALSE
  BY <1>2 DEF Anything
<1>3. ASSUME NEW t \in Threads,
             \/ Spawn(t) \/ Detour(t) \/ ProcessEnds(t) \/ Step(t) \/ \E f \in Fns : CallFunction(t, f)
      PROVE  UNCHANGED <<tableVars, lockVars, original, fails, todo, calls>>
  BY <1>3 DEF Spawn, Detour, ProcessEnds, Step, CallFunction, minVars, winVars, hookVars, tableVars, lockVars
<1>4. ASSUME NEW t \in Threads, detour_exit(t), ~ExitBegins(t)
      PROVE  UNCHANGED <<tableVars, lockVars, original, fails, todo, calls>>
  BY <1>4 DEF detour_exit, ExitBegins, hookVars, tableVars, lockVars
<1> QED
  BY <1>1, <1>2, <1>3, <1>4 DEF Next

\* Only rmemHookAllocs begins such work.
LEMMA WorkBegins ==
  ASSUME NEW h, NEW w, Facts(h, w), [Next]_vars, ~AtWork, AtWork'
  PROVE  rmemHookAllocs
<1>1. /\ calls \in Nat /\ client = "rmem" /\ Main \in Threads /\ NoThread # Main
      /\ DOMAIN todo = Threads
  BY MainAssumption, ThreadsAssumption DEF Facts, CallInv, HookInv, TodoTypes
<1>2. calls' % 2 = 1 /\ ~Resting(Main)' /\ ~InExit(Main)'
  BY DEF AtWork
<1>3. ASSUME rmemUnhookAllocs PROVE FALSE
  <2>1. calls % 2 = 1 /\ calls' = calls + 1
    BY <1>3 DEF rmemUnhookAllocs
  <2> QED
    BY <1>1, <1>2, <2>1
<1>4. ASSUME NEW t \in Threads, ExitBegins(t)
      PROVE  /\ InExit(t) /\ Resting(t) /\ UNCHANGED <<calls, owner>>
             /\ t # Main => UNCHANGED <<at[Main], todo[Main]>>
             /\ t = Main => InExit(Main)'
  <2>1. /\ UNCHANGED <<calls, owner>> /\ InExit(t) /\ Resting(t)
        /\ at' = [at EXCEPT ![t] = [at[t] EXCEPT !.off = 2]]
        /\ todo' = [todo EXCEPT ![t] = UnhookAllocs(linkerBased)]
    BY <1>4 DEF ExitBegins, detour_exit, InExit, Resting, Runs, Go, CallOriginal
  <2>2. DOMAIN at = Threads /\ IsPlace(at[t])
    BY DEF Facts, PlaceInv
  <2>3. at'[t] = Place(at[t].in, at[t].fn, 2, at[t].slot, at[t].via, at[t].late)
    BY <2>1, <2>2, OneField
  <2>4. at'[t].in = at[t].in /\ at'[t].fn = at[t].fn
    BY <2>3, Fields
  <2> QED
    BY <1>1, <2>1, <2>2, <2>4 DEF InExit
<1>5. CASE UNCHANGED <<tableVars, lockVars, original, fails, todo, calls>>
           \/ \E t \in Threads : MinHookCall(t) \/ RecorderCall(t) \/ LibraryStep(t)
  <2>1. UNCHANGED calls
    BY <1>5 DEF MinHookCall, RecorderCall, LibraryStep, winVars
  <2>2. ASSUME Resting(Main) PROVE Resting(Main)'
    <3>1. ASSUME NEW t \in Threads, MinHookCall(t) \/ RecorderCall(t) PROVE Resting(Main)'
      <4>1. t # Main /\ todo' = [todo EXCEPT ![t] = Tail(todo[t])] /\ owner' \in {owner, t}
        BY <2>2, <3>1 DEF MinHookCall, RecorderCall, EnterSpinLock, Resting, minVars
      <4> QED
        BY <1>1, <2>2, <4>1 DEF Resting
    <3>2. ASSUME NEW t \in Threads, LibraryStep(t) PROVE Resting(Main)'
      <4>1. UNCHANGED todo /\ owner = t /\ owner' \in {t, NoThread}
        BY <3>2, LibraryCases DEF Quiet, EnumerateThreads, Freeze, Unfreeze
      <4> QED
        BY <1>1, <2>2, <4>1 DEF Resting
    <3> QED
      BY <1>5, <2>2, <3>1, <3>2 DEF Resting, lockVars
  <2>3. InExit(Main) /\ ~Resting(Main)
    BY <1>2, <2>1, <2>2 DEF AtWork
  <2>4. ASSUME NEW t \in Threads, ExitBegins(t), t = Main PROVE FALSE
    BY <1>4, <2>3, <2>4
  <2>5. at'[Main] = at[Main]
    <3>1. CASE \A t \in Threads : ~ExitBegins(t)
      <4>1. Moves
        BY <1>1, <3>1, AllMove, OwnCalls DEF Facts, On, HookInv, Table
      <4> QED
        BY <1>1, <2>3, <4>1 DEF Moves, Moved, InExit
    <3>2. ASSUME NEW t \in Threads, ExitBegins(t) PROVE at'[Main] = at[Main]
      BY <1>4, <2>4, <3>2
    <3> QED
      BY <3>1, <3>2
  <2> QED
    BY <1>2, <2>3, <2>5 DEF InExit
<1>6. ASSUME NEW t \in Threads, ExitBegins(t) PROVE FALSE
  <2>1. t # Main
    BY <1>2, <1>4, <1>6
  <2>2. UNCHANGED <<calls, owner, at[Main], todo[Main]>>
    BY <1>4, <1>6, <2>1
  <2> QED
    BY <2>2 DEF AtWork, Resting, InExit
<1> QED
  BY <1>1, <1>3, <1>5, <1>6, ScriptSteps

\* While it is, it goes from call to call: the next one comes when the library is
\* through with one.
LEMMA WorkGoesOn ==
  ASSUME NEW h, NEW w, Facts(h, w), [Next]_vars,
         NEW k \in Nat, Hooking(h, k), NEW j \in Nat, Hooking(h, j)'
  PROVE  /\ \A t \in Threads : LibraryStep(t) => t = Main /\ j = IF owner' = t THEN k ELSE k + 1
         /\ (\A t \in Threads : ~LibraryStep(t)) => j = k
<1>1. /\ h \in Seq(ScriptCalls) /\ Len(h) \in Nat /\ DOMAIN todo = Threads
      /\ client = "rmem" /\ Main \in Threads /\ NoThread # Main
  BY MainAssumption, ThreadsAssumption DEF Facts, HookShape, HookInv, TodoTypes
<1>2. k \in 1 .. Len(h) /\ OnScript(Main, h, k) /\ \A u \in Threads \ {Main} : Resting(u)
  BY <1>1 DEF Hooking, OnScript
<1>3. j \in 1 .. Len(h) /\ OnScript(Main, h, j)'
  BY <1>1 DEF Hooking, OnScript
<1>4. j + 1 \in 1 .. Len(h) + 1 /\ k + 1 \in 1 .. Len(h) + 1 /\ j \in 1 .. Len(h) + 1 /\ k \in 1 .. Len(h) + 1
  BY <1>1, <1>2, <1>3
<1>5. ASSUME todo'[Main] = todo[Main], owner' = Main <=> owner = Main PROVE j = k
  <2>1. CASE owner = Main
    <3>1. SubSeq(h, j + 1, Len(h)) = SubSeq(h, k + 1, Len(h))
      BY <1>2, <1>3, <1>5, <2>1 DEF OnScript
    <3>2. j + 1 = k + 1
      BY <1>1, <1>4, <3>1, WhichCall
    <3> QED
      BY <3>2
  <2>2. CASE owner # Main
    <3>1. SubSeq(h, j, Len(h)) = SubSeq(h, k, Len(h))
      BY <1>2, <1>3, <1>5, <2>2 DEF OnScript
    <3> QED
      BY <1>1, <1>4, <3>1, WhichCall
  <2> QED
    BY <2>1, <2>2
<1>6. ASSUME NEW t \in Threads, LibraryStep(t)
      PROVE  t = Main /\ j = IF owner' = t THEN k ELSE k + 1
  <2>1. owner = t /\ UNCHANGED todo /\ t = Main
    BY <1>6, LibraryCases, HookingCall
  <2>2. CASE owner' = t
    BY <1>5, <2>1, <2>2
  <2>3. CASE owner' # t
    <3>1. SubSeq(h, j, Len(h)) = SubSeq(h, k + 1, Len(h))
      BY <1>2, <1>3, <2>1, <2>3 DEF OnScript
    <3>2. j = k + 1
      BY <1>1, <1>4, <3>1, WhichCall
    <3> QED
      BY <2>1, <2>3, <3>2
  <2> QED
    BY <2>1, <2>2, <2>3
<1>7. ASSUME rmemHookAllocs \/ rmemUnhookAllocs PROVE FALSE
  <2>1. Resting(Main)
    BY <1>7 DEF rmemHookAllocs, rmemUnhookAllocs, Between, Resting
  <2> QED
    BY <1>1, <1>2, <2>1, ScriptThrough
<1>8. ASSUME NEW t \in Threads, MinHookCall(t) \/ RecorderCall(t)
      PROVE  /\ t = Main /\ owner # Main
             /\ todo'[Main] = SubSeq(h, k + 1, Len(h))
  <2>1. /\ owner # t /\ todo[t] # << >> /\ todo' = [todo EXCEPT ![t] = Tail(todo[t])]
    BY <1>8 DEF MinHookCall, RecorderCall, Between
  <2>2. t = Main
    BY <1>2, <2>1 DEF Resting
  <2>3. todo[Main] = SubSeq(h, k, Len(h))
    BY <1>2, <2>1, <2>2 DEF OnScript
  <2>4. Tail(todo[Main]) = SubSeq(h, k + 1, Len(h))
    BY <1>1, <1>2, <2>3, NextCall
  <2> QED
    BY <1>1, <2>1, <2>2, <2>4
<1>9. ASSUME NEW t \in Threads, MinHookCall(t) PROVE j = k
  <2>1. owner' = t /\ t = Main /\ todo'[Main] = SubSeq(h, k + 1, Len(h))
    BY <1>8, <1>9 DEF MinHookCall, EnterSpinLock
  <2>2. SubSeq(h, j + 1, Len(h)) = SubSeq(h, k + 1, Len(h))
    BY <1>3, <2>1 DEF OnScript
  <2>3. j + 1 = k + 1
    BY <1>1, <1>4, <2>2, WhichCall
  <2> QED
    BY <2>3
<1>10. ASSUME NEW t \in Threads, RecorderCall(t) PROVE FALSE
  <2>1. /\ t = Main /\ owner # Main /\ owner' = owner /\ todo'[Main] = SubSeq(h, k + 1, Len(h))
        /\ Head(todo[Main]).op \in {"rmemInit", "rmemShutDown"}
    BY <1>8, <1>10 DEF RecorderCall, minVars
  <2>2. h[k].op \in {"rmemInit", "rmemShutDown"}
    <3>1. todo[Main] = SubSeq(h, k, Len(h))
      BY <1>2, <2>1 DEF OnScript
    <3> QED
      BY <1>1, <1>2, <2>1, <3>1, NextCall
  <2>3. k = Len(h)
    BY <1>2, <2>2, RecorderCalls DEF Facts
  <2>4. SubSeq(h, j, Len(h)) = SubSeq(h, k + 1, Len(h))
    BY <1>3, <2>1 DEF OnScript
  <2>5. j = k + 1
    BY <1>1, <1>4, <2>4, WhichCall
  <2> QED
    BY <1>1, <1>3, <2>3, <2>5
<1>11. ASSUME NEW t \in Threads, ExitBegins(t) PROVE j = k
  <2>1. /\ InExit(t) /\ UNCHANGED owner /\ todo' = [todo EXCEPT ![t] = UnhookAllocs(linkerBased)]
    BY <1>11 DEF ExitBegins, detour_exit, InExit
  <2>2. t # Main
    BY <2>1, WorkIsHooking DEF AtWork
  <2> QED
    BY <1>1, <1>5, <2>1, <2>2
<1>12. ASSUME UNCHANGED <<tableVars, lockVars, original, fails, todo, calls>> PROVE j = k
  BY <1>5, <1>12 DEF lockVars
<1> QED
  BY <1>1, <1>6, <1>7, <1>9, <1>10, <1>11, <1>12, ScriptSteps

\* It ends with rmemInit.
LEMMA WorkEnds ==
  ASSUME NEW h, NEW w, Facts(h, w), [Next]_vars, AtWork, ~AtWork'
  PROVE  Hooking(h, Len(h)) /\ \E t \in Threads : RecorderCall(t)
<1>1. PICK k \in Nat : Hooking(h, k)
  BY WorkIsHooking
<1>2. /\ h \in Seq(ScriptCalls) /\ Len(h) \in Nat /\ DOMAIN todo = Threads
      /\ client = "rmem" /\ Main \in Threads /\ NoThread # Main
  BY MainAssumption, ThreadsAssumption DEF Facts, HookShape, HookInv, TodoTypes
<1>3. k \in 1 .. Len(h) /\ OnScript(Main, h, k) /\ \A u \in Threads \ {Main} : Resting(u)
  BY <1>1, <1>2 DEF Hooking, OnScript
<1>4. ASSUME rmemHookAllocs \/ rmemUnhookAllocs PROVE FALSE
  <2>1. Resting(Main)
    BY <1>4 DEF rmemHookAllocs, rmemUnhookAllocs, Between, Resting
  <2> QED
    BY <2>1 DEF AtWork
<1>5. ASSUME NEW t \in Threads, ExitBegins(t) PROVE InExit(t) /\ Resting(t)
  BY <1>5 DEF ExitBegins, detour_exit, InExit, Resting, Runs
<1>6. \A t \in Threads : ~ExitBegins(t)
  <2>1. ASSUME NEW t \in Threads, InExit(t) PROVE FALSE
    <3>1. linkerBased /\ at[t].fn = Exit
      BY <2>1, ExitUnhooks DEF Facts
    <3> QED
      BY <1>1, <3>1 DEF Hooking
  <2> QED
    BY <1>5, <2>1
<1>7. ~InExit(Main)'
  <2>1. Moves
    BY <1>2, <1>6, AllMove, OwnCalls DEF Facts, On, HookInv, Table
  <2>2. Moved(Main)
    BY <1>2, <2>1 DEF Moves
  <2>3. SUFFICES ASSUME at'[Main].in = "detour", at'[Main].fn = Exit PROVE FALSE
    BY DEF InExit
  <2>4. Hooked(Exit)
    <3>1. at'[Main] # at[Main]
      BY <2>3 DEF AtWork, InExit
    <3> QED
      BY <2>2, <2>3, <3>1 DEF Moved
  <2>5. linkerBased
    BY <2>4 DEF Facts, ExitInv
  <2>6. at[Main].fn # Exit
    BY <1>1, <1>2, <2>5 DEF Hooking
  <2>7. calls > 0 /\ Resting(Main)
    BY <2>2, <2>3, <2>5, <2>6 DEF Moved
  <2> QED
    BY <2>7 DEF AtWork
<1>8. UNCHANGED calls
  BY <1>2, <1>4, <1>6, ScriptSteps DEF MinHookCall, RecorderCall, LibraryStep, winVars
<1>9. Resting(Main)'
  BY <1>7, <1>8 DEF AtWork
<1>10. ASSUME NEW t \in Threads, MinHookCall(t) PROVE FALSE
  <2>1. t = Main /\ owner' = t
    BY <1>3, <1>10 DEF MinHookCall, EnterSpinLock, Resting
  <2> QED
    BY <1>9, <2>1 DEF Resting
<1>11. ASSUME NEW t \in Threads, LibraryStep(t) PROVE FALSE
  <2>1. /\ owner = t /\ UNCHANGED todo /\ t = Main /\ k \in 1 .. Len(h) - 1
    BY <1>1, <1>11, LibraryCases, HookingCall
  <2>2. SubSeq(h, k + 1, Len(h)) = << >>
    BY <1>3, <1>9, <2>1 DEF Resting, OnScript
  <2>3. k + 1 \in 1 .. Len(h)
    BY <1>2, <2>1
  <2> QED
    BY <1>2, <2>2, <2>3, NextCall
<1>12. ASSUME UNCHANGED <<tableVars, lockVars, original, fails, todo, calls>> PROVE FALSE
  BY <1>9, <1>12 DEF AtWork, Resting, lockVars
<1>13. PICK t \in Threads : RecorderCall(t)
  BY <1>2, <1>4, <1>6, <1>10, <1>11, <1>12, ScriptSteps
<1>14. k = Len(h)
  <2>1. t = Main /\ owner # Main /\ Head(todo[Main]).op \in {"rmemInit", "rmemShutDown"}
    BY <1>3, <1>13 DEF RecorderCall, Between, Resting
  <2>2. todo[Main] = SubSeq(h, k, Len(h))
    BY <1>3, <2>1 DEF OnScript
  <2>3. h[k].op \in {"rmemInit", "rmemShutDown"}
    BY <1>2, <1>3, <2>1, <2>2, NextCall
  <2> QED
    BY <1>3, <2>3, RecorderCalls DEF Facts
<1> QED
  BY <1>1, <1>13, <1>14

\* The same in the next state.
LEMMA WorkIsHookingNext ==
  ASSUME NEW CONSTANT h, NEW CONSTANT w
  PROVE  (Facts(h, w) => (AtWork <=> \E k \in Nat : Hooking(h, k)))'
<1>1. Facts(h, w) => (AtWork <=> \E k \in Nat : Hooking(h, k))
  BY WorkIsHooking
<1> QED
  BY <1>1, PTL

\* Before rmemHookAllocs comes the table is empty: it is the first time, or
\* rmemUnhookAllocs has called MH_Uninitialize.
EmptyAtFirst == calls = 0 => hooks = << >> /\ blocks = << >>

\* The table stays empty until the script begins.
LEMMA EmptyKept ==
  ASSUME NEW h, NEW w, Facts(h, w), [Next]_vars, EmptyAtFirst
  PROVE  EmptyAtFirst'
<1>1. SUFFICES ASSUME calls' = 0 PROVE hooks' = << >> /\ blocks' = << >>
  BY DEF EmptyAtFirst
<1>2. calls \in Nat /\ client = "rmem"
  BY DEF Facts, CallInv
<1>3. calls' \in {calls, calls + 1}
  BY ZenonT(30) DEF Next, vars, winVars, rmemHookAllocs, rmemUnhookAllocs, Anything, MinHookCall, RecorderCall,
         CallFunction, Spawn, Detour, detour_exit, ProcessEnds, Step, LibraryStep
<1>4. calls = 0
  BY <1>1, <1>2, <1>3
<1>5. Using(w)
  <2>1. ~AtWork
    BY <1>4 DEF AtWork
  <2> QED
    BY <2>1, WorkIsHooking DEF Facts, On
<1>6. ASSUME NEW t \in Threads PROVE ~LibraryStep(t)
  <2>1. ~InExit(t)
    <3>1. InExit(t) => linkerBased /\ at[t].fn = Exit
      BY ExitUnhooks DEF Facts
    <3> QED
      BY <1>4, <1>5, <3>1 DEF Using
  <2>2. Resting(t)
    BY <1>4, <1>5, <2>1 DEF Using, Unhooks
  <2> QED
    BY <2>2, LibraryCases DEF Resting
<1>7. UNCHANGED tableVars
  BY <1>6, StepKinds
<1> QED
  BY <1>4, <1>7 DEF EmptyAtFirst, tableVars

\* Every time it begins, the table is empty.
LEMMA EmptyBefore ==
  ASSUME NEW h, NEW w, Facts(h, w), fails = 0, EmptyAtFirst, rmemHookAllocs
  PROVE  hooks = << >> /\ blocks = << >>
<1>1. /\ Resting(Main) /\ client = "rmem" /\ calls \in Nat /\ (linkerBased => calls = 0)
      /\ (~linkerBased => calls % 2 = 0) /\ linkerBased \in BOOLEAN /\ Main \in Threads
  BY MainAssumption DEF rmemHookAllocs, Between, Resting, Facts, CallInv
<1>2. CASE calls = 0
  BY <1>2 DEF EmptyAtFirst
<1>3. CASE calls # 0
  <2>1. ~linkerBased /\ Unhooks(Main)
    BY <1>1, <1>3 DEF Unhooks
  <2>2. Using(w)
    <3>1. ~AtWork
      BY <1>1 DEF AtWork
    <3> QED
      BY <3>1, WorkIsHooking DEF Facts, On
  <2>3. PICK k \in Nat : Unhooking(Main, w, k)
    BY <1>1, <2>1, <2>2 DEF Using
  <2>4. k = Len(w) + 1
    BY <1>1, <2>3, ScriptThrough DEF Unhooking, Facts, UnhookShape
  <2>5. UnhookDone(w, Len(w) + 1) /\ UnhookShape(w, linkerBased)
    BY <2>3, <2>4 DEF Unhooking, Facts
  <2> QED
    BY <1>1, <2>1, <2>5, AllUndone DEF Cleared
<1> QED
  BY <1>2, <1>3

\* The table and the blocks are as the script has made them.
TableIs(b) ==
  /\ blocks = b.blocks
  /\ \A i \in DOMAIN hooks : hooks[i].slot = b.slots[hooks[i].target]
  /\ \A f \in Fns : ~Hooked(f) => b.slots[f] = NoAddress
TableBuilt(h) == \A k \in Nat : Hooking(h, k) => TableIs(Built(h)[k - 1])

\* What leaves the blocks and the hooks' slots alone keeps the table as built.
LEMMA SameTable ==
  ASSUME NEW b, TableIs(b), UNCHANGED blocks, DOMAIN hooks' = DOMAIN hooks,
         \A i \in DOMAIN hooks : hooks'[i].target = hooks[i].target /\ hooks'[i].slot = hooks[i].slot
  PROVE  TableIs(b)'
<1>1. \A f : ~Hooked(f)' => ~Hooked(f)
  BY HookedIs
<1>2. \A i \in DOMAIN hooks' : hooks'[i].slot = b.slots[hooks'[i].target]
  BY DEF TableIs
<1> QED
  BY <1>1, <1>2 DEF TableIs

\* EnableHookLL changes neither slots nor targets.
LEMMA EnableKeepsSlots ==
  ASSUME NEW t \in Threads, NEW works \in BOOLEAN, EnableHookLL(t, works), TableTypes
  PROVE  /\ UNCHANGED <<inited, blocks>> /\ DOMAIN hooks' = DOMAIN hooks
         /\ \A i \in DOMAIN hooks :
              hooks'[i].target = hooks[i].target /\ hooks'[i].slot = hooks[i].slot
<1> DEFINE k == CHOOSE i \in Pending : \A j \in Pending : i <= j
           enable == Wanted(job.op, hooks[k])
           entry == [target |-> hooks[k].target, slot |-> hooks[k].slot, ct |-> hooks[k].ct,
                     isEnabled |-> enable, queueEnable |-> enable]
<1>1. /\ UNCHANGED <<inited, blocks>>
      /\ hooks' = hooks \/ hooks' = [hooks EXCEPT ![k] = entry]
  BY DEF EnableHookLL
<1>2. entry.target = hooks[k].target /\ entry.slot = hooks[k].slot
  OBVIOUS
<1> HIDE DEF entry, k
<1> QED
  BY <1>1, <1>2

\* What MH_CreateHook does is what AfterCall says.
LEMMA CreateBuilds ==
  ASSUME NEW h, NEW w, Facts(h, w), fails = 0, fails' = 0, NEW t \in Threads,
         NEW enough \in BOOLEAN, MH_CreateHook(t, enough), inited,
         NEW b, TableIs(b), Good(b), NEW c, c.op = "create", c.fn = job.fn
  PROVE  TableIs(AfterCall(b, c))'
<1> DEFINE f == job.fn
           buffer == AllocateBuffer(blocks, Address[f])
           entry == [target |-> f, slot |-> buffer.slot, ct |-> TrampolineOf[f],
                     isEnabled |-> FALSE, queueEnable |-> FALSE]
           slots == [b.slots EXCEPT ![f] = buffer.slot]
           d == AfterCall(b, c)
<1>0. Sound(blocks) /\ SlotsInUse(blocks) = {hooks[i].slot : i \in DOMAIN hooks} /\ hooks \in Seq(Entries)
  BY DEF Facts, HookInv, SlotInv, TableTypes
<1>1. enough
  <2>1. fails + 1 # 0
    BY DEF Facts, CallInv
  <2> QED
    BY <2>1 DEF MH_CreateHook
<1>2. blocks = b.blocks /\ b.slots \in [Fns -> Nat]
  BY DEF TableIs, Good
<1>3. f \in Fns => (Hooked(f) <=> b.slots[f] # NoAddress)
  <2>1. ASSUME Hooked(f), f \in Fns PROVE b.slots[f] # NoAddress
    <3>1. PICK i \in DOMAIN hooks : hooks[i].target = f
      BY <2>1, HookedIs
    <3>2. hooks[i].slot = b.slots[f] /\ hooks[i].slot \in SlotsInUse(blocks)
      BY <1>0, <3>1 DEF TableIs
    <3> QED
      BY <1>0, <3>2, SlotsAreSomewhere
  <2> QED
    BY <2>1 DEF TableIs
<1>4. d = IF \/ f \notin Executable \/ b.slots[f] # NoAddress \/ buffer.slot = NoAddress
          THEN b
          ELSE IF TrampolineOf[f].ok
          THEN [blocks |-> buffer.blocks, slots |-> slots]
          ELSE [blocks |-> FreeBuffer(buffer.blocks, buffer.slot), slots |-> b.slots]
  BY <1>2 DEF AfterCall
<1>5. IF ~inited \/ f \notin Executable \/ Hooked(f) \/ buffer.slot = NoAddress
      THEN UNCHANGED <<hooks, blocks>>
      ELSE IF TrampolineOf[f].ok
      THEN hooks' = Append(hooks, entry) /\ blocks' = buffer.blocks
      ELSE blocks' = FreeBuffer(buffer.blocks, buffer.slot) /\ UNCHANGED hooks
  BY <1>1 DEF MH_CreateHook, AddHookEntry
<1>6. f \in Executable => f \in Fns
  BY FnsAssumption
<1>7. entry.target = f /\ entry.slot = buffer.slot
  OBVIOUS
<1> HIDE DEF entry, buffer, f
<1>8. CASE f \notin Executable \/ Hooked(f) \/ buffer.slot = NoAddress
  <2>1. d = b
    BY <1>3, <1>4, <1>6, <1>8
  <2>2. UNCHANGED <<hooks, blocks>>
    BY <1>5, <1>8
  <2>3. TableIs(b)'
    BY <2>2, SameTable
  <2> QED
    BY <2>1, <2>3
<1>9. CASE f \in Executable /\ ~Hooked(f) /\ buffer.slot # NoAddress /\ TrampolineOf[f].ok
  <2>1. d = [blocks |-> buffer.blocks, slots |-> slots]
    BY <1>3, <1>4, <1>6, <1>9
  <2>2. hooks' = Append(hooks, entry) /\ blocks' = buffer.blocks
    BY <1>5, <1>9
  <2>3. d.blocks = buffer.blocks /\ d.slots = slots
    BY <2>1
  <2>4. f \in Fns /\ \A g \in Fns : slots[g] = IF g = f THEN buffer.slot ELSE b.slots[g]
    BY <1>2, <1>6, <1>9
  <2> HIDE DEF slots, d
  <2>5. /\ Len(hooks) \in Nat /\ DOMAIN hooks = 1 .. Len(hooks) /\ DOMAIN hooks' = 1 .. Len(hooks) + 1
        /\ \A i \in 1 .. Len(hooks) : hooks'[i] = hooks[i] /\ hooks[i].target \in Fns
        /\ hooks'[Len(hooks) + 1] = entry
    <3>1. Len(hooks) \in Nat /\ hooks = [i \in 1 .. Len(hooks) |-> hooks[i]]
      BY <1>0
    <3>2. \A i \in 1 .. Len(hooks) : hooks[i] \in Entries
      BY <1>0
    <3>3. \A e \in Entries : e.target \in Fns
      BY DEF Entries
    <3> QED
      BY <2>2, <3>1, <3>2, <3>3
  <2>6. ASSUME NEW i \in DOMAIN hooks' PROVE hooks'[i].slot = slots[hooks'[i].target]
    <3>1. CASE i = Len(hooks) + 1
      BY <1>7, <2>4, <2>5, <3>1
    <3>2. CASE i \in DOMAIN hooks
      <4>1. hooks[i].target # f
        BY <1>9, <3>2, HookedIs
      <4> QED
        BY <2>4, <2>5, <3>2, <4>1 DEF TableIs
    <3> QED
      BY <2>5, <3>1, <3>2
  <2>7. ASSUME NEW g \in Fns, ~Hooked(g)' PROVE slots[g] = NoAddress
    <3>1. g # f
      BY <1>7, <2>5, <2>7, HookedIs
    <3>2. ~Hooked(g)
      BY <2>5, <2>7, HookedIs
    <3> QED
      BY <2>4, <3>1, <3>2 DEF TableIs
  <2>8. TableIs(d)'
    BY <2>2, <2>3, <2>6, <2>7 DEF TableIs
  <2> QED
    BY <2>8 DEF d
<1>10. CASE f \in Executable /\ ~Hooked(f) /\ buffer.slot # NoAddress /\ ~TrampolineOf[f].ok
  <2>1. d = [blocks |-> FreeBuffer(buffer.blocks, buffer.slot), slots |-> b.slots]
    BY <1>3, <1>4, <1>6, <1>10
  <2>2. blocks' = FreeBuffer(buffer.blocks, buffer.slot) /\ UNCHANGED hooks
    BY <1>5, <1>10
  <2>3. d.blocks = blocks' /\ d.slots = b.slots
    BY <2>1, <2>2
  <2> HIDE DEF d
  <2>4. TableIs(d)'
    BY <2>2, <2>3, HookedIs DEF TableIs
  <2> QED
    BY <2>4 DEF d
<1> QED
  BY <1>8, <1>9, <1>10

\* A call of rmemHookAllocs that goes on or ends, and the table it leaves.
LEMMA TableBuiltKept ==
  ASSUME NEW CONSTANT h, NEW CONSTANT w, Facts(h, w), Facts(h, w)', h = HookAllocs(linkerBased),
         [Next]_vars, fails = 0, fails' = 0, EmptyAtFirst, TableBuilt(h)
  PROVE  TableBuilt(h)'
<1>1. SUFFICES ASSUME NEW j \in Nat, Hooking(h, j)' PROVE TableIs(Built(h)[j - 1])'
  BY DEF TableBuilt
<1>2. h \in Seq(ScriptCalls) /\ Len(h) \in Nat /\ Len(h) >= 3 /\ DOMAIN todo = Threads /\ Main \in Threads
  BY MainAssumption DEF Facts, HookShape, HookInv, TodoTypes
<1>3. j \in 1 .. Len(h) /\ OnScript(Main, h, j)'
  BY <1>1, <1>2 DEF Hooking, OnScript
<1>4. CASE rmemHookAllocs
  <2>1. hooks = << >> /\ blocks = << >> /\ UNCHANGED <<hooks, blocks, owner>>
        /\ todo'[Main] = h /\ owner # Main
    BY <1>2, <1>4, EmptyBefore DEF rmemHookAllocs, minVars, hookVars, Between
  <2>2. SubSeq(h, j, Len(h)) = SubSeq(h, 1, Len(h))
    BY <1>2, <1>3, <2>1, WholeScript DEF OnScript
  <2>3. j \in 1 .. Len(h) + 1 /\ 1 \in 1 .. Len(h) + 1
    BY <1>2, <1>3
  <2>4. j = 1
    BY <1>2, <2>2, <2>3, WhichCall
  <2>5. Built(h)[j - 1] = Nothing
    BY <1>2, <2>4, BuiltIs
  <2>6. Nothing.blocks = << >> /\ Nothing.slots = [f \in Fns |-> NoAddress]
    BY DEF Nothing
  <2>7. DOMAIN hooks' = {}
    BY <2>1
  <2> QED
    BY <2>1, <2>5, <2>6, <2>7 DEF TableIs
<1>5. CASE ~rmemHookAllocs
  <2>1. AtWork
    <3>1. Facts(h, w)' => (AtWork' <=> \E i \in Nat : Hooking(h, i)')
      BY WorkIsHookingNext
    <3>2. AtWork'
      BY <1>1, <3>1
    <3> QED
      BY <1>5, <3>2, WorkBegins
  <2>2. PICK k \in Nat : Hooking(h, k)
    BY <2>1, WorkIsHooking
  <2>3. TableIs(Built(h)[k - 1])
    BY <2>2 DEF TableBuilt
  <2>4. CASE \A t \in Threads : ~LibraryStep(t)
    <3>1. j = k
      BY <1>1, <2>2, <2>4, WorkGoesOn
    <3>2. UNCHANGED <<hooks, blocks>>
      BY <2>4, StepKinds DEF tableVars
    <3> QED
      BY <2>3, <3>1, <3>2, SameTable
  <2>5. ASSUME NEW t \in Threads, LibraryStep(t) PROVE TableIs(Built(h)[j - 1])'
    <3>1. t = Main /\ owner = t /\ j = IF owner' = t THEN k ELSE k + 1
      BY <1>1, <2>2, <2>5, WorkGoesOn, LibraryCases
    <3>2. k \in 1 .. Len(h) - 1 /\ h[k].op = job.op /\ h[k].fn = job.fn
      BY <2>2, <3>1, HookingCall
    <3>3. CASE owner' = t
      <4>1. Quiet(t) \/ \E works \in BOOLEAN : EnableHookLL(t, works)
        BY <2>5, <3>3, LibraryCases
      <4>2. Quiet(t) => UNCHANGED <<hooks, blocks>>
        BY DEF Quiet, EnumerateThreads, Freeze, Unfreeze, hookVars
      <4>3. /\ UNCHANGED blocks /\ DOMAIN hooks' = DOMAIN hooks
            /\ \A i \in DOMAIN hooks : hooks'[i].target = hooks[i].target /\ hooks'[i].slot = hooks[i].slot
        BY <4>1, <4>2, EnableKeepsSlots DEF Facts, HookInv
      <4> QED
        BY <2>3, <3>1, <3>3, <4>3, SameTable
    <3>4. CASE owner' # t
      <4> DEFINE b == Built(h)[k - 1]
                 c == h[k]
      <4>1. k \in 1 .. Len(h) /\ k - 1 \in 0 .. Len(h) /\ j - 1 = k
        BY <1>2, <3>1, <3>2, <3>4
      <4>2. Built(h)[j - 1] = AfterCall(b, c) /\ Good(b)
        BY <1>2, <4>1, BuiltIs, BuiltGood
      <4>3. job.op \in {"init", "create", "enable"}
        <5>1. k = 1 \/ k \in 2 .. Len(h) - 2 \/ k = Len(h) - 1
          BY <1>2, <3>2
        <5>2. ASSUME k \in 2 .. Len(h) - 2 PROVE h[k].op = "create"
          <6>1. PICK f \in Fns : h[k] = Call("create", f)
            BY <5>2 DEF Facts, HookShape
          <6> QED
            BY <6>1 DEF Call
        <5>3. (k = 1 => h[k].op = "init") /\ (k = Len(h) - 1 => h[k].op = "enable")
          BY DEF Facts, HookShape, Call
        <5> QED
          BY <3>2, <5>1, <5>2, <5>3
      <4>4. \/ MH_Initialize(t) \/ EnableHook(t)
            \/ job.op = "create" /\ \E enough \in BOOLEAN : MH_CreateHook(t, enough)
        BY <2>5, <3>4, <4>3, CallOver DEF MH_Uninitialize, MH_RemoveHook, QueueHook, MH_CreateHook, Ready
      <4>5. CASE MH_Initialize(t) \/ EnableHook(t)
        <5>1. c.op # "create" /\ UNCHANGED <<hooks, blocks>>
          BY <3>2, <4>5 DEF MH_Initialize, EnableHook, Ready, hookVars
        <5> HIDE DEF b, c
        <5>2. AfterCall(b, c) = b
          BY <5>1 DEF AfterCall
        <5>3. TableIs(b)
          BY <2>3 DEF b
        <5>4. TableIs(b)'
          BY <5>1, <5>3, SameTable
        <5> QED
          BY <4>2, <5>2, <5>4
      <4>6. ASSUME job.op = "create", NEW enough \in BOOLEAN, MH_CreateHook(t, enough)
            PROVE  TableIs(Built(h)[j - 1])'
        <5>1. c.op = "create" /\ c.fn = job.fn
          BY <3>2, <4>6
        <5>2. inited
          <6>1. k # 1
            BY <3>2, <4>6 DEF Facts, HookShape, Call
          <6>2. HookDone(h, k)
            BY <2>2 DEF Hooking
          <6> QED
            BY <3>2, <6>1, <6>2 DEF HookDone
        <5>3. TableIs(b) /\ Good(b)
          BY <2>3, <4>2
        <5> HIDE DEF b, c
        <5>4. TableIs(AfterCall(b, c))'
          BY <4>6, <5>1, <5>2, <5>3, CreateBuilds
        <5> QED
          BY <4>2, <5>4
      <4> QED
        BY <4>4, <4>5, <4>6
    <3> QED
      BY <3>3, <3>4
  <2> QED
    BY <2>4, <2>5
<1> QED
  BY <1>4, <1>5

\* Every hook is at the slot that the script gives its function.
OwnSlots(h) == \A i \in DOMAIN hooks : hooks[i].slot = SlotOf(h)[hooks[i].target]

\* When rmemHookAllocs is not at work, calls of MinHook undo hooks.
LEMMA UndoingCall ==
  ASSUME NEW h, NEW w, Facts(h, w), ~AtWork, NEW t \in Threads, owner = t
  PROVE  \/ job.op = "remove" /\ job.fn \notin {NoFn, Exit}
         \/ job.op = "uninit" /\ job.fn = NoFn
<1>1. Using(w)
  BY WorkIsHooking DEF Facts, On
<1>2. PICK k \in 2 .. Len(w) : w[k].op = job.op
  BY <1>1, UnhookingCall
<1>3. w[k].op \in {"remove", "uninit"}
  <2>1. ASSUME NEW f \in HeapAndModules, w[k] = Call("remove", f) PROVE w[k].op = "remove"
    BY <2>1 DEF Call
  <2>2. w[k] = Call("uninit", NoFn) => w[k].op = "uninit"
    BY DEF Call
  <2> QED
    BY <2>1, <2>2 DEF Facts, UnhookShape
<1>4. CallsOfRmem /\ JobTypes
  BY OwnCalls DEF Facts, On, HookInv
<1> QED
  BY <1>2, <1>3, <1>4 DEF CallsOfRmem, JobTypes

\* A step of the library is not the end of rmemHookAllocs.
LEMMA LibraryKeepsWork ==
  ASSUME NEW h, NEW w, Facts(h, w), [Next]_vars, AtWork, NEW t \in Threads, LibraryStep(t)
  PROVE  AtWork'
<1> SUFFICES ASSUME ~AtWork' PROVE FALSE
  OBVIOUS
<1>1. PICK u \in Threads : RecorderCall(u)
  BY WorkEnds
<1>2. Hooking(h, Len(h)) /\ Len(h) \in Nat /\ owner = t
  BY WorkEnds, LibraryCases DEF Facts, HookShape
<1>3. t = Main
  BY <1>2, HookingCall
<1>4. owner # u /\ todo[u] # << >>
  BY <1>1 DEF RecorderCall, Between
<1> QED
  BY <1>2, <1>3, <1>4 DEF Hooking, Resting

\* While hooks are created the table is as built; after that, hooks only go.
LEMMA OwnSlotsKept ==
  ASSUME NEW CONSTANT h, NEW CONSTANT w, Facts(h, w), Facts(h, w)', [Next]_vars,
         TableBuilt(h)', OwnSlots(h)
  PROVE  OwnSlots(h)'
<1>1. CASE AtWork'
  <2>1. PICK j \in Nat : Hooking(h, j)'
    BY <1>1, WorkIsHookingNext
  <2>2. TableIs(Built(h)[j - 1])'
    BY <2>1 DEF TableBuilt
  <2>3. j - 1 \in 0 .. Len(h) /\ Len(h) \in Nat
    BY <2>1 DEF Hooking, OnScript, Facts, HookShape
  <2>4. Sound(blocks') /\ SlotsInUse(blocks') = {hooks'[i].slot : i \in DOMAIN hooks'}
        /\ hooks' \in Seq(Entries)
    BY DEF Facts, HookInv, SlotInv, TableTypes
  <2>5. ASSUME NEW i \in DOMAIN hooks' PROVE hooks'[i].slot = SlotOf(h)[hooks'[i].target]
    <3> DEFINE f == hooks'[i].target
    <3>1. hooks'[i].slot = Built(h)[j - 1].slots[f]
      BY <2>2 DEF TableIs
    <3>2. hooks'[i].slot # NoAddress
      BY <2>4, SlotsAreSomewhere
    <3>3. f \in Fns
      <4>1. hooks'[i] \in Entries
        BY <2>4
      <4> QED
        BY <4>1 DEF Entries
    <3> HIDE DEF f
    <3>4. SlotOf(h)[f] = Built(h)[j - 1].slots[f]
      BY <2>3, <3>1, <3>2, <3>3, BuiltGrows
    <3> QED
      BY <3>1, <3>4 DEF f
  <2> QED
    BY <2>5 DEF OwnSlots
<1>2. CASE ~AtWork'
  <2>1. CASE \A t \in Threads : ~LibraryStep(t)
    <3>1. UNCHANGED hooks
      BY <2>1, StepKinds DEF tableVars
    <3> QED
      BY <3>1 DEF OwnSlots
  <2>2. ASSUME NEW t \in Threads, LibraryStep(t) PROVE OwnSlots(h)'
    <3>1. ~AtWork /\ owner = t
      BY <1>2, <2>2, LibraryKeepsWork, LibraryCases
    <3>2. job.op # "create"
      BY <3>1, UndoingCall
    <3>3. Table /\ JobTypes
      BY DEF Facts, HookInv, Table
    <3>4. \A i \in DOMAIN hooks' : \E j \in DOMAIN hooks : Stays(i, j)
      BY <2>2, <3>2, <3>3, EntriesAfter
    <3> QED
      BY <3>4 DEF Stays, OwnSlots
  <2> QED
    BY <2>1, <2>2
<1> QED
  BY <1>1, <1>2

\* The call in progress removes this hook, one or all, and has begun to.
Undoing(i) ==
  /\ job.op \in {"remove", "uninit"} /\ job.phase = "freeze"
  /\ job.fn \in {NoFn, hooks[i].target}

\* Once rmemHookAllocs is through, only such a hook may be disabled.
OthersEnabled == AtWork \/ \A i \in DOMAIN hooks : hooks[i].isEnabled \/ Undoing(i)

\* What EnableHookLL does when it works.
LEMMA Rewritten ==
  ASSUME TableTypes, FreezeInv, NEW t \in Threads, NEW works \in BOOLEAN, EnableHookLL(t, works),
         fails \in Nat, fails' = 0, fails = 0
  PROVE  \E k \in Pending :
           /\ listed \subseteq frozen /\ job.phase = "freeze" /\ owner = t
           /\ UNCHANGED <<owner, job, inited, capacity, blocks, original, listed, frozen, at, fails>>
           /\ DOMAIN hooks' = DOMAIN hooks
           /\ \A i \in DOMAIN hooks :
                /\ hooks'[i].target = hooks[i].target /\ hooks'[i].slot = hooks[i].slot
                /\ i # k => hooks'[i] = hooks[i]
           /\ hooks'[k].isEnabled = Wanted(job.op, hooks[k])
<1> DEFINE k == CHOOSE i \in Pending : \A j \in Pending : i <= j
           enable == Wanted(job.op, hooks[k])
           entry == [target |-> hooks[k].target, slot |-> hooks[k].slot, ct |-> hooks[k].ct,
                     isEnabled |-> enable, queueEnable |-> enable]
<1>1. fails + 1 # 0
  OBVIOUS
<1>2. /\ Pending # {} /\ listed \subseteq frozen /\ job.phase = "freeze" /\ owner = t
      /\ UNCHANGED <<owner, job, inited, capacity, blocks, original, listed, frozen, at, fails>>
      /\ hooks' = [hooks EXCEPT ![k] = entry]
  BY <1>1 DEF EnableHookLL, FreezeInv
<1>3. k \in Pending
  <2>1. Pending \subseteq Nat
    BY DEF Pending, TableTypes
  <2> QED
    BY <1>2, <2>1, LeastNatural
<1>4. entry.target = hooks[k].target /\ entry.slot = hooks[k].slot /\ entry.isEnabled = enable
  OBVIOUS
<1>5. k \in DOMAIN hooks
  BY <1>3 DEF Pending
<1> HIDE DEF entry, k, enable
<1>6. /\ DOMAIN hooks' = DOMAIN hooks /\ hooks'[k] = entry
      /\ \A i \in DOMAIN hooks : i # k => hooks'[i] = hooks[i]
  BY <1>2, <1>5
<1>7. \A i \in DOMAIN hooks :
        hooks'[i].target = hooks[i].target /\ hooks'[i].slot = hooks[i].slot
  BY <1>4, <1>6
<1> QED
  BY <1>2, <1>3, <1>4, <1>6, <1>7 DEF enable

\* How a call that undoes hooks ends: with the table as it was, with an empty one, or
\* without the function's entry.
LEMMA UndoingEnds ==
  ASSUME NEW h, NEW w, Facts(h, w), fails = 0, ~AtWork, NEW t \in Threads, LibraryStep(t), owner' # t
  PROVE  /\ job.ok /\ owner = t /\ frozen = {} /\ Pending = {}
         /\ \/ UNCHANGED <<hooks, blocks>> /\ \A i \in DOMAIN hooks : job.fn \notin {NoFn, hooks[i].target}
            \/ hooks' = << >> /\ job.op = "uninit" /\ job.fn = NoFn
            \/ job.op = "remove" /\ \E pos \in DOMAIN hooks :
                 \E old \in [DOMAIN hooks' -> DOMAIN hooks \ {pos}] : Deleted(pos, old)
<1>1. job.ok /\ owner = t /\ Table /\ JobTypes
  BY CallOver DEF Facts, CallInv, HookInv, Table
<1>2. \/ job.op = "remove" /\ job.fn \notin {NoFn, Exit}
      \/ job.op = "uninit" /\ job.fn = NoFn
  BY <1>1, UndoingCall
<1>3. (MH_Uninitialize(t) /\ job.op = "uninit") \/ (MH_RemoveHook(t) /\ job.op = "remove")
  BY <1>2, CallOver DEF MH_Initialize, MH_Uninitialize, MH_RemoveHook, EnableHook, QueueHook,
                        MH_CreateHook, Ready
<1>4. frozen = {} /\ Pending = {}
  BY <1>3 DEF MH_Uninitialize, MH_RemoveHook, Ready
<1>5. ~inited => DOMAIN hooks = {}
  BY <1>1 DEF Table, TableTypes
<1>6. CASE MH_Uninitialize(t) /\ job.op = "uninit"
  <2>1. CASE inited
    BY <1>1, <1>2, <1>4, <1>6, <2>1 DEF MH_Uninitialize
  <2>2. CASE ~inited
    BY <1>1, <1>4, <1>5, <1>6, <2>2 DEF MH_Uninitialize
  <2> QED
    BY <2>1, <2>2
<1>7. CASE MH_RemoveHook(t) /\ job.op = "remove"
  <2>1. CASE inited /\ Hooked(job.fn)
    <3>1. \E pos \in DOMAIN hooks :
            \E old \in [DOMAIN hooks' -> DOMAIN hooks \ {pos}] : Deleted(pos, old)
      BY <1>1, <1>7, <2>1, EntryDeleted
    <3> QED
      BY <1>1, <1>4, <1>7, <3>1
  <2>2. CASE ~(inited /\ Hooked(job.fn))
    <3>1. UNCHANGED <<hooks, blocks>>
      BY <1>7, <2>2 DEF MH_RemoveHook
    <3>2. \A i \in DOMAIN hooks : job.fn \notin {NoFn, hooks[i].target}
      BY <1>2, <1>5, <1>7, <2>2, HookedIs
    <3> QED
      BY <1>1, <1>4, <3>1, <3>2
  <2> QED
    BY <2>1, <2>2
<1> QED
  BY <1>3, <1>6, <1>7

\* In the phases before, the hooks and the call stay.
LEMMA QuietStays ==
  ASSUME JobTypes, NEW t \in Threads, Quiet(t)
  PROVE  /\ UNCHANGED <<tableVars, original, owner>>
         /\ job'.op = job.op /\ job'.fn = job.fn /\ job'.ok = job.ok
         /\ job'.phase = job.phase \/ (job'.phase = "freeze" /\ EnumerateThreads(t))
BY DEF Quiet, EnumerateThreads, Freeze, Unfreeze, hookVars, tableVars, JobTypes

\* rmemHookAllocs ends with all hooks enabled, and a hook that a call has disabled
\* is gone when the call is over.
LEMMA OthersEnabledKept ==
  ASSUME NEW h, NEW w, Facts(h, w), [Next]_vars, fails = 0, fails' = 0, OthersEnabled
  PROVE  OthersEnabled'
<1>0. TableTypes /\ TableInv /\ JobTypes /\ FreezeInv /\ fails \in Nat
  BY DEF Facts, HookInv, CallInv
<1>1. CASE AtWork'
  BY <1>1 DEF OthersEnabled
<1>2. CASE ~AtWork' /\ AtWork
  <2>1. Hooking(h, Len(h)) /\ \E t \in Threads : RecorderCall(t)
    BY <1>2, WorkEnds
  <2>2. HookDone(h, Len(h)) /\ UNCHANGED hooks
    BY <2>1 DEF Hooking, RecorderCall, minVars, hookVars
  <2> QED
    BY <2>2 DEF HookDone, OthersEnabled
<1>3. CASE ~AtWork' /\ ~AtWork
  <2>1. \A i \in DOMAIN hooks : hooks[i].isEnabled \/ Undoing(i)
    BY <1>3 DEF OthersEnabled
  <2>2. CASE UNCHANGED <<tableVars, lockVars>>
    <3>1. UNCHANGED <<hooks, job>>
      BY <2>2 DEF tableVars, lockVars
    <3> QED
      BY <2>1, <3>1 DEF Undoing, OthersEnabled
  <2>3. ASSUME UNCHANGED tableVars, NEW t \in Threads, MinHookCall(t) PROVE OthersEnabled'
    <3>1. owner = NoThread /\ UNCHANGED hooks
      BY <2>3 DEF MinHookCall, EnterSpinLock, tableVars
    <3>2. \A i \in DOMAIN hooks : ~Undoing(i)
      BY <1>0, <3>1, ThreadsAssumption DEF Undoing, FreezeInv
    <3> QED
      BY <2>1, <3>1, <3>2 DEF OthersEnabled
  <2>4. ASSUME NEW t \in Threads, LibraryStep(t) PROVE OthersEnabled'
    <3>1. owner = t /\ (\/ job.op = "remove" /\ job.fn \notin {NoFn, Exit}
                        \/ job.op = "uninit" /\ job.fn = NoFn)
      BY <1>3, <2>4, LibraryCases, UndoingCall
    <3>2. CASE Quiet(t)
      <4>1. /\ UNCHANGED hooks /\ job'.op = job.op /\ job'.fn = job.fn
            /\ job'.phase \in {job.phase, "freeze"}
        BY <1>0, <3>2, QuietStays DEF tableVars
      <4> QED
        BY <2>1, <4>1 DEF Undoing, OthersEnabled
    <3>3. ASSUME NEW works \in BOOLEAN, EnableHookLL(t, works) PROVE OthersEnabled'
      <4>1. PICK k \in Pending :
              /\ job.phase = "freeze" /\ UNCHANGED job
              /\ DOMAIN hooks' = DOMAIN hooks
              /\ \A i \in DOMAIN hooks :
                   /\ hooks'[i].target = hooks[i].target
                   /\ i # k => hooks'[i] = hooks[i]
        BY <1>0, <3>3, Rewritten
      <4>2. job.fn \in {NoFn, hooks[k].target}
        BY DEF Pending
      <4>3. ASSUME NEW i \in DOMAIN hooks' PROVE hooks'[i].isEnabled \/ Undoing(i)'
        <5>1. i \in DOMAIN hooks /\ hooks'[i].target = hooks[i].target
          BY <4>1
        <5>2. CASE i = k
          BY <3>1, <4>1, <4>2, <5>1, <5>2 DEF Undoing
        <5>3. CASE i # k
          BY <2>1, <4>1, <5>1, <5>3 DEF Undoing
        <5> QED
          BY <5>2, <5>3
      <4> QED
        BY <4>3 DEF OthersEnabled
    <3>4. CASE owner' # t
      <4>1. CASE UNCHANGED hooks /\ \A i \in DOMAIN hooks : job.fn \notin {NoFn, hooks[i].target}
        BY <2>1, <4>1 DEF Undoing, OthersEnabled
      <4>2. CASE hooks' = << >>
        <5>1. DOMAIN hooks' = {}
          BY <4>2
        <5> QED
          BY <5>1 DEF OthersEnabled
      <4>3. ASSUME job.op = "remove", NEW pos \in DOMAIN hooks,
                   NEW old \in [DOMAIN hooks' -> DOMAIN hooks \ {pos}], Deleted(pos, old)
            PROVE  OthersEnabled'
        <5>1. ASSUME NEW i \in DOMAIN hooks' PROVE hooks'[i].isEnabled
          <6>1. old[i] \in DOMAIN hooks /\ old[i] # pos /\ hooks'[i] = hooks[old[i]]
            BY <4>3 DEF Deleted
          <6>2. hooks[old[i]].target # job.fn
            BY <1>0, <4>3, <6>1 DEF Deleted, TableInv
          <6>3. ~Undoing(old[i])
            BY <3>1, <4>3, <6>2 DEF Undoing
          <6> QED
            BY <2>1, <6>1, <6>3
        <5> QED
          BY <5>1 DEF OthersEnabled
      <4> QED
        BY <1>3, <2>4, <3>4, <4>1, <4>2, <4>3, UndoingEnds
    <3> QED
      BY <2>4, <3>2, <3>3, <3>4, LibraryCases
  <2> QED
    BY <2>2, <2>3, <2>4, StepKinds
<1> QED
  BY <1>1, <1>2, <1>3
--------------------------------------------------------------------------------
\* Who may be on a trampoline.

\* A thread that called the original when its function was already restored.
Straggler(p) == p.in = "tramp" /\ p.late

\* Whoever else has a slot is in the relay or the trampoline of its function.
SlotPlaces(h) ==
  \A t \in Threads :
    at[t].slot # NoAddress =>
      /\ at[t].in \in {"relay", "tramp"}
      /\ Straggler(at[t]) \/ at[t].slot = SlotOf(h)[at[t].fn]

\* How a place changes: it gets a slot from an enabled hook, from one that is just
\* being enabled, or as a straggler.
Way(p, q) ==
  \/ q = p
  \/ q.slot = NoAddress
  \/ /\ p.in = "tramp" /\ q.in = "tramp"
     /\ q.slot = p.slot /\ q.fn = p.fn /\ q.late = p.late
  \/ Straggler(q)
  \/ /\ q.in \in {"relay", "tramp"}
     /\ \E i \in DOMAIN hooks :
          q.slot = hooks[i].slot /\ q.fn = hooks[i].target /\ (hooks[i].isEnabled \/ AtWork)

\* Outside the library's code nobody has a slot.
LEMMA FreeOfSlots ==
  /\ Outside.slot = NoAddress /\ Lost.slot = NoAddress /\ Unborn.slot = NoAddress
  /\ \A p : Returned(p).slot = NoAddress
<1>1. Outside.slot = NoAddress /\ IsPlace(Outside)
  BY DEF Outside, Place, IsPlace
<1> DEFINE o == Outside
<1> HIDE DEF o
<1>2. ASSUME NEW x PROVE [o EXCEPT !.in = x].slot = NoAddress
  <2>1. o.slot = NoAddress /\ IsPlace(o)
    BY <1>1 DEF o
  <2>2. [o EXCEPT !.in = x] = Place(x, o.fn, o.off, o.slot, o.via, o.late)
    BY <2>1, OneField
  <2> QED
    BY <2>1, <2>2, Fields
<1>3. Lost.slot = NoAddress /\ Unborn.slot = NoAddress
  BY <1>2 DEF o, Lost, Unborn
<1>4. ASSUME NEW p PROVE Returned(p).slot = NoAddress
  <2>1. Place("detour", p.fn, 1, NoAddress, FALSE, FALSE).slot = NoAddress
    BY DEF Place
  <2> QED
    BY <1>1, <2>1 DEF Returned
<1> QED
  BY <1>1, <1>3, <1>4

\* One thread goes one of the ways, the others stay.
LEMMA GoesItsWay ==
  ASSUME Positions, NEW t \in Threads, NEW q, Go(t, q), Way(at[t], q), NEW u \in Threads
  PROVE  Way(at[u], at'[u])
<1>1. at' = [at EXCEPT ![t] = q] /\ DOMAIN at = Threads
  BY DEF Go, Positions, PlaceInv
<1>2. CASE u = t
  BY <1>1, <1>2
<1>3. CASE u # t
  <2>1. at'[u] = at[u]
    BY <1>1, <1>3
  <2> QED
    BY <2>1 DEF Way
<1> QED
  BY <1>2, <1>3

\* The jump leads to the hook's slot.
LEMMA PatchedHook ==
  ASSUME Table, NEW f \in Fns, code[f] = "patched"
  PROVE  \E i \in DOMAIN hooks :
           hooks[i].isEnabled /\ hooks[i].target = f /\ Hook(f).slot = hooks[i].slot
<1>1. PICK i \in DOMAIN hooks : hooks[i].target = f /\ hooks[i].isEnabled
  BY DEF Table, TableInv
<1> QED
  BY <1>1, TheEntry

\* The call of the original, from a detour.
LEMMA CallWay ==
  ASSUME Table, OriginalInv, Positions, NEW t \in Threads, at[t].in = "detour", CallOriginal(t),
         NEW u \in Threads
  PROVE  Way(at[u], at'[u])
<1> DEFINE f == at[t].fn
           late == code[f] = "original"
           q == Place("tramp", f, 0, original[f], TRUE, late)
<1>1. Go(t, q)
  BY DEF CallOriginal
<1>2. f \in Fns
  BY DEF Positions, PositionOK
<1> HIDE DEF late
<1>3. q.in = "tramp" /\ q.slot = original[f] /\ q.fn = f /\ q.late = late
  BY DEF Place
<1> HIDE DEF q, f
<1>4. CASE code[f] = "original"
  <2>1. Straggler(q)
    BY <1>3, <1>4 DEF Straggler, late
  <2> QED
    BY <1>1, <2>1, GoesItsWay DEF Way
<1>5. CASE code[f] # "original"
  <2>1. code[f] = "patched"
    BY <1>2, <1>5 DEF Table, TableTypes
  <2>2. PICK i \in DOMAIN hooks : hooks[i].isEnabled /\ hooks[i].target = f
    BY <1>2, <2>1, PatchedHook
  <2>3. q.slot = hooks[i].slot
    BY <1>3, <2>2 DEF OriginalInv
  <2>4. Way(at[t], q)
    BY <1>3, <2>2, <2>3 DEF Way
  <2> QED
    BY <1>1, <2>4, GoesItsWay
<1> QED
  BY <1>4, <1>5

\* A step in a function, or in the jump above it.
LEMMA JumpWay ==
  ASSUME Table, Positions, NEW t \in Threads, StepTarget(t) \/ StepAbove(t),
         at[t].slot = NoAddress, NEW u \in Threads
  PROVE  Way(at[u], at'[u])
<1> DEFINE p == at[t]
           f == p.fn
           q == [p EXCEPT !.in = "relay", !.slot = Hook(f).slot]
<1>1. IsPlace(p) /\ f \in Fns /\ p.slot = NoAddress
  <2>1. p.in \in {"target", "above"}
    BY Zenon DEF StepTarget, StepAbove
  <2> QED
    BY <2>1 DEF Positions, PlaceInv, PositionOK
<1>2. \/ /\ code[f] = "patched" /\ Go(t, q)
      \/ Go(t, Lost) \/ Go(t, Returned(p)) \/ Go(t, [p EXCEPT !.in = "above"])
      \/ \E off : Go(t, [p EXCEPT !.off = off])
  BY Zenon DEF StepTarget, StepAbove
<1> HIDE DEF p, f
<1>3. CASE code[f] = "patched" /\ Go(t, q)
  <2>1. q = Place("relay", p.fn, p.off, Hook(f).slot, p.via, p.late)
    BY <1>1, TwoFields
  <2>2. q.in = "relay" /\ q.fn = f /\ q.slot = Hook(f).slot
    BY <2>1, Fields DEF f
  <2> HIDE DEF q
  <2>3. Way(p, q)
    BY <1>1, <1>3, <2>2, PatchedHook DEF Way
  <2> QED
    BY <1>3, <2>3, GoesItsWay DEF p
<1>4. ASSUME NEW r, Go(t, r), r.slot = NoAddress PROVE Way(at[u], at'[u])
  BY <1>4, GoesItsWay DEF Way
<1>5. ASSUME NEW x PROVE [p EXCEPT !.in = x].slot = NoAddress /\ [p EXCEPT !.off = x].slot = NoAddress
  BY <1>1, OneField, Fields
<1> QED
  BY Zenon, <1>2, <1>3, <1>4, <1>5, FreeOfSlots

\* A step in a relay or in a trampoline.
LEMMA TrampolineWay ==
  ASSUME Positions, NEW t \in Threads, StepRelay(t) \/ StepTrampoline(t), NEW u \in Threads
  PROVE  Way(at[u], at'[u])
<1> DEFINE p == at[t]
           d == Place("detour", p.fn, 0, NoAddress, FALSE, FALSE)
<1>1. IsPlace(p)
  BY DEF Positions, PlaceInv
<1>2. \/ Go(t, d) \/ Go(t, Lost) \/ Go(t, Returned(p))
      \/ p.in = "tramp" /\ \E off : Go(t, [p EXCEPT !.off = off])
      \/ \E off : Go(t, Relocated(p, "target", off, NoAddress, FALSE))
  BY Zenon DEF StepRelay, StepTrampoline, Relocated
<1> HIDE DEF p
<1>3. ASSUME NEW r, Go(t, r), r.slot = NoAddress PROVE Way(at[u], at'[u])
  BY <1>3, GoesItsWay DEF Way
<1>4. d.slot = NoAddress
  BY DEF Place
<1> HIDE DEF d
<1>5. ASSUME NEW off PROVE Relocated(p, "target", off, NoAddress, FALSE).slot = NoAddress
  <2> DEFINE r == Place("target", p.fn, off, NoAddress, p.via, FALSE)
  <2>1. Relocated(p, "target", off, NoAddress, FALSE) = r
    BY <1>1, FourFields
  <2>2. r.slot = NoAddress
    BY DEF Place
  <2> HIDE DEF r
  <2> QED
    BY <2>1, <2>2
<1>6. ASSUME NEW off, p.in = "tramp", Go(t, [p EXCEPT !.off = off]) PROVE Way(at[u], at'[u])
  <2> DEFINE r == [p EXCEPT !.off = off]
  <2>1. r = Place(p.in, p.fn, off, p.slot, p.via, p.late)
    BY <1>1, OneField
  <2>2. r.in = p.in /\ r.fn = p.fn /\ r.slot = p.slot /\ r.late = p.late
    BY <2>1, Fields
  <2> HIDE DEF r
  <2>3. Way(p, r)
    BY <1>6, <2>2 DEF Way
  <2> QED
    BY <1>6, <2>3, GoesItsWay DEF p, r
<1> QED
  BY <1>2, <1>3, <1>4, <1>5, <1>6, FreeOfSlots

\* Freeze: to the trampoline only while hooks are being enabled.
LEMMA FreezeWay ==
  ASSUME NEW h, NEW w, Facts(h, w), Positions, NEW t \in Threads, NEW v \in Threads, Freeze(t, v),
         NEW u \in Threads
  PROVE  Way(at[u], at'[u])
<1> DEFINE p == at[v]
           q == ProcessThreadIPs(p)
           m == CHOOSE i \in Movers(p) : TRUE
<1> SUFFICES ASSUME at' # at PROVE Way(at[u], at'[u])
  BY DEF Way
<1>1. Go(v, q) /\ owner = t
  BY DEF Freeze, Go
<1>2. CASE Movers(p) = {}
  <2>1. q = p
    BY <1>2 DEF ProcessThreadIPs
  <2> QED
    BY <1>1, <2>1, GoesItsWay DEF Way
<1>3. CASE Movers(p) # {}
  <2>1. m \in DOMAIN hooks
    BY <1>3 DEF Movers
  <2>2. q = IF Direction(job.op, job.fn, hooks[m]) THEN FindNewIP(hooks[m], p)
            ELSE FindOldIP(hooks[m], p)
    BY <1>3 DEF ProcessThreadIPs
  <2> HIDE DEF m, q, p
  <2>3. CASE Direction(job.op, job.fn, hooks[m])
    <3>1. AtWork
      <4>1. job.op \notin {"remove", "uninit"}
        BY <2>3 DEF Direction, Wanted
      <4> QED
        BY <1>1, <4>1, UndoingCall
    <3>2. q.in = "tramp" /\ q.fn = hooks[m].target /\ q.slot = hooks[m].slot
      BY <2>2, <2>3 DEF FindNewIP, Place
    <3>3. Way(p, q)
      BY <2>1, <3>1, <3>2 DEF Way
    <3> QED
      BY <1>1, <3>3, GoesItsWay DEF p
  <2>4. CASE ~Direction(job.op, job.fn, hooks[m])
    <3>1. q.slot = NoAddress
      BY <2>2, <2>4 DEF FindOldIP, Place
    <3> QED
      BY <1>1, <3>1, GoesItsWay DEF Way, p
  <2> QED
    BY <2>3, <2>4
<1> QED
  BY <1>2, <1>3

\* These are all the ways there are.
LEMMA Ways ==
  ASSUME NEW h, NEW w, Facts(h, w), Positions, SlotPlaces(h), [Next]_vars, NEW u \in Threads
  PROVE  Way(at[u], at'[u])
<1>0. Table /\ OriginalInv
  BY DEF Facts, HookInv, Table
<1>1. CASE UNCHANGED at
  BY <1>1 DEF Way
<1>2. CASE rmemHookAllocs \/ rmemUnhookAllocs
  BY <1>1, <1>2 DEF rmemHookAllocs, rmemUnhookAllocs, minVars
<1>3. ASSUME NEW t \in Threads, Anything(t) \/ RecorderCall(t) \/ ProcessEnds(t) \/ MinHookCall(t)
      PROVE  UNCHANGED at
  BY <1>3 DEF Anything, RecorderCall, ProcessEnds, MinHookCall, EnterSpinLock, minVars
<1>4. ASSUME NEW t \in Threads, NEW q, Go(t, q), q.slot = NoAddress PROVE Way(at[u], at'[u])
  BY <1>4, GoesItsWay DEF Way
<1>5. ASSUME NEW t \in Threads, NEW f \in Fns, CallFunction(t, f) PROVE Way(at[u], at'[u])
  <2> DEFINE q == Place("target", f, 0, NoAddress, FALSE, FALSE)
  <2>1. Go(t, q)
    BY <1>5 DEF CallFunction
  <2>2. q.slot = NoAddress
    BY DEF Place
  <2> HIDE DEF q
  <2> QED
    BY <1>4, <2>1, <2>2
<1>6. ASSUME NEW t \in Threads, Spawn(t) PROVE Way(at[u], at'[u])
  BY <1>4, <1>6, FreeOfSlots DEF Spawn
<1>7. ASSUME NEW t \in Threads, Detour(t) \/ detour_exit(t) PROVE Way(at[u], at'[u])
  <2> DEFINE p == at[t]
  <2>1. /\ p.in = "detour"
        /\ Go(t, Outside) \/ Go(t, [p EXCEPT !.off = 2]) \/ CallOriginal(t)
    BY <1>7 DEF Detour, detour_exit
  <2>2. p.slot = NoAddress /\ IsPlace(p)
    BY <2>1 DEF SlotPlaces, Positions, PlaceInv
  <2>3. [p EXCEPT !.off = 2].slot = NoAddress
    BY <2>2, OneField, Fields
  <2> QED
    BY <1>0, <1>4, <2>1, <2>3, FreeOfSlots, CallWay
<1>8. ASSUME NEW t \in Threads, Step(t) PROVE Way(at[u], at'[u])
  <2>1. CASE StepTarget(t) \/ StepAbove(t)
    <3>1. at[t].in \in {"target", "above"}
      BY Zenon, <2>1 DEF StepTarget, StepAbove
    <3>2. at[t].slot = NoAddress
      BY <3>1 DEF SlotPlaces
    <3> QED
      BY SMTT(30), <1>0, <2>1, <3>2, JumpWay
  <2>2. CASE StepRelay(t) \/ StepTrampoline(t)
    BY <2>2, TrampolineWay
  <2> QED
    BY <1>8, <2>1, <2>2 DEF Step
<1>9. ASSUME NEW t \in Threads, LibraryStep(t) PROVE Way(at[u], at'[u])
  <2>1. ASSUME \/ EnumerateThreads(t) \/ MH_Initialize(t) \/ MH_Uninitialize(t) \/ MH_RemoveHook(t)
               \/ EnableHook(t) \/ QueueHook(t)
               \/ \E v \in Threads : Unfreeze(t, v)
               \/ \E works \in BOOLEAN : EnableHookLL(t, works)
               \/ \E enough \in BOOLEAN : MH_CreateHook(t, enough)
        PROVE  UNCHANGED at
    BY <2>1 DEF EnumerateThreads, Unfreeze, EnableHookLL, MH_Initialize, MH_Uninitialize,
                MH_RemoveHook, EnableHook, QueueHook, MH_CreateHook, LeaveSpinLock
  <2> QED
    BY <1>1, <1>9, <2>1, FreezeWay DEF LibraryStep, Library, Rewriting
<1>10. CASE UNCHANGED vars
  BY <1>1, <1>10 DEF vars, minVars
<1> QED
  BY <1>1, <1>2, <1>3, <1>5, <1>6, <1>7, <1>8, <1>9, <1>10 DEF Next

\* A slot comes from a hook, and every hook has the slot of its function.
LEMMA SlotPlacesKept ==
  ASSUME NEW h, NEW w, Facts(h, w), Positions, SlotPlaces(h), OwnSlots(h), [Next]_vars
  PROVE  SlotPlaces(h)'
<1>1. ASSUME NEW u \in Threads, at'[u].slot # NoAddress
      PROVE  /\ at'[u].in \in {"relay", "tramp"}
             /\ Straggler(at'[u]) \/ at'[u].slot = SlotOf(h)[at'[u].fn]
  <2> DEFINE p == at[u]
             q == at'[u]
  <2>1. /\ Way(p, q)
        /\ p.slot # NoAddress =>
             p.in \in {"relay", "tramp"} /\ (Straggler(p) \/ p.slot = SlotOf(h)[p.fn])
    BY Ways DEF SlotPlaces
  <2>2. q.slot # NoAddress
    BY <1>1
  <2> HIDE DEF p, q
  <2>3. q.in \in {"relay", "tramp"} /\ (Straggler(q) \/ q.slot = SlotOf(h)[q.fn])
    BY <2>1, <2>2 DEF Way, Straggler, OwnSlots
  <2> QED
    BY <2>3 DEF q
<1> QED
  BY <1>1 DEF SlotPlaces, Straggler

\* While hooks are being removed, the threads suspended so far are out of the relays
\* and the trampolines of the hooks still to be disabled.
MovedOut ==
  job.op \in {"remove", "uninit"} =>
    \A u \in frozen, i \in Pending : at[u].slot = hooks[i].slot => Straggler(at[u])

\* Behind that, on a hook that has been disabled to be removed there are stragglers.
OnlyStragglers ==
  \A i \in DOMAIN hooks : ~hooks[i].isEnabled /\ Undoing(i) =>
    \A t \in listed : at[t].slot = hooks[i].slot => Straggler(at[t])

\* No hook is removed while rmemHookAllocs is at work.
LEMMA WorkCall ==
  ASSUME NEW h, NEW w, Facts(h, w), AtWork, NEW t \in Threads, owner = t
  PROVE  job.op \notin {"remove", "uninit"}
<1>1. PICK k \in Nat : Hooking(h, k)
  BY WorkIsHooking
<1>2. k \in 1 .. Len(h) - 1 /\ h[k].op = job.op
  BY <1>1, HookingCall
<1>3. HookShape(h, linkerBased) /\ Len(h) \in Nat
  BY DEF Facts, HookShape
<1>4. \/ h[k] = Call("init", NoFn) \/ h[k] = Call("enable", NoFn)
      \/ \E f \in Fns : h[k] = Call("create", f)
  <2>1. k = 1 \/ k = Len(h) - 1 \/ k \in 2 .. Len(h) - 2
    BY <1>2, <1>3
  <2> QED
    BY <1>3, <2>1 DEF HookShape
<1>5. h[k].op \in {"init", "enable", "create"}
  <2>1. ASSUME NEW op, NEW f, h[k] = Call(op, f) PROVE h[k].op = op
    BY <2>1 DEF Call
  <2> QED
    BY <1>4, <2>1
<1> QED
  BY <1>2, <1>5

\* Every hook has a slot.
LEMMA HooksHaveSlots ==
  ASSUME SlotInv, NEW i \in DOMAIN hooks
  PROVE  hooks[i].slot # NoAddress
BY SlotsAreSomewhere DEF SlotInv

\* Who is moved back to the function has no slot any more.
LEMMA NoSlotBack ==
  ASSUME NEW hook, NEW p
  PROVE  FindOldIP(hook, p).slot = NoAddress
BY DEF FindOldIP, Place

\* Freeze moves a thread out of a hook to be removed, stragglers excepted.
LEMMA FreezeMovesOut ==
  ASSUME NEW h, NEW w, Facts(h, w), Positions, OwnTrampolines, SlotPlaces(h), OwnSlots(h),
         job.op \in {"remove", "uninit"}, NEW u \in Threads, NEW i \in Pending,
         ProcessThreadIPs(at[u]).slot = hooks[i].slot
  PROVE  Straggler(ProcessThreadIPs(at[u]))
<1> DEFINE p == at[u]
           q == ProcessThreadIPs(p)
           m == CHOOSE j \in Movers(p) : TRUE
<1>1. \A j \in DOMAIN hooks : ~Direction(job.op, job.fn, hooks[j]) /\ ~Wanted(job.op, hooks[j])
  BY DEF Direction, Wanted
<1>2. /\ i \in DOMAIN hooks /\ job.fn \in {NoFn, hooks[i].target}
      /\ hooks[i].isEnabled # Wanted(job.op, hooks[i])
  BY DEF Pending
<1>3. q.slot = hooks[i].slot /\ q.slot # NoAddress
  BY <1>2, HooksHaveSlots DEF Facts, HookInv
<1>5. Movers(p) = {}
  <2> SUFFICES ASSUME Movers(p) # {} PROVE FALSE
    OBVIOUS
  <2>1. m \in Movers(p)
    OBVIOUS
  <2>2. m \in DOMAIN hooks
    BY <2>1 DEF Movers
  <2>3. q = FindOldIP(hooks[m], p)
    BY <1>1, <2>2 DEF ProcessThreadIPs
  <2> QED
    BY <1>3, <2>3, NoSlotBack
<1>4. q = p
  BY <1>5 DEF ProcessThreadIPs
<1>6. PositionOK(p)
  BY DEF Positions
<1>7. p.in \in {"relay", "tramp"} /\ (Straggler(p) \/ p.slot = SlotOf(h)[p.fn])
  <2>1. p.slot # NoAddress
    BY <1>3, <1>4
  <2> QED
    BY <2>1 DEF SlotPlaces
<1> HIDE DEF p, q, m
<1>8. ASSUME ~Straggler(p) PROVE FALSE
  <2>1. p.fn \in Fns /\ hooks[i].target \in Fns /\ hooks[i].isEnabled \in BOOLEAN
    <3>1. hooks[i] \in Entries
      BY <1>2 DEF Facts, HookInv, TableTypes
    <3> QED
      BY <1>6, <1>7, <3>1 DEF PositionOK, Entries
  <2>2. /\ SlotOf(h)[p.fn] = SlotOf(h)[hooks[i].target]
        /\ SlotOf(h)[p.fn] # NoAddress
    BY <1>2, <1>3, <1>4, <1>7, <1>8 DEF OwnSlots
  <2>3. p.fn = hooks[i].target
    <3>1. Len(h) \in Nat
      BY DEF Facts, HookShape
    <3>2. Good(Built(h)[Len(h)])
      BY <3>1, BuiltGood
    <3> QED
      BY <2>1, <2>2, <3>2 DEF Good, SlotOf
  <2>4. HasOldIP(hooks[i], p)
    <3>1. p.slot = hooks[i].slot
      BY <1>3, <1>4
    <3>2. CASE p.in = "relay"
      BY <3>1, <3>2 DEF HasOldIP
    <3>3. CASE p.in = "tramp"
      <4>1. p.off \in ToSet(TrampolineOf[p.fn].newIPs) /\ hooks[i].ct = TrampolineOf[hooks[i].target]
        BY <1>2, <1>6, <3>3 DEF PositionOK, OwnTrampolines
      <4> QED
        BY <2>3, <3>1, <3>3, <4>1 DEF HasOldIP, InTrampoline
    <3> QED
      BY <1>7, <3>2, <3>3
  <2>5. Direction(job.op, job.fn, hooks[i]) = FALSE /\ Wanted(job.op, hooks[i]) = FALSE
    BY DEF Direction, Wanted
  <2>6. i \in Movers(p)
    BY <1>2, <2>4, <2>5 DEF Movers
  <2> QED
    BY <1>5, <2>6
<1> QED
  BY <1>4, <1>8 DEF p, q

\* Freeze moves one thread more, EnableHookLL leaves fewer hooks to be disabled, and
\* nobody else moves suspended threads.
LEMMA MovedOutKept ==
  ASSUME NEW h, NEW w, Facts(h, w), FreezeInv', Positions, OwnTrampolines, SlotPlaces(h), OwnSlots(h),
         [Next]_vars, fails = 0, fails' = 0, MovedOut
  PROVE  MovedOut'
<1>0. /\ TableTypes /\ JobTypes /\ FreezeInv /\ SlotInv /\ fails \in Nat /\ DOMAIN at = Threads
  BY DEF Facts, HookInv, CallInv, Positions, PlaceInv
<1>1. ASSUME frozen' = {} \/ Pending' = {} PROVE MovedOut'
  BY <1>1 DEF MovedOut
<1>2. ASSUME UNCHANGED <<hooks, job>> PROVE Pending' = Pending
  BY <1>2 DEF Pending
<1>3. CASE \A t \in Threads : ~LibraryStep(t)
  <2>1. CASE UNCHANGED <<tableVars, lockVars>>
    <3>1. UNCHANGED <<hooks, job, frozen>>
      BY <2>1 DEF tableVars, lockVars
    <3>2. ASSUME job.op \in {"remove", "uninit"}, NEW u \in frozen, NEW i \in Pending,
                 at'[u].slot = hooks[i].slot
          PROVE  Straggler(at'[u])
      <4>1. u \in Threads /\ i \in DOMAIN hooks
        BY <1>0 DEF FreezeInv, Pending
      <4>2. at'[u] = at[u] \/ at'[u] = Outside
        BY <1>3, <4>1, SuspendedStay
      <4>3. at'[u] = at[u]
        BY <1>0, <3>2, <4>1, <4>2, FreeOfSlots, HooksHaveSlots
      <4> QED
        BY <3>2, <4>3 DEF MovedOut
    <3> QED
      BY <1>2, <3>1, <3>2 DEF MovedOut, Straggler
  <2>2. ASSUME NEW t \in Threads, MinHookCall(t) PROVE frozen' = {}
    BY <1>0, <2>2, ThreadsAssumption DEF MinHookCall, EnterSpinLock, FreezeInv
  <2> QED
    BY <1>1, <1>3, <2>1, <2>2, StepKinds
<1>4. ASSUME NEW t \in Threads, LibraryStep(t) PROVE MovedOut'
  <2>1. ASSUME EnumerateThreads(t) PROVE frozen' = {}
    BY <1>0, <2>1 DEF EnumerateThreads, FreezeInv
  <2>2. ASSUME NEW u \in Threads, Freeze(t, u) PROVE MovedOut'
    <3>0. fails' # fails + 1
      BY <1>0
    <3>1. /\ UNCHANGED <<hooks, job>> /\ frozen' = frozen \cup {u}
          /\ at' = [at EXCEPT ![u] = ProcessThreadIPs(at[u])]
      BY <2>2, <3>0 DEF Freeze, hookVars
    <3>2. ASSUME job.op \in {"remove", "uninit"}, NEW v \in frozen', NEW i \in Pending,
                 at'[v].slot = hooks[i].slot
          PROVE  Straggler(at'[v])
      <4>1. CASE v = u
        BY <1>0, <3>1, <3>2, <4>1, FreezeMovesOut
      <4>2. CASE v # u
        <5>1. v \in frozen /\ at'[v] = at[v]
          BY <3>1, <4>2
        <5> QED
          BY <3>2, <5>1 DEF MovedOut
      <4> QED
        BY <4>1, <4>2
    <3> QED
      BY <1>2, <3>1, <3>2 DEF MovedOut, Straggler
  <2>3. ASSUME NEW u \in Threads, Unfreeze(t, u) PROVE Pending' = {}
    <3>1. UNCHANGED <<hooks, job>> /\ Pending = {}
      BY <2>3 DEF Unfreeze, hookVars
    <3> QED
      BY <1>2, <3>1
  <2>4. ASSUME NEW works \in BOOLEAN, EnableHookLL(t, works), job.op \in {"remove", "uninit"}
        PROVE  MovedOut'
    <3>1. PICK k \in Pending :
            /\ UNCHANGED <<job, frozen, at>>
            /\ DOMAIN hooks' = DOMAIN hooks
            /\ \A i \in DOMAIN hooks :
                 /\ hooks'[i].target = hooks[i].target /\ hooks'[i].slot = hooks[i].slot
                 /\ i # k => hooks'[i] = hooks[i]
            /\ hooks'[k].isEnabled = Wanted(job.op, hooks[k])
      BY <1>0, <2>4, Rewritten
    <3>2. Wanted(job.op, hooks[k]) = FALSE /\ Wanted(job.op, hooks'[k]) = FALSE
      BY <2>4 DEF Wanted
    <3>3. ASSUME NEW i \in Pending' PROVE i \in Pending /\ hooks'[i].slot = hooks[i].slot
      <4>1. /\ i \in DOMAIN hooks /\ job.ok /\ job.op \in {"remove", "enable", "disable", "uninit", "apply"}
            /\ job.fn \in {NoFn, hooks'[i].target} /\ hooks'[i].isEnabled # Wanted(job.op, hooks'[i])
        BY <3>1 DEF Pending
      <4>2. i # k
        BY <3>1, <3>2, <4>1
      <4> QED
        BY <3>1, <4>1, <4>2 DEF Pending
    <3> QED
      BY <3>1, <3>3 DEF MovedOut, Straggler
  <2>5. ASSUME NEW works \in BOOLEAN, EnableHookLL(t, works), job.op \notin {"remove", "uninit"}
        PROVE  MovedOut'
    <3>1. job' = job
      BY <1>0, <2>5, Rewritten
    <3> QED
      BY <2>5, <3>1 DEF MovedOut
  <2>6. ASSUME \/ MH_Initialize(t) \/ MH_Uninitialize(t) \/ MH_RemoveHook(t)
               \/ EnableHook(t) \/ QueueHook(t) \/ \E enough \in BOOLEAN : MH_CreateHook(t, enough)
        PROVE  frozen' = {}
    BY <2>6 DEF Ready, MH_Initialize, MH_Uninitialize, MH_RemoveHook, EnableHook, QueueHook,
                MH_CreateHook, LeaveSpinLock
  <2> QED
    BY <1>1, <1>4, <2>1, <2>2, <2>3, <2>4, <2>5, <2>6 DEF LibraryStep, Library, Rewriting
<1> QED
  BY <1>3, <1>4

\* A hook is disabled when everybody listed is suspended and moved out; from then on
\* no way leads to its slot but the stragglers'.
LEMMA OnlyStragglersKept ==
  ASSUME NEW h, NEW w, Facts(h, w), Positions, SlotPlaces(h), MovedOut, OthersEnabled,
         [Next]_vars, fails = 0, fails' = 0, OnlyStragglers
  PROVE  OnlyStragglers'
<1>0. /\ TableTypes /\ JobTypes /\ FreezeInv /\ SlotInv /\ fails \in Nat
      /\ \A i, j \in DOMAIN hooks : hooks[i].slot = hooks[j].slot => i = j
  BY DEF Facts, HookInv, CallInv, SlotInv
<1>1. ASSUME NEW i \in DOMAIN hooks, Undoing(i) PROVE ~AtWork
  <2>1. owner \in Threads /\ job.op \in {"remove", "uninit"}
    BY <1>0, <1>1 DEF Undoing, FreezeInv
  <2> QED
    BY <2>1, WorkCall
<1>2. CASE UNCHANGED <<hooks, job, listed>>
  <2>1. ASSUME NEW i \in DOMAIN hooks, ~hooks[i].isEnabled, Undoing(i), NEW t \in listed,
               at'[t].slot = hooks[i].slot
        PROVE  Straggler(at'[t])
    <3> DEFINE p == at[t]
               q == at'[t]
    <3>1. t \in Threads
      BY <1>0 DEF FreezeInv
    <3>2. Way(p, q)
      BY <3>1, Ways
    <3>3. q.slot = hooks[i].slot /\ q.slot # NoAddress
      BY <1>0, <2>1, HooksHaveSlots
    <3>4. p.slot = hooks[i].slot => Straggler(p)
      BY <2>1 DEF OnlyStragglers
    <3> HIDE DEF p, q
    <3>5. \A j \in DOMAIN hooks : q.slot = hooks[j].slot => ~hooks[j].isEnabled
      BY <1>0, <2>1, <3>3
    <3>6. ~AtWork
      BY <1>1, <2>1
    <3>7. Straggler(q)
      BY <3>2, <3>3, <3>4, <3>5, <3>6 DEF Way, Straggler
    <3> QED
      BY <3>7 DEF q
  <2> QED
    BY <1>2, <2>1 DEF OnlyStragglers, Undoing, Straggler
<1>3. ASSUME job'.phase # "freeze" \/ job'.op = "none" PROVE OnlyStragglers'
  BY <1>3 DEF OnlyStragglers, Undoing
<1>4. CASE \A t \in Threads : ~LibraryStep(t)
  <2>1. CASE UNCHANGED <<tableVars, lockVars>>
    BY <1>2, <2>1 DEF tableVars, lockVars
  <2>2. ASSUME NEW t \in Threads, MinHookCall(t) PROVE job'.phase = "list"
    BY <2>2 DEF MinHookCall, EnterSpinLock
  <2> QED
    BY <1>3, <1>4, <2>1, <2>2, StepKinds
<1>5. ASSUME NEW t \in Threads, LibraryStep(t) PROVE OnlyStragglers'
  <2>1. ASSUME EnumerateThreads(t) PROVE OnlyStragglers'
    <3>1. /\ owner = t /\ job.phase = "list" /\ UNCHANGED hooks /\ job' = [job EXCEPT !.phase = "freeze"]
      BY <2>1 DEF EnumerateThreads, hookVars
    <3>2. job'.op = job.op
      BY <1>0, <3>1 DEF JobTypes
    <3>3. CASE AtWork
      <4>1. job.op \notin {"remove", "uninit"}
        BY <3>1, <3>3, WorkCall
      <4> QED
        BY <3>2, <4>1 DEF OnlyStragglers, Undoing
    <3>4. CASE ~AtWork
      <4>1. \A i \in DOMAIN hooks : hooks[i].isEnabled
        BY <3>1, <3>4 DEF OthersEnabled, Undoing
      <4> QED
        BY <3>1, <4>1 DEF OnlyStragglers
    <3> QED
      BY <3>3, <3>4
  <2>2. ASSUME NEW u \in Threads, Freeze(t, u) \/ Unfreeze(t, u) PROVE OnlyStragglers'
    BY <1>2, <2>2 DEF Freeze, Unfreeze, hookVars
  <2>3. ASSUME NEW works \in BOOLEAN, EnableHookLL(t, works) PROVE OnlyStragglers'
    <3>1. PICK k \in Pending :
            /\ listed \subseteq frozen
            /\ UNCHANGED <<job, listed, at>>
            /\ DOMAIN hooks' = DOMAIN hooks
            /\ \A i \in DOMAIN hooks :
                 /\ hooks'[i].target = hooks[i].target /\ hooks'[i].slot = hooks[i].slot
                 /\ i # k => hooks'[i] = hooks[i]
      BY <1>0, <2>3, Rewritten
    <3>2. ASSUME NEW i \in DOMAIN hooks, ~hooks'[i].isEnabled, Undoing(i)', NEW u \in listed,
                 at[u].slot = hooks[i].slot
          PROVE  Straggler(at[u])
      <4>1. Undoing(i)
        BY <3>1, <3>2 DEF Undoing
      <4>2. CASE i = k
        BY <3>1, <3>2, <4>1, <4>2 DEF MovedOut, Undoing
      <4>3. CASE i # k
        BY <3>1, <3>2, <4>1, <4>3 DEF OnlyStragglers
      <4> QED
        BY <4>2, <4>3
    <3> QED
      BY <3>1, <3>2 DEF OnlyStragglers, Straggler
  <2>4. ASSUME \/ MH_Initialize(t) \/ MH_Uninitialize(t) \/ MH_RemoveHook(t)
               \/ EnableHook(t) \/ QueueHook(t) \/ \E enough \in BOOLEAN : MH_CreateHook(t, enough)
        PROVE  job'.op = "none"
    BY <2>4 DEF MH_Initialize, MH_Uninitialize, MH_RemoveHook, EnableHook, QueueHook,
                MH_CreateHook, LeaveSpinLock, Idle
  <2> QED
    BY <1>3, <1>5, <2>1, <2>2, <2>3, <2>4 DEF LibraryStep, Library, Rewriting
<1> QED
  BY <1>4, <1>5

\* What is known of the slots, the hooks and the threads in a run without failures.
Released(h) ==
  TableBuilt(h) /\ OwnSlots(h) /\ OthersEnabled /\ SlotPlaces(h) /\ MovedOut /\ OnlyStragglers
ReleaseInv ==
  client = "rmem" =>
    EmptyAtFirst /\ \A h : h = HookAllocs(linkerBased) /\ fails = 0 => Released(h)

\* The facts of this state and of the next.
LEMMA FactsOf ==
  ASSUME RmemInv, client = "rmem"
  PROVE  \A h, w : h = HookAllocs(linkerBased) /\ w = UnhookAllocs(linkerBased) => Facts(h, w)
BY RmemFacts

\* The same in the next state.
LEMMA FactsOfNext ==
  (RmemInv /\ client = "rmem" =>
     \A h, w : h = HookAllocs(linkerBased) /\ w = UnhookAllocs(linkerBased) => Facts(h, w))'
<1>1. RmemInv /\ client = "rmem" =>
        \A h, w : h = HookAllocs(linkerBased) /\ w = UnhookAllocs(linkerBased) => Facts(h, w)
  BY FactsOf
<1> QED
  BY <1>1, PTL

\* What never changes, and failures are not forgotten.
LEMMA SameClient ==
  ASSUME [Next]_vars
  PROVE  UNCHANGED <<client, linkerBased>>
BY ZenonT(30) DEF Next, vars, winVars, rmemHookAllocs, rmemUnhookAllocs, Anything, MinHookCall,
       RecorderCall, CallFunction, Spawn, Detour, detour_exit, ProcessEnds, Step, LibraryStep

\* Failures are counted up only.
LEMMA FailuresStay ==
  ASSUME NEW h, NEW w, Facts(h, w), [Next]_vars, fails' = 0
  PROVE  fails = 0
<1>1. ASSUME NEW t \in Threads, MinHookCall(t) \/ RecorderCall(t) \/ ExitBegins(t)
      PROVE  UNCHANGED fails
  BY <1>1 DEF MinHookCall, EnterSpinLock, RecorderCall, ExitBegins, detour_exit, minVars
<1>2. rmemHookAllocs \/ rmemUnhookAllocs => UNCHANGED fails
  BY DEF rmemHookAllocs, rmemUnhookAllocs, minVars
<1>3. client = "rmem"
  BY DEF Facts
<1> QED
  BY <1>1, <1>2, <1>3, ScriptSteps, LibraryCases

\* Every step keeps all of this.
LEMMA ReleasedKept ==
  ASSUME RmemInv, RmemInv', BytesInv, [Next]_vars, ReleaseInv
  PROVE  ReleaseInv'
<1> SUFFICES ASSUME client' = "rmem" PROVE ReleaseInv'
  BY DEF ReleaseInv
<1>1. client = "rmem" /\ linkerBased' = linkerBased
  BY SameClient
<1>2. PICK w : w = UnhookAllocs(linkerBased)
  OBVIOUS
<1>3. ASSUME NEW h, h = HookAllocs(linkerBased) PROVE Facts(h, w) /\ Facts(h, w)'
  <2>1. Facts(h, w)
    BY <1>1, <1>2, <1>3, FactsOf
  <2>2. HookAllocs(linkerBased') = h /\ UnhookAllocs(linkerBased') = w
    BY <1>1, <1>2, <1>3
  <2>3. Facts(h, w)'
    BY <2>2, FactsOfNext
  <2> QED
    BY <2>1, <2>3
<1>4. EmptyAtFirst'
  <2>1. PICK h : h = HookAllocs(linkerBased)
    OBVIOUS
  <2> QED
    BY <1>1, <1>3, <2>1, EmptyKept DEF ReleaseInv
<1>5. ASSUME NEW h, h = HookAllocs(linkerBased), fails' = 0 PROVE Released(h)'
  <2>1. Facts(h, w) /\ Facts(h, w)'
    BY <1>3, <1>5
  <2>2. fails = 0
    BY <1>5, <2>1, FailuresStay
  <2>3. EmptyAtFirst /\ Released(h)
    BY <1>1, <1>5, <2>2 DEF ReleaseInv
  <2>4. Positions /\ OwnTrampolines /\ FreezeInv'
    BY DEF BytesInv, RmemInv, HookInv
  <2>5. TableBuilt(h) /\ OwnSlots(h) /\ OthersEnabled /\ SlotPlaces(h) /\ MovedOut /\ OnlyStragglers
    BY <2>3 DEF Released
  <2>6. TableBuilt(h)'
    BY <1>5, <2>1, <2>2, <2>3, <2>5, TableBuiltKept
  <2>7. OwnSlots(h)'
    BY <2>1, <2>5, <2>6, OwnSlotsKept
  <2>8. OthersEnabled'
    BY <1>5, <2>1, <2>2, <2>5, OthersEnabledKept
  <2>9. SlotPlaces(h)'
    BY <2>1, <2>4, <2>5, SlotPlacesKept
  <2>10. MovedOut'
    BY <1>5, <2>1, <2>2, <2>4, <2>5, MovedOutKept
  <2>11. OnlyStragglers'
    BY <1>5, <2>1, <2>2, <2>4, <2>5, OnlyStragglersKept
  <2> QED
    BY <2>6, <2>7, <2>8, <2>9, <2>10, <2>11 DEF Released
<1>6. \A h : h = HookAllocs(linkerBased') /\ fails' = 0 => Released(h)'
  BY <1>1, <1>5
<1> QED
  BY <1>4, <1>6 DEF ReleaseInv

\* Initially there are no hooks and nobody has a slot.
LEMMA ReleaseInit == Init => ReleaseInv
<1> SUFFICES ASSUME Init PROVE ReleaseInv
  OBVIOUS
<1>1. /\ hooks = << >> /\ blocks = << >> /\ frozen = {} /\ calls = 0
      /\ at = [t \in Threads |-> IF t = Main THEN Outside ELSE Unborn]
  BY DEF Init, MinInit
<1>2. DOMAIN hooks = {}
  BY <1>1
<1>3. \A t \in Threads : at[t].slot = NoAddress
  BY <1>1, FreeOfSlots
<1>4. ASSUME NEW h PROVE Released(h)
  <2>1. TableBuilt(h)
    BY <1>1 DEF TableBuilt, Hooking
  <2> QED
    BY <1>1, <1>2, <1>3, <2>1
       DEF Released, OwnSlots, OthersEnabled, SlotPlaces, MovedOut, OnlyStragglers
<1> QED
  BY <1>1, <1>4 DEF ReleaseInv, EmptyAtFirst

\* The places of the threads and the state of the hooks, in every run of rmem without
\* failures.
THEOREM ReleaseInvariance == Spec => []ReleaseInv
<1>1. RmemInv /\ RmemInv' /\ BytesInv /\ [Next]_vars /\ ReleaseInv => ReleaseInv'
  BY ReleasedKept
<1> QED
  BY <1>1, ReleaseInit, ScriptInvariance, BytesInvariance, PTL DEF Spec

\* A trampoline is given back when its hook is removed, and that hook has been
\* disabled by this very call.
LEMMA ReleasedHook ==
  ASSUME RmemInv, RmemInv', BytesInv, [Next]_vars, ReleaseInv, client = "rmem", fails = 0,
         NEW t \in listed, at[t].slot \in SlotsInUse(blocks) \ SlotsInUse(blocks')
  PROVE  Straggler(at[t])
<1>1. PICK h, w : Facts(h, w) /\ h = HookAllocs(linkerBased)
  BY FactsOf
<1>2. OthersEnabled /\ OnlyStragglers
  BY <1>1 DEF ReleaseInv, Released
<1>3. /\ Table /\ JobTypes /\ SlotsInUse(blocks') = {hooks'[j].slot : j \in DOMAIN hooks'}
  BY DEF RmemInv, HookInv, Table, SlotInv
<1>4. PICK i \in DOMAIN hooks : at[t].slot = hooks[i].slot
  BY <1>3 DEF Table, SlotInv
<1>5. \A j \in DOMAIN hooks' : hooks'[j].slot # hooks[i].slot
  BY <1>3, <1>4
<1>6. PICK u \in Threads : LibraryStep(u)
  BY <1>4, <1>5, StepKinds DEF tableVars
<1>7. /\ job.op \in {"remove", "uninit"} /\ job.fn \in {NoFn, hooks[i].target}
  <2>1. ~\E j \in DOMAIN hooks' : Stays(j, i)
    BY <1>5 DEF Stays
  <2>2. \/ job.op = "remove" /\ hooks[i].target = job.fn
        \/ job.op = "uninit"
    BY <1>3, <1>6, <2>1, EntriesAfter
  <2> QED
    BY <1>3, <2>2 DEF JobTypes
<1>8. owner = u /\ ~AtWork
  BY <1>1, <1>6, <1>7, LibraryCases, WorkCall
<1>9. owner' # u
  <2>1. ~Quiet(u)
    BY <1>3, <1>4, <1>5, QuietStays DEF tableVars
  <2>2. ASSUME NEW works \in BOOLEAN, EnableHookLL(u, works) PROVE FALSE
    <3>1. DOMAIN hooks' = DOMAIN hooks /\ hooks'[i].slot = hooks[i].slot
      BY <1>3, <1>4, <2>2, EnableKeepsSlots DEF Table
    <3> QED
      BY <1>4, <1>5, <3>1
  <2> QED
    BY <1>1, <1>6, <2>1, <2>2, LibraryCases
<1>10. job.ok /\ Pending = {}
  BY <1>1, <1>6, <1>8, <1>9, UndoingEnds
<1>11. ~hooks[i].isEnabled
  <2>1. hooks[i].isEnabled = Wanted(job.op, hooks[i])
    BY <1>4, <1>7, <1>10 DEF Pending
  <2>2. Wanted(job.op, hooks[i]) = FALSE
    BY <1>7 DEF Wanted
  <2> QED
    BY <2>1, <2>2
<1>12. Undoing(i)
  BY <1>2, <1>8, <1>11 DEF OthersEnabled
<1> QED
  BY <1>2, <1>4, <1>11, <1>12 DEF OnlyStragglers

\* When rmem gives a trampoline back, the threads still on it are those that went
\* there from a detour after the function was restored, for any functions, threads
\* and schedules, in runs without failures (FindOldIP, Freeze, MH_RemoveHook).
THEOREM OnlyStragglersReleased == Spec => ReleasedToStragglersOnly
<1>1. RmemInv /\ RmemInv' /\ BytesInv /\ [Next]_vars /\ ReleaseInv =>
        [client = "rmem" /\ fails = 0 =>
           \A t \in listed :
             at[t].slot \in SlotsInUse(blocks) \ SlotsInUse(blocks)'
             => at[t].in = "tramp" /\ at[t].late]_vars
  BY ReleasedHook DEF Straggler
<1> QED
  BY <1>1, ScriptInvariance, BytesInvariance, ReleaseInvariance, PTL
     DEF Spec, ReleasedToStragglersOnly
=============================================================================
