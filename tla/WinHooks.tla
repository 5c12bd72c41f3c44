------------------------------- MODULE WinHooks -------------------------------
(***************************************************************************)
(* How rmem puts itself between a Windows program and its heap             *)
(* (src/rmem_wrap_win.cpp and the entry points of inc/rmem_entry.h), on    *)
(* top of MinHook: what rmemHookAllocs, rmemUnhookAllocs and the detour of *)
(* exit call, one call after the other, while the program's other threads  *)
(* run through the functions that are being hooked.                        *)
(*                                                                         *)
(* The client is "rmem", or "any": a program that, once hooked, makes      *)
(* calls of MinHook's interface in no particular order.                    *)
(***************************************************************************)
EXTENDS MinHook

CONSTANTS
  Heap,     \* sequence: the functions of ntdll, in the order they are hooked
  Modules,  \* sequence: the functions of kernel32
  Exit,     \* the C library's exit
  Main,     \* the thread that runs rmemEntry or the constructors
  Crowd,    \* bound: the threads there may be, by client
  Uses,     \* bound: the functions each thread calls
  MaxCalls  \* bound: life cycles of "rmem", calls of "any"

ASSUME HooksAssumption ==
  /\ Heap \in Seq(Fns) /\ Modules \in Seq(Fns)
  /\ ToSet(Heap) \cup ToSet(Modules) \cup {Exit} = Fns
  /\ Exit \notin ToSet(Heap) \cup ToSet(Modules)
ASSUME MainAssumption == Main \in Threads /\ MaxCalls \in Nat
ASSUME BoundsAssumption ==
  Uses \in [Threads -> SUBSET Fns] /\ Crowd \in [{"rmem", "any"} -> SUBSET Threads]

VARIABLES
  client,
  linkerBased,  \* g_linkerBased
  recording,    \* getMemoryHookPtr() # nullptr
  todo,         \* the calls each thread has yet to make
  calls,        \* life cycles or calls begun
  ended         \* the process is gone

winVars == <<client, linkerBased, recording, todo, calls, ended>>
vars == <<minVars, winVars>>

Call(op, f) == [op |-> op, fn |-> f]
Calls(op, fs) == [i \in DOMAIN fs |-> Call(op, fs[i])]

\* SetThreadDescription is hooked only where it exists, and CREATE_HOOK of a
\* function that does not exist does nothing: Modules and Executable cover both.
HookAllocs(linker) ==
  <<Call("init", NoFn)>> \o Calls("create", Heap) \o Calls("create", Modules)
    \o (IF linker THEN <<Call("create", Exit)>> ELSE << >>)
    \o <<Call("enable", NoFn), Call("rmemInit", NoFn)>>

BugAlwaysUninit(linker) ==
  <<Call("rmemShutDown", NoFn)>> \o (IF linker THEN Calls("remove", Heap) ELSE << >>)
    \o Calls("remove", Modules) \o <<Call("uninit", NoFn)>>
BugRecorderLast(linker) ==
  (IF linker THEN Calls("remove", Heap) ELSE << >>) \o Calls("remove", Modules)
    \o (IF linker THEN << >> ELSE <<Call("uninit", NoFn)>>) \o <<Call("rmemShutDown", NoFn)>>
BugHeapKept(linker) ==
  <<Call("rmemShutDown", NoFn)>> \o Calls("remove", Modules)
    \o (IF linker THEN << >> ELSE <<Call("uninit", NoFn)>>)
UnhookAllocs(linker) ==
  <<Call("rmemShutDown", NoFn)>>
    \o (IF linker THEN Calls("remove", Heap) ELSE << >>)
    \o Calls("remove", Modules)
    \o (IF linker THEN << >> ELSE <<Call("uninit", NoFn)>>)

Interface ==
  LET used == Fns \ {Exit} IN
  {Call(op, f) : op \in {"create", "remove"}, f \in used}
    \cup {Call(op, f) : op \in {"enable", "disable", "queueEnable", "queueDisable"},
                        f \in used \cup {NoFn}}
    \cup {Call(op, NoFn) : op \in {"init", "uninit", "apply"}}

Init ==
  /\ MinInit
  /\ at = [t \in Threads |-> IF t = Main THEN Outside ELSE Unborn]
  /\ client \in {"rmem", "any"}
  /\ linkerBased \in IF client = "rmem" THEN BOOLEAN ELSE {FALSE}
  /\ recording = FALSE
  /\ todo = [t \in Threads |-> << >>]
  /\ calls = 0
  /\ ended = FALSE

\* A thread between two calls of the script it is in.
Between(t) == owner # t /\ t \notin frozen /\ surplus[t] = 0 /\ ~ended

\* rmemEntry, or the constructor of a MinGW build, is linker-based and comes
\* once; a program that calls the function itself may do so again.
rmemHookAllocs ==
  /\ calls < MaxCalls /\ (client = "any" => calls = 0)
  /\ Between(Main) /\ at[Main] = Outside /\ todo[Main] = << >>
  /\ IF linkerBased THEN calls = 0 ELSE calls % 2 = 0
  /\ todo' = [todo EXCEPT ![Main] = HookAllocs(linkerBased)]
  /\ calls' = calls + 1
  /\ UNCHANGED <<minVars, client, linkerBased, recording, ended>>

\* The program lets go itself; with linker-based hooks it is the destructor or
\* exit that does.
rmemUnhookAllocs ==
  /\ client = "rmem" /\ calls < MaxCalls
  /\ Between(Main) /\ at[Main] = Outside /\ todo[Main] = << >>
  /\ calls % 2 = 1
  /\ todo' = [todo EXCEPT ![Main] = UnhookAllocs(linkerBased)]
  /\ calls' = calls + 1
  /\ UNCHANGED <<minVars, client, linkerBased, recording, ended>>

Anything(t) ==
  /\ client = "any" /\ 0 < calls /\ calls < MaxCalls
  /\ Between(t) /\ at[t] = Outside /\ todo[t] = << >>
  /\ \E c \in Interface : todo' = [todo EXCEPT ![t] = <<c>>]
  /\ calls' = calls + 1
  /\ UNCHANGED <<minVars, client, linkerBased, recording, ended>>

\* The next call of the script: of MinHook, or of the recorder.
MinHookCall(t) ==
  /\ Between(t) /\ todo[t] # << >>
  /\ Head(todo[t]).op \notin {"rmemInit", "rmemShutDown"}
  /\ EnterSpinLock(t, Head(todo[t]))
  /\ todo' = [todo EXCEPT ![t] = Tail(@)]
  /\ UNCHANGED <<client, linkerBased, recording, calls, ended>>

RecorderCall(t) ==
  /\ Between(t) /\ todo[t] # << >>
  /\ Head(todo[t]).op \in {"rmemInit", "rmemShutDown"}
  /\ recording' = (Head(todo[t]).op = "rmemInit")
  /\ todo' = [todo EXCEPT ![t] = Tail(@)]
  /\ UNCHANGED <<minVars, client, linkerBased, calls, ended>>

\* A thread calls one of the functions; nobody calls exit before rmemEntry has
\* gone on to the program's own code.
CallFunction(t, f) ==
  /\ Between(t) /\ at[t] = Outside /\ todo[t] = << >>
  /\ f \in Uses[t]
  /\ f = Exit /\ client = "rmem" /\ linkerBased =>
       calls > 0 /\ todo[Main] = << >> /\ owner # Main
  /\ Go(t, Place("target", f, 0, NoAddress, FALSE, FALSE))
  /\ UNCHANGED <<owner, job, hookVars, code, listed, frozen, skipped, surplus, fails, winVars>>

Spawn(t) ==
  /\ at[t] = Unborn /\ t \in Crowd[client] /\ ~ended
  /\ \E u \in Threads : u # t /\ at[u] = Outside /\ Between(u) /\ todo[u] = << >>
  /\ Go(t, Outside)
  /\ UNCHANGED <<owner, job, hookVars, code, listed, frozen, skipped, surplus, fails, winVars>>

\* The detours around the heap and the modules call the original, then return;
\* some have nothing to call (RtlValidateHeap, RtlFreeHeap of no block).  What
\* they record, and in which order, is module HeapHooks.
Detour(t) ==
  /\ Runs(t) /\ ~ended /\ at[t].in = "detour" /\ todo[t] = << >>
  /\ at[t].fn # Exit \/ client = "any"
  /\ Go(t, Outside) \/ (at[t].off = 0 /\ CallOriginal(t))
  /\ UNCHANGED <<owner, job, hookVars, code, listed, frozen, skipped, surplus, fails, winVars>>

\* detour_exit: unhook, and only then the original, which does not come back.
detour_exit(t) ==
  /\ client = "rmem"
  /\ Runs(t) /\ ~ended /\ at[t].in = "detour" /\ at[t].fn = Exit /\ todo[t] = << >>
  /\ \/ /\ at[t].off = 0
        /\ Go(t, [at[t] EXCEPT !.off = 2])
        /\ todo' = [todo EXCEPT ![t] = UnhookAllocs(linkerBased)]
     \/ /\ at[t].off = 2
        /\ CallOriginal(t)
        /\ UNCHANGED todo
  /\ UNCHANGED <<owner, job, hookVars, code, listed, frozen, skipped, surplus, fails>>
  /\ UNCHANGED <<client, linkerBased, recording, calls, ended>>

\* exit itself, when its overwritten head is behind the thread.
ProcessEnds(t) ==
  /\ Runs(t) /\ ~ended /\ at[t].in = "target" /\ at[t].fn = Exit
  /\ at[t].off = Last(StartOf[Exit])
  /\ ended' = TRUE
  /\ UNCHANGED <<minVars, client, linkerBased, recording, todo, calls>>

Step(t) ==
  /\ ~ended
  /\ ~(at[t].fn = Exit /\ at[t].in = "target"
         /\ at[t].off = Last(StartOf[Exit]))
  /\ StepTarget(t) \/ StepAbove(t) \/ StepRelay(t) \/ StepTrampoline(t)
  /\ UNCHANGED <<owner, job, hookVars, code, listed, frozen, skipped, surplus, fails, winVars>>

LibraryStep(t) == ~ended /\ Library(t) /\ UNCHANGED winVars

Next ==
  \/ rmemHookAllocs \/ rmemUnhookAllocs
  \/ \E t \in Threads :
       \/ Anything(t) \/ MinHookCall(t) \/ RecorderCall(t)
       \/ \E f \in Fns : CallFunction(t, f)
       \/ Spawn(t) \/ Detour(t) \/ detour_exit(t) \/ ProcessEnds(t)
       \/ Step(t) \/ LibraryStep(t)

\* A thread that rewrites code waits for nobody, and the scheduler runs it: the
\* others may be suspended, and nothing at all is assumed of them.
Fairness == WF_vars(~ended /\ (\E t \in Threads : Rewriting(t)) /\ UNCHANGED winVars)

Spec == Init /\ [][Next]_vars /\ Fairness
===============================================================================
