-------------------------- MODULE WinHookProperties --------------------------
(* What WinHooks promises, with MinHook underneath. *)
EXTENDS WinHooks

\* The variables keep their types; the table of hooks never outgrows the array
\* (AddHookEntry, DeleteHookEntry); only the owner of the spin lock has threads
\* suspended.
HooksTypeOK ==
  /\ owner \in Threads \cup {NoThread} /\ inited \in BOOLEAN
  /\ Len(hooks) <= capacity
  /\ hooks # << >> => inited
  /\ code \in [Fns -> {"original", "patched"}]
  /\ frozen # {} => owner # NoThread
  /\ frozen \cup skipped \subseteq listed /\ owner \notin frozen
  /\ surplus \in [Threads -> Nat]

\* Every hook has a slot of its own, every slot in use belongs to a hook, and a
\* relay is near enough for the jump of 32 bits that leads to it: AllocateBuffer
\* and FreeBuffer agree with g_hooks whatever is created, removed or fails.
SlotsMatchHooks ==
  /\ BufferOK(blocks)
  /\ SlotsInUse(blocks) = {hooks[i].slot : i \in DOMAIN hooks}
  /\ \A i, j \in DOMAIN hooks :
       hooks[i].target = hooks[j].target \/ hooks[i].slot = hooks[j].slot => i = j
  /\ \A i \in DOMAIN hooks :
       hooks[i].slot - Address[hooks[i].target] \in -MaxRange .. MaxRange

\* A function starts with the jump exactly when the table has it as enabled: no
\* entry is lost, swapped or freed while its jump is in the code.
PatchedIffEnabled ==
  \A f \in Fns : code[f] = "patched" <=> Hooked(f) /\ Hook(f).isEnabled

\* Whatever the call and whatever fails, no thread that Freeze suspended and could
\* examine stands inside bytes that EnableHookLL then replaces by the jump.  (For
\* a thread that GetThreadContext or SetThreadContext failed for, and for one that
\* could not be listed, opened or suspended, the code promises nothing: the call
\* goes on as if it had been moved.)
NobodyInPatchedBytes ==
  [][\A f \in Fns, t \in frozen \ skipped :
       code[f] = "original" /\ code'[f] = "patched" /\ at[t].in = "target" /\ at[t].fn = f
       => at[t].off = 0 \/ at[t].off >= PatchedBytes(TrampolineOf[f])]_vars

\* When rmem gives a trampoline back, the threads still on it are those that went
\* there from a detour after the function was restored; whoever was in the relay
\* or the trampoline before was moved out (FindOldIP).  Freeze does not run for a
\* hook that failed to be enabled, so this is said of runs without failures.
ReleasedToStragglersOnly ==
  [][client = "rmem" /\ fails = 0 =>
       \A t \in listed :
         at[t].slot \in SlotsInUse(blocks) \ SlotsInUse(blocks)'
         => at[t].in = "tramp" /\ at[t].late]_vars

\* In the detour of exit the trampoline of exit is always there to be called:
\* rmemUnhookAllocs takes every hook away but this one (detour_exit).
ExitCanBeCalled ==
  \A t \in Threads :
    client = "rmem" /\ at[t].in = "detour" /\ at[t].fn = Exit
    => SlotLive(Exit, original[Exit])

\* The slots MinHook may use for a function: those of the granules it would find
\* for it, were none of them taken.
SlotsNear(f) ==
  LET origin == Address[f]
      near == {g \in Granules \ (Taken \cup Refused) :
                 /\ LowestFor(origin) <= g /\ g < HighestFor(origin)
                 /\ g # origin - (origin % Granularity)}
  IN  UNION {g + 1 .. g + BlockSlots - 1 : g \in near}

\* MinHook has what it needs: it can copy the head of every function, and there
\* is room near each for as many trampolines as there are functions.
Roomy ==
  /\ IsFiniteSet(Executable)
  /\ \A f \in Executable :
       TrampolineOf[f].ok /\ Cardinality(SlotsNear(f)) >= Cardinality(Executable)

\* While there is a recorder, every function of the heap and the module list that
\* exists is intercepted: rmemInit comes after MH_EnableHook and rmemShutDown
\* before the first hook is removed, so no release is missed of a block whose
\* allocation was recorded.
RecordingIntercepts ==
  client = "rmem" /\ recording /\ fails = 0 =>
    \A f \in (ToSet(Heap) \cup ToSet(Modules)) \cap Executable : code[f] = "patched"

\* The scripts are through and a thread has let go of the hooks.
Unhooked(t) ==
  /\ client = "rmem" /\ fails = 0 /\ owner # t /\ todo[t] = << >>
  /\ \/ t = Main /\ at[t] = Outside /\ calls > 0 /\ calls % 2 = 0
     \/ at[t].in = "detour" /\ at[t].fn = Exit /\ at[t].off = 2

\* After rmemUnhookAllocs the code is as it was, and all memory of MinHook is
\* given back; with linker-based hooks exit stays hooked, and nothing else.
UnhookRestores ==
  \A t \in Threads : Unhooked(t) =>
    /\ \A f \in Fns : code[f] = "patched" => linkerBased /\ f = Exit
    /\ ~linkerBased => blocks = << >> /\ hooks = << >> /\ ~inited

\* Suspended threads run again, whichever call suspended them and whether or not
\* the code could be rewritten, unless the process ends first or Unfreeze itself
\* cannot open a thread: such a one is left, suspended for ever, since nothing
\* tries again.
Left == {t \in Threads : surplus[t] > 0}
Suspended == frozen \cup Left
Thawed == Suspended # {} ~> Suspended \subseteq Left \/ ended
===============================================================================
