# A TLA+ model of rmem

rmem records the memory operations of a program into a capture file for MTuner.
Hooks in front of the allocator compose one record per operation
(`src/src/rmem_hook.cpp`), `MemoryHook::writeToBuffer` appends it to one half of a
double buffer under a lock, a background thread compresses and writes a half that
is full, and `rmemShutDown` stops that thread and flushes the rest. Everything runs
on the threads of the profiled program, in processes that may run for hours and
whose allocator calls must not be blocked, reordered or misreported.

The modules beside this file describe the parts of that machinery whose
correctness depends on order: the hand-off of buffers between threads, writer and
shutdown; the table that replaces a stack trace by its hash; the two steps of every
allocator hook; the walk over frame pointers; and, on Windows, the hooking library with
the installation and removal of the hooks under running threads. The sequential
algorithms (compression, record layout, module list, stack capture, trampolines) are
operators checked over sets of inputs. TLC checks all of them on small instances, and
TLAPS proves the safety properties that matter most for every value of the constants.

Paths below are relative to the repository; `rmem_hook.cpp` and its neighbours are in
`src/`, `rmem.h` and `rmem_entry.h` in `inc/`; `hook.c`, `buffer.c` and `trampoline.c` are those of
`3rd/minhook/src/`, `lz4.c` that of `3rd/lz4/`.

## 1. Inventory

| component | state it keeps | operations | interacts with | what is hard | what makes it correct |
|---|---|---|---|---|---|
| Recording core (`rmem_hook.cpp` `writeToBuffer`, `doubleBuffer`, `flush`, `~MemoryHook`) | `m_bufferPtr`, `m_bufferBytesWritten`, the three thirds of `m_bufferData`, `s_tempBuffer`, `m_mutexInternalBufferPtrs` | insert a record (three ways: fits, fills exactly, does not fit), swap halves, snapshot and flush | called by every hook; posts to the writer or calls the capture file | any number of threads; a swap while the writer still reads; boundaries; the destructor against running threads | no byte lost, doubled, torn or reordered; the two halves never have two users |
| Background writer (`writerStart`, `writerWaitIdle`, `writerPost`, `writerLoop`, `writerStop`) | one job slot (`m_writeJobPtr`, `m_writeJobSize`), `m_writerStop`, `m_writerStarted`, two condition variables | wait for the slot, post, take, report done, stop and join | recording threads (job slot), shutdown (stop, join), capture file | lost and spurious wake-ups; `m_writerStarted` read outside the lock; stop racing a post; its own allocations | the slot is free when it is filled; every post is written; waits end; no cycle of waits |
| Capture file (`writeToFile`, the `fclose` of `flush`) | `m_file`, the excess buffer, `m_mutexWriteToFile` | open on demand, write a chunk, keep it, drop it, close | called by writer, thread or flush; its `fopen` allocates through the hooks | open that fails now and works later; re-entry; close against a late write | order kept across the excess buffer; a chunk holds whole records; nothing after the close |
| Stack-trace table (`addStackTrace`, `addStackTrace_new`) | `m_stackTraceHashes`, `m_stackTraceHash2` | look a trace up, claim a slot | inside the critical section of `writeToBuffer` | 32-bit hashes and slots collide; 0 is both a hash and "free"; chunks get lost after the table has learnt them | a bare hash always stands for the trace it was made from |
| Allocator wrappers and heap detours (`rmem_entry.h`, `rmem_wrap_win.cpp` `detour_Rtl*Heap`) | none of their own: the program's heap | allocate then record; record then free; reallocate then record | real allocator, recording entry points | the allocator reuses an address between the two steps; failures; masks of heap flags that differ, flags that differ from call to call | what the capture says is live is live, but for frees that the flags of their own call hide |
| Stack capture (`rmem_platform.h`) | none | frame-pointer walk; system calls on other platforms | called before each record | damaged frames, wrap-around, skipped frames, the caller's array; each platform clips in another place | reads only the stack, ends, stays in the array; a trace is the frames asked for, without a hole |
| C interface and life cycle (`rmem_lib.cpp`, `rmem.h`) | the hook pointer, the object's buffer, the delayed-capture flag | `rmemInit`, `rmemShutDown`, `rmemStartCapture`, the recording calls | core | check-then-act on the pointer; use of a destroyed object; second capture | a call finds a live object or does nothing |
| Windows hook installation (`rmem_wrap_win.cpp`) | `g_linkerBased`, the trampolines to call | `rmemHookAllocs`, `rmemUnhookAllocs`, `detour_exit`, the detours | MinHook, core | hooks put in and taken out under running threads; exit is hooked and unhooks; linker-based or not | what is hooked is intercepted while there is a recorder; everything is put back; exit can still be called |
| MinHook (`hook.c`, `buffer.c`, `trampoline.c`) | spin lock, hook table, blocks of slots, suspended threads, the patched code | create, remove, enable, disable, queue, apply, initialise, uninitialise | rmem's installation; every thread of the program, through the code it runs | threads suspended one by one and moved out of bytes about to change; failure half-way; slots reused | code, table and slots agree; no thread in half-written code; suspended threads run again |
| LZ4 (`lz4.c`) | hash table on the stack | compress a chunk (the reader decompresses it) | capture file | word copies past the end, 16-bit and colliding positions, a buffer that is too small | a reader gets the chunk back; nothing outside the buffers |
| Tags, markers, allocators (`registerTag`, `enterTag`, ...) | none kept by rmem | one record each | core | long names in fixed buffers; 16-bit hashes | one record per call |
| Record layout and helpers (`rmem_utils.h`, `rmem_enums.h`) | none | compose fields, `hashStr`, `wyhash64`, `uint32_cnttzl` | all records | fixed buffers, most without a test | what is composed fits |
| Module list (`rmem_get_module_info.cpp`) | none | walk loaded modules | one record of the core | a buffer that is full in the middle | whole entries, in the buffer |
| Mutex (`rmem_mutex.h`) | the platform's lock | lock, unlock | core, file | recursive on Windows only; destroyed while used | mutual exclusion |
| Xbox One hooks (`rmem_wrap_xb1.cpp`), configuration, samples, vendored stomp allocator, MSVC headers | - | - | - | - | - |

`PROJECT.json` lists every component with what is modelled of it, and under `hazards`
every place where this code can go wrong in a way a test would hardly reach, with the
properties that would notice.

## 2. Modules

| module | what it is | code |
|---|---|---|
| `Sifting` | `Sift(s, S)`: the elements of a sequence that belong to a set, with a recursive function in place of `SelectSeq`, whose operator parameter the provers cannot take | |
| `CaptureFile` | the file: open on demand, excess buffer, dropped chunks, close | `writeToFile`, end of `flush` |
| `MemoryHook` | the core, the writer and the shutdown over that file (EXTENDS `CaptureFile`) | `writeToBuffer`, `doubleBuffer`, `writer*`, `flush`, `~MemoryHook`, `rmemShutDown` |
| `HookProperties` | what `MemoryHook` promises, its inductive invariant, the refinement mapping | |
| `CaptureLog` | the abstract log that `MemoryHook` implements | |
| `MCMemoryHook` | instance for TLC | |
| `MemoryHookProofs` | proofs about `MemoryHook`: the hand-off between the threads and the writer, the stream of records, the abstract log, the locks | |
| `SequenceLemmas` | lemmas on numbers, sequences and sums that the proofs share | |
| `StackTraces`, `MCStackTraces`, `StackTraceProofs` | the table, with the file behind it (EXTENDS `CaptureFile`) | `addStackTrace`, `addStackTrace_new`, `writeToBuffer` around them |
| `HeapHooks`, `MCHeapHooks`, `HeapHookProofs` | the hooks around the allocator | `rmem_entry.h` wrappers, `detour_Rtl*Heap` |
| `FrameWalk`, `FrameWalkProofs` | the AArch64 frame-pointer walk | `getStackTrace` in `rmem_platform.h` |
| `HookBuffer` | executable memory near the hooked code, as operators on a list of blocks | `buffer.c` |
| `Trampoline` | the copy of a function's head, as operators | `trampoline.c` |
| `MinHookLemmas` | proofs about these two | |
| `Sums` | where field after field, or instruction after instruction, comes to lie | `addVarToBuffer` |
| `MinHook` | the hooking library, and the threads that run through what it rewrites (EXTENDS `HookBuffer` and `Trampoline`) | `hook.c` |
| `WinHooks` | rmem on top of it, or any program (EXTENDS `MinHook`) | `rmem_wrap_win.cpp`, entry points of `rmem_entry.h` |
| `WinHookProperties`, `MCWinHooks`, `WinHookProofs` | properties, instance and proofs of `WinHooks` | |
| `Lz4` | compressor and decompressor, as operators | `lz4.c` |
| `RecordLayout` | sizes of records, list of modules, as operators | record functions of `rmem_hook.cpp`, `rmem_utils.h`, `rmem_get_module_info.cpp` |
| `StackCapture` | what each platform makes of the system's answer, as operators | the other branches of `getStackTrace` |
| `Algorithms`, `AlgorithmProofs` | the operators run on sets of inputs (EXTENDS `RecordLayout`, `StackCapture`, `Trampoline`), and proofs for all inputs | where they are called |
| `Compression`, `MCAlgorithms` | the same with `Lz4` (EXTENDS `Algorithms`), and the instance for TLC | `writeToFile` |

### MemoryHook

*State.* The variables `m_...` are the members of the same name; `mem` is the memory
of the two halves and `s_tempBuffer`, byte by byte; `pc` says where each thread and the
writer are; `src` is the pointer and size each has in its hands; `op` is the record being
made. A byte is modelled by the record it belongs to and by whether it is the last of it:
that is all that order, loss, duplication and tearing depend on. `log`, `mustSave` and
`dropped` are history variables.

*Grain.* A critical section that never blocks inside is one step: `AppendRecord` is the
common case of `writeToBuffer`; `PostJob`, `TestIdle`, `JobDone` are the critical sections
of `m_writerLock`. The slow path keeps the buffer lock over several steps
(`FillBuffer`/`OverflowBuffer` - `WaitIdle` - `TestIdle`... - `SwapFull`/`SwapPartial` -
`Post` - `PostJob` or the file - `UnlockB`). What the code reads without a lock is a step
of its own: `m_writerStarted` in `writerWaitIdle` (`WaitIdle`) and in `writerPost` (`Post`), the hook
pointer in every entry point (`Call`). A thread asleep on a condition variable is woken by
the signal, by nobody else's, or spuriously; the code's loops decide what happens then.

*Shutdown.* `rmemShutDown`, `writerStop`, `writerJoin`, `flushSnapshot`, the wait for idle, the
write, `flushClose`, `destroyLocks`, `unhook` are the destructor and what follows it, in the
code's order. With `Quiet` the other threads are at rest from then on; without it they may be
anywhere, and go on. After `destroyLocks` the mutexes are destroyed while the hook
pointer is still set: a lock of a destroyed pthread mutex succeeds at once and excludes
nobody, which `LockFree` says.

*Re-entry.* With `Reentrant` (heap calls hooked, as on Windows) the allocations of `fopen` are
recorded by the same thread from inside `writeToFile`: `NestedCall`, `NestedRecord`. The
writer's own are suppressed (`RMEM_WRITER_GUARD`, `Suppressed`).

*Taken over as assumptions from the code's comments.* A record is smaller than a half
(`RecordSizesAssumption`; the largest, the module list, is 1 MB against 4 MB); the first record
is inserted by the constructor and leaves room (`HeaderAssumption`); the records of `fopen`'s
allocations fit the fresh half (room guard in `NestedCall`). `fwrite` and `fflush` are all or
nothing: their results are ignored by the code and the format has no recovery.

### CaptureLog

A sequence of records to which `Insert` appends, a saved prefix that `Save` extends, `Lose`
that gives up the records next in line (only where opening may fail), and `Close`, possible only when
everything is saved. `ImplementsLog` maps the inserted bytes that `writeToFile` has not
dropped to `recorded`, and the file followed by the excess buffer to `saved`. What flush's own `fopen`
allocates is recorded after flush has taken its snapshot, into a half nobody will write: those records
are lost in the code, and the mapping counts only what came before (`InTime`).

### StackTraces

The same file, filled a half at a time by the recording thread (that the writer keeps the order
is what `MemoryHook` shows). `Hash` is any injective function into 64-bit values other
than 0, `Hash32` its truncation, `Slot` the truncation modulo the size of the table: three
levels at which traces may agree. `Known`, `FreeSlot` and the remaining case are the ways out of
`addStackTrace`. A reader is taken to resolve a hash with the first whole trace that carries it.

### HeapHooks

Each hook is two steps, the call of the real allocator and the record, in the code's
order. The allocator may return any address that is free at that moment, also one
released a step ago. `known` is the set a reader of the capture has after replaying the records. The
flags of each call decide through `RecordsAlloc` (mask `0x50800163`) and `RecordsFree` (mask
`0x50800063`) whether it is recorded, and every call chooses its own: `HeapAlloc(h, 0, n)` may be followed by
`HeapFree(h, HEAP_NO_SERIALIZE, p)`, and then the detour hides the free of a block the capture knows. `hidden` remembers
the addresses whose last release was hidden in this way (`Release`). `inPlace` is fixed at the start and separates the programs in which
`realloc` never moves, nothing fails, no flags are masked and the capture is on from the
first allocation, from all others; `Start` is the moment the hook pointer is set.

### FrameWalk

`SkipFrame` and `TakeFrame` are rounds of the two loops, `Stop` their exit tests, `Valid` the
macro `RMEM_FP_VALID` with the wrap-around of unsigned addition. `memory` holds any
of `Values` in every word of the stack; a word outside the stack yields any value and
remains in `reads`. The stack bounds themselves come from `pthread_getattr_np` and are constants.

### HookBuffer, Trampoline, MinHook

`HookBuffer` is `buffer.c` over a list of blocks `[base, free, used]`: the clipping of the window around
the hooked function (the walk over the registered blocks excludes its upper end, the search for a region includes it), the
searches below and above, the free list as a sequence, release of a block with its last slot. An address counts
slots. `Trampoline` copies a function instruction by instruction; an instruction is its length, its kind
and where a relative branch leads, in place of the disassembler's answer.

`MinHook` has one action per part of `hook.c` that others can come between: entering the spin lock,
the snapshot of the threads, suspending each (with `ProcessThreadIPs`), rewriting each function,
resuming each, and the end of the call, with all the call does to the table and the slots, and the release of the
lock. `Pending` is what the loops of `EnableAllHooksLL` and `MH_ApplyQueued` have left to do. `MaxFails` times a call of the system or the heap may fail:
`VirtualProtect`, `HeapCreate` and the allocations of `MH_CreateHook`; the snapshot of `EnumerateThreads`, or the memory for it, so that some or all threads are not listed and the code is
rewritten all the same; `OpenThread` or `SuspendThread` in `Freeze` (the thread is in `skipped` and goes on running), and `GetThreadContext` or `SetThreadContext` there (in `skipped`, suspended, not moved); and
`OpenThread` in `Unfreeze`, after which the thread keeps a suspension too many (`surplus`) and runs no more, unless a later call resumes it without having suspended it. As in the code `EnumerateThreads`, `Freeze` and
`Unfreeze` go on after a failure, `EnableHookLL` ends the loop, and `MH_Initialize` leaves the library uninitialised. The array may or may not shrink. The processor is part of the model: `at` says at
which instruction of which function, jump, relay, detour or trampoline a thread is, `StepTarget`, `StepAbove`,
`StepRelay` and `StepTrampoline` execute the bytes that are there at that moment, and a thread whose bytes no longer make sense is `Lost`. A
thread that was spawned after the snapshot is not suspended, as in the code.

### WinHooks

`rmemHookAllocs`, `rmemUnhookAllocs` and the detour of exit as the scripts of calls they are, one call
at a time; `linkerBased` chooses the branches. The heap functions, the module functions and exit stand for
three lists of names; a function that `GetProcAddress` does not find is in `Modules` and not in `Executable`. `exit` is of the C library, so it is in neither list
(`HooksAssumption`). With linker-based hooks nobody calls it before `rmemHookAllocs` has returned: `rmemEntry` makes that call before it enters the C runtime.
Client "rmem" runs these scripts, client "any" makes calls of the whole interface in any order from any
thread, which is what the properties of the library itself are checked against.

### Lz4, RecordLayout, StackCapture, Algorithms, Compression

`Lz4` follows `LZ4_compress_generic_validated` along the path of `LZ4_compress_default` (no dictionary, acceleration
1): the search with its growing step, the catch-up, literals, match, the immediate next match, the last literals, with the
test of the output limit at each place. Besides the block it yields the furthest byte written and read, because the copies move whole words.
A hash is a sum instead of a product: which positions share a bucket is arbitrary, that they may is
the point. `LZ4_decompress_safe` has the shortcut that skips tests. `RecordLayout` keeps of a record the sizes of its fields.
`StackCapture` gives for each platform the number returned and the values stored. `Algorithms` is a machine with one step per
input, so that TLC runs the operators over sets of inputs; `Compression` adds the steps that call LZ4. They are two modules because `Lz4` is made of
recursive operators, which the provers cannot follow. The loops of the others are recursive functions of the number of elements they have seen (`Sums`, `Copied`, `ModulesAdded`, `Unwound`), which they can.

## 3. Runs

All runs use the definitions as they are; every cfg only gives constants their values.

| run | instance | shows |
|---|---|---|
| `handoff` | threads main, t1, t2 and the writer; `BufferSize` 3, records of 1 and 2 bytes, 4 calls; `Quiet`, `Reentrant`, opening may fail | the invariants and action properties of section 4 and the refinement of `CaptureLog`; no deadlock |
| `racing` | the same threads, 3 calls, threads go on during the shutdown | the halves never have two users, flush never runs beside the writer |
| `liveness` | main and t1, 4 calls, fairness | hooked calls return, posts are written, `rmemShutDown` returns |
| `late_post` | main and t1, racing | *violated*: a half posted after the writer has gone is lost |
| `lock_order` | main and t1, racing, re-entrant, `BufferSize` 4 | *violated*: file lock and buffer lock in both orders |
| `traces` | two threads, five traces, two slots, four 32-bit values, 4 records | every hash in the stream resolves, also in the saved part as long as nothing was dropped; owners are written once and stay |
| `lost_trace` | the same | *violated*: a dropped chunk, or one only in memory at a crash, takes the trace of later hashes with it |
| `heap` | two threads, three addresses, 6 calls, every kind of flags of each call, moves, failures, late start | what the capture takes for live is live unless the flags of the very call that released it hide it; without flags, moves, failures and late start, every live block is known and addresses are fresh |
| `unwind` | five words of stack, values below, on, above and misaligned, three frames, skip 0 or 1 | reads only the stack, ascends, stays in the array |
| `unwind_wrap` | the same with a pointer at the end of the address space | *violated*: the sum in the test wraps |
| `hooks` | threads main, other and third (client "any": the first two); four functions, one too short for a long jump, one that does not exist, exit out of the others' reach; three life cycles or calls, one failure | no thread runs half-written code, table, code and slots agree, hooks are there while there is a recorder, everything is put back, suspended threads run again; with any one of the failures |
| `algorithms` | chunks around every length where LZ4's format or copies change, hash tables of 1 and 499 buckets, buffers short by 0 to 10 bytes; names around every limit, also those that overflow; lists on four platforms, with and without an error; stacks up to 5 deep on seven platforms, with up to two failing calls; all functions of up to three instructions of thirteen kinds | chunks come back, nothing outside the buffers, every other record fits its buffer and those of tags, markers and allocators up to the lengths named, lists end with a whole entry, traces have no holes, trampolines are faithful |

Why the bounds are enough:

* With `BufferSize` 3 and records of 1 and 2 bytes the first two records after the header already meet "fits",
  "fills exactly" and "does not fit"; four calls fill a half, fill the other while the first
  is being written, and leave something for `flush`. Each half is used twice. Two recording threads
  are enough for one to hold the buffer lock asleep while another waits for it, with `Main` a third that
  records or shuts down. `racing` has three calls: the interleavings multiply, and a swap
  against every stage of the shutdown needs no more.
* The five traces of `traces` are one for each way of meeting: same 32-bit hash, same slot only, hash 0 alone, and
  hash 0 against another in its slot. Four records let a trace be written, meet a colliding one, and be found again. The two
  threads meet in the critical section.
* Three addresses and six calls allow for a block freed by one thread, given to the other
  and reallocated between the two steps of the first.
* The stack of five words holds two frame records and a word over; `Values` has a representative of
  each outcome of `Valid`.

* In `hooks` two functions share a block and exit needs another; `BlockSlots` 4 (a header and three slots), `Granularity` 8, `MaxRange` 16
  and the addresses 17 and 57 make a granule below that is free, one that `VirtualAlloc` refuses (`Refused`), granules that are taken (`Taken`)
  and functions out of each other's reach. `InitialCapacity` 1 makes the array grow with the second hook and shrink again. Three calls are: install, remove, install
  again; or for "any" a call after the installation that undoes or repeats part of it, and one more to find what it left behind. Two threads
  run through the functions while the third rewrites them.
* In `algorithms`, `LZ4_DISTANCE_MAX` is 60 instead of 65535, so that chunks of 60 to 75 bytes are at the limit of distance and of 16-bit tables; all other constants of
  LZ4, and the buffers of 512 and 16384 bytes, are the real ones. `Records` has the lengths at which a test or a buffer ends, and the next one: 447 to 449 for thread names, 494/495 and 499/500 for the names of tags with and without a parent, of markers and of allocators, 247/248 for
  two names of equal length in one tag, 4079 to 16321 for modules in the three sizes of characters. `Buffered` stands for 256 frames, `Words` for the numbers of 32 bits, `Bias` for the load address.

Threads (other than `Main`) and addresses are interchangeable, so the safety runs use symmetry; `liveness` does not.
`CHECK_DEADLOCK` is off in `lock_order`, where the two threads really block each other and the invariant
is to name it, in `liveness`, which `handoff` covers, in `hooks`, where the process ends, and in `algorithms`, where each input takes one step.

*Fairness* in `WinHooks`: weak fairness of the thread inside MinHook for the steps that rewrite code (`Rewriting`). It waits for nobody
in them, and the scheduler runs it while the others may be suspended; nothing is assumed of the other threads, of the program, or of the order in which
threads get the spin lock.

*Fairness* (`Fairness` in `MemoryHook`): weak fairness for what a running thread does once inside rmem
(`RecordStep`, `FileStep`), for the writer and for the steps of the shutdown: a
scheduler that runs every thread that can run. Nothing makes the program call rmem, shut it down,
allocate in `fopen` or wake spuriously. Mutexes are not assumed fair; that `CallsReturn`
holds nevertheless rests on `MaxCalls`, since with unbounded calls of others a thread may lose the race for a lock for ever.

## 4. Properties

*The hand-off.* `HalvesDisjoint`: the half being filled is never the one the writer has or
is to get. `ChunkStable`: no step changes bytes the writer is reading. `JobSlotFree`: what the comment in
`writerPost` claims. `WriterGoneAtFlush` and `ClosedForGood`: the destructor's comment. `ExcessWithinBuffer`: no
copy past the last third.

*The data.* `StreamIntact`: at any moment the file, the excess buffer, the posted half, the half in a thread's
hands and the active half together are the inserted bytes, in order, without the dropped chunks.
`WholeRecords`: a chunk can be parsed on its own. `FlushData`: what was complete before `rmemShutDown` is in the
file (or was dropped) after it. `ImplementsLog` says the same as one abstract machine.

*Waiting.* `NoWaitCycle`; `CallsReturn`, `ShutdownCompletes`, `JobWritten`.

*Traces.* `TracesResolve`, `SavedResolves`, `OwnerAddedOnce`, `OwnersStay`. *Heap.* `NoFalseLeak`, `LiveKnown`,
`NoDoubleAlloc`. *Walk.* `ReadsOnStack`, `FramesAscend`.

*Hooks.* `SlotsMatchHooks` and `PatchedIffEnabled` tie the three things MinHook keeps to each other: the slots given out, the table, the bytes in the
code. `NobodyInPatchedBytes`: no thread that `Freeze` suspended and could examine stands in bytes that become the jump; for those it could not list, open, suspend, examine or move
the code promises nothing and rewrites the bytes all the same, which is a hazard. `ReleasedToStragglersOnly`: when a trampoline is released, those
still in it went there after the function was restored, from a detour; nothing in the code keeps them out, and that is as far
as the promise goes. `RecordingIntercepts`, `UnhookRestores` and `ExitCanBeCalled` are about rmem's scripts: their order, the two branches of
`g_linkerBased`, and the detour that removes everything but itself. `Thawed`: suspended threads run again, whatever
failed, but for those that `Unfreeze` itself could not open; these stay suspended for ever, the second hazard of that kind.

*Algorithms.* `RoundTrip`, `WithinBuffers`, `RecordsFit`, `FramesCaptured`, `TrampolineFaithful`. `FramesCaptured` is restricted to stacks no deeper than the
array on PS3 and Xbox 360, which do not clip. `RecordsFit` says which records always fit, and of those of tags, markers and allocators, whose names nothing tests, up to which length they fit and that they overflow above it: a name of 500
bytes overruns the 512 of `registerMarker`, and so do a tag and its parent of 248 each. `NoList` names the cases in which there is no list of modules: an error on Xbox 360 and Android, and a full buffer on Xbox 360.

For each property `PROJECT.json` names a plausible mistake in the code (`mutants`: a loop turned into
an `if`, a size read after the reset, the writer leaving with a job posted, ...) that
the same run then reports.

## 5. Where the code differs from what it says

1. `late_post` - `writerPost` (`rmem_hook.cpp:1101`) tests `m_writerStarted` outside `m_writerLock`. A thread
   past the test posts after `writerStop` has joined the writer. The records in that half, whose calls
   had returned before `rmemShutDown` was called, never reach the file; `rmem.h:236` promises "Shut down memory library and flush data".
2. `lock_order` - `flush` takes the file lock, and its `fopen` the buffer lock through the hooked
   allocator; a thread that writes its own half takes them the other way round. `rmem_hook.cpp:98` takes it for granted that writing a file from
   a hook is "single threaded operation which is guaranteed by a lock on a higher level".
3. `lost_trace` - a chunk that `writeToFile` drops (`rmem_hook.cpp:964`) leaves its traces known to the
   table, and later records name them by hash; `rmem_config.h:9` speaks of "already saved stack traces".
4. `unwind_wrap` - `RMEM_FP_VALID` (`rmem_platform.h:215`) adds before it compares; the sum wraps for the last
   16 addresses. The comment at line 206 promises that a corrupt frame cannot fault the process.

The first two need threads that record while `rmemShutDown` runs, which the interface does not forbid and a program with
detached threads does. The test of `late_post` stands in `writerWaitIdle` too
(`rmem_hook.cpp:1083`), where the thread then waits for a writer that is gone. Two further observations are hazards without a run: while such a thread, without a writer,
writes its half itself it may do so before `flush` writes the older snapshot, so the order on disk breaks; and a `realloc` that moves
releases the old address before it is recorded, so that the record of another thread's allocation at that address may come first and be
erased by it. `LiveKnown` and `NoDoubleAlloc` are therefore claims about in-place programs.

In MinHook, `MH_DisableHook` of one function suspends the threads with `ACTION_ENABLE` (`hook.c:687`, `EnableHook`), so threads in the
trampoline stay there; rmem never calls it, and the model does as the code does (`Direction`). A hook that failed to be enabled is removed without suspending
anybody; that is why `ReleasedToStragglersOnly` speaks of runs without failures. An internal jump backwards over an instruction that is copied
at another length is not noticed by `CreateTrampolineFunction`: `jmpDest` only bounds jumps forward, hence `ForwardJumpsKept`.

## 6. Proofs

The theorems are in `*Proofs.tla`, one module per component. They hold for all values of the constants that satisfy the named
assumptions in the modules; in particular for any number of threads and any sizes, with racing threads, re-entry and failing opens.

* **MemoryHookProofs.** `HandoffInvariant: Spec => []HandoffInv`, where `HandoffInv == TypeOK /\ ControlInv`. `HalvesDisjoint` and
  `JobSlotFree` are not inductive: that a swapping thread finds the slot empty depends on a test it made some steps ago. `ControlInv` adds what
  keeps the test true: a swapping thread owns the buffer lock, until the lock is destroyed (`SwapsOwnLock`); it has seen
  the slot free, or there is no writer (`SlotSeenFree`); what it holds is the other half
  (`OtherHalfInHand`); the writer at work is at work on the posted job (`WriterHasJob`); without `m_writerStarted` there is no
  writer, and once `flush` has had the lock nobody is left who relies on one (`StartedMeansWriter`); only `Main` flushes, in stages (`FlushStages`).
  The step lemma has a case per action. `TypeCorrect`, `HandoffDisjoint`, `HandoffSlotFree` follow at once; `FlushAfterWriter`
  from `StartedMeansWriter`; `StableChunks` from `HalvesDisjoint` before and after each step; `ExcessBounded` is
  inductive with the types. Type correctness contains that no `memcpy` leaves its half.

  The second half of the module is about what happens to the records. Its theorems on the stream assume `Quiet`: every call of another thread has returned when `rmemShutDown` begins, which is what
  `rmem.h` asks of its caller ("Shut down memory library and flush data" at the end of the program). The `late_post` run is the counterexample without it, so the hypothesis is needed
  and not a convenience. The number of threads is finite (`ThreadsAssumption`), nothing else is bounded: any sizes of records and halves, any number of calls, opens that fail or
  succeed at any time, nested calls.

  * *The stream.* `StreamInvariant: Spec => []StreamInv`. `StreamIntact` says that `Saved \o Posted \o InHand \o Active`, the bytes in the four places they can be, is the log without the dropped
    records. It is not inductive by itself, because it speaks of *one* chunk in hand: that no two threads have one at a time needs who holds the buffer lock where (`InsideOwnLock`), that nobody
    writes the file beside the writer (`WritesWithoutWriter`), that a writer that has exited left no job (`ExitMeansNoJob`, `StopMeansShutdown`), together `QuietInv`. A record that filled its half to the
    last byte is in memory before it is in the log, because the swap comes after a wait (`FullHalf`). Dropping a chunk removes its *records* from the log, which is the same as removing its bytes
    only if no record is in two of the places (`NoRecordTwice`), and that needs records on their way in to be new (`NewRecords`). The proof abstracts the actions to their effects on the stream: none (`Stays`), a record joins the active half, or fills it
    and swaps it out (`Inserts`, `Swaps`), the chunk in hand is posted (`Posts`), flush takes what is left (`Drains`), a chunk is saved or given up (`Saves`, `Loses`); `EveryStep` says that each step has one of them, and each part of
    the invariant is then proved once per effect. From it `NothingLost`.
  * *Shutdown.* `ShutdownSaves` (`FlushData`) adds `FlushInv`: nothing that has to be saved is still in the active half once `flush` has taken its snapshot, and a file that was opened stays open
    until `flush` closes it (`FileOpenUntilClosed`), so nothing is left in the excess buffer behind it. `FileClosedForGood` (`ClosedForGood`) follows from `QuietInv` and the hand-off.
  * *Chunks.* `ChunksWhole` (`WholeRecords`) adds `ChunksApart`, that no record is in two chunks. With it and `StreamIntact`, all bytes that the log has of a record lie in the chunk that has any of them.
  * *The abstract log.* `CoreImplementsLog` (`ImplementsLog`). A record counts as recorded with its last byte (`Ends`). `Insert` is a step that appends to the log before the snapshot, `Lose` a drop of
    a chunk (the mapped `recorded` loses a run of its elements, and none that was saved), `Close` the return of `flush`, when by `FlushInv` and `LogInv` everything recorded in time is saved; every other step stutters.
    The step lemma uses the same effects.
  * *The locks.* `NobodyWaitsForItself` (`NoWaitCycle`), which assumes that the program is quiet or heap calls do not nest; `lock_order` is the run with neither. `LockInv` says where the owner of each lock is; every actor gets
    a rank (3 who wants the buffer lock, 2 who waits for the writer, 1 who wants the file lock, 0 the rest), and an actor waits only for one of smaller rank. The recursive function in the
    definition is unfolded by induction on its argument.
* **SequenceLemmas.** Induction over natural numbers and sequences is possible where the predicate is given as a *set* (`NatInduct`: a set of naturals with 0 and successors is `Nat`; `SeqInduct`), both from the well-foundedness of
  finite sets; the theorems of the library that take an operator are out of the provers' reach, these are not. With them, what `Sift` and `FlattenSeq` compute for every sequence: they distribute over concatenation (`SiftConcat`,
  `FlattenAppend`), keep the type, keep the range (`SiftRange`), and compose (`SiftTwice`).
* **StackTraceProofs.** `TableInvariant: Spec => []TableInv`. `TracesResolve` needs: lookup and insertion are one critical section
  (`LockHeld`), slots hold both hashes of one owner (`SlotsConsistent`), an owner's trace is the first of its hash in the stream or in
  the hands of the thread in the critical section (`OwnerIsFirst`), because no whole trace passes a free
  slot without claiming it unless its hash is 0 (`AddTakesSlot`), and a pending record fits the stream (`PendingFits`). From it
  `HashesResolve`, `NoRepeatedTrace`; `SlotsKeepOwners` from `SlotsConsistent`; `TraceTypes` by itself. The case of a 32-bit hash of 0 is in the
  proof: such a trace never claims a slot and is written in full every time. `SavedTracesResolve` (`SavedResolves`) is about the file: `FileInv` says that until a chunk is dropped the last bytes of the records in the
  file, the excess buffer and the active half are those of the entries, in order (`StreamComplete`; it needs `ExcessInUse`, without which a write would leave excess bytes behind). So what is saved is a first part of the entries, and
  every first part of a stream that resolves does (`PrefixResolves`): the trace a hash stands for was inserted earlier. `FileTracesResolve` says it of the file alone, which is what a crash leaves.
* **HeapHookProofs.** `HeapInvariant` and from it `FreedForgotten` (`NoFalseLeak`): blocks in flight are disjoint (`OwnedApart`), and a
  block that is known is live and its free, if it is under way, has not been recorded (`FreeRecorded`), or its reallocation is due, or its last release was hidden (`KnownKept`). Nothing is assumed of the flags: a
  call's flags decide about its own record and about `hidden`, and those of earlier calls do not matter. `InPlaceInvariant` gives `NothingForgotten` and `AddressesFresh`.
* **FrameWalkProofs.** `OnlyStackRead` assumes that no word of the stack holds one of the last 16 addresses (its hypothesis is the
  negation of finding 4) and rests on alignment arithmetic (`NextAligned`, `ValidOnStack`). `WalkAscends` needs no such hypothesis.
  `ArrayNotOverrun` is type correctness under the same hypothesis as `OnlyStackRead`, and says that no more frames are returned than the array has room for.
* **MinHookLemmas.** What the allocator of slots does, for every granularity, block size, range and map of the address space: `AllocateBufferGives` (a
  slot that was not in use, near the function, is in use, no other changes, and the lists stay sound) and `FreeBufferGives` (exactly this slot is not in use any more).
  The arithmetic below them: blocks at different granules share no slot (`GranulesApart`), the base is found from the slot's address (`BaseOfSlot`), and
  a region that the search accepts is in reach (`RegionsNear`).

  And what `CreateTrampolineFunction` does, for a function of any code. `LoopOK` is the invariant of its loop, stated of the n-th round (`CopiedOK` carries it over one round more, for each way an instruction
  is copied): the old positions are the starts of the instructions copied so far, the new ones go up with them by the sizes of the copies, nothing has grown under a jump forward, and the slot still has room for the jump back. From it
  `TrampolineLists`, `PlacesForAll` (every instruction that is overwritten is in the list), `AllFit` and `AllJumpsKept`.
* **AlgorithmProofs.** `AlwaysComputed`: once an algorithm is done, its input is of the promised kind and its output is what the definition gives; the three invariants of the `algorithms` run then follow from lemmas on the definitions.
  * `RecordsAlwaysFit` (`RecordsFit`). The size of a record of parts is the sum of theirs (`ComposedConcat`, by induction over the second part), so every record is the sum of a few constants and the lengths of its variable parts, for any
    `RMEM_STACK_TRACE_MAX` (`OperationsFit` is the `static_assert` of `rmem_hook.cpp` for every depth) and any name. Nothing is assumed of names: for tags, markers and allocators the theorem gives the longest ones that fit, and says that longer ones do not. Nor is anything assumed of
    errors: where there is no list it is `NoList` that holds. `ListOK` is the invariant of the loop over the modules: what has been listed are whole entries, and it stopped where the next had no room.
  * `FramesAlwaysCaptured` (`FramesCaptured`), a lemma per platform, for stacks of any size on five of them; on PS3 and Xbox 360 for stacks no deeper than the array (and no more frames skipped than there are), because these two do not clip what they store. Failing calls of the system
    are included where a branch tests for them. The invariant of the unwinder's calls is `UnwoundOK`.
  * `TrampolinesFaithful` (`TrampolineFaithful`), from `MinHookLemmas`.
* **WinHookProofs.** `HookInvariance: Spec => []HookInv`, for any functions, threads, scripts and failures, with a lemma per operation that touches the table
  (`EnableKept`, `QueueKept`, `CreateKept`, `RemoveKept`, `UninitKept`). `PatchedIffEnabled` is not inductive: the entry `CHOOSE` finds must be the only one for its function
  (`TableInv`); `MH_RemoveHook` and `MH_Uninitialize` may drop entries only because a call that succeeded has left nothing pending, which needs the shape of the call in
  progress (`JobTypes`) and so of the scripts (`TodoTypes`); `SlotsMatchHooks` needs that entries have different slots and that MinHook's table is the only user of the allocator
  (`SlotInv`). `FreezeInv` says who has threads suspended and when. From it `HooksTypeCorrect`, `PatchedCorrect`, `SlotsCorrect`.

  The second half is about rmem's own scripts, for lists of functions of any length. `ScriptInvariance: Spec => []RmemInv` says that rmem is always in one of two modes. In the first `rmemHookAllocs` is at work (`Hooking`): nobody
  else has calls to make, nobody is on the way to exit, there is no recorder, and without a failure every call before the present one has done what it is for (`HookDone`). In the second (`Using`) whoever has calls to
  make unhooks, in `Main` or in the detour of exit, several threads at a time if they like, and what the calls of each have removed stays removed whatever the others do (`UnhookDone`). `ExitInv` and `PlaceInv` say where threads
  can be: nobody is in the detour of exit unless exit is hooked, which it stays. The step lemma (`NextKeeps`) uses that all steps but one move threads as `Moved` says; `HookScript` and `UnhookScript` give the form of
  the two scripts from `HookAllocs` and `UnhookAllocs`, of which no other fact is used. From it follow

  * `ExitAlwaysCallable` (`ExitCanBeCalled`): exit is hooked while a thread is in its detour, and `OriginalInv` says that what `MH_CreateHook` stored is the slot of the entry;
  * `UnhookingRestores` (`UnhookRestores`): a thread whose script is through has all of it done, so only exit can be hooked still, and without linker-based hooks `MH_Uninitialize` has succeeded;
  * `RecorderInterceptsAll` (`RecordingIntercepts`), which assumes `Roomy`: MinHook can copy the head of every function and there are as many slots in reach of each as there are functions. Without that `MH_CreateHook` fails, rmem
    ignores it, and the recorder runs beside functions that are not intercepted; the code has nothing to prevent that, so it is a hypothesis. TLC evaluates it on the constants of the run (`MCRoomy`). That `AllocateBuffer` then finds a slot is
    counted: a failure means that every slot near the function is in use (`AllNearInUse`), each by another function (`RoomForOne`).

  The third part is about the threads that stand in the code while it is rewritten, when any call of the system may fail. `NobodyEverInPatchedBytes` (`NobodyInPatchedBytes`) rests on `BytesInvariance: Spec => []BytesInv`, where `BytesInv == Positions /\ OwnTrampolines /\ HeadsClear`:

  * `Positions`: a thread in a function is at the start of an instruction, one in a trampoline at a place of its list, and only trampolines that could be built have anybody in them. A step of the processor keeps that because a trampoline's last copy is a jump back
    to an instruction or a return (`TargetStep`, `TrampolineStep`, `StepPositions`), and `CodeAssumption` says that the functions are whole instructions that end in a return.
  * `OwnTrampolines`: each entry of the table has the trampoline of its function, also after `DeleteHookEntry` has moved it.
  * `HeadsClear`: while threads are being suspended, those that are already suspended, and could be examined and moved, are out of the bytes of every hook still to be enabled. This is why the property is not inductive: between the suspension of a thread and the writing of the jump there are as many steps as there are
    threads and hooks. `Processed` is the step that establishes it for one thread: who stands in the bytes is in the trampoline's list (`PlacesForAll`) and is moved there, and who is moved back into a function is in one whose hook is to be disabled, the only entry for it;
    `SuspendedStay` is why it lasts; rewriting one function leaves fewer hooks to enable (`HeadsClearKept`).

  The fourth part is about who is on a trampoline when it goes. `OnlyStragglersReleased` (`ReleasedToStragglersOnly`) rests on `ReleaseInvariance: Spec => []ReleaseInv`, which is about runs of rmem without failures. A thread may stand in a relay or a trampoline
  through a whole life cycle, while its hook is removed and made again, so the call that removes the second hook must find it there. `Freeze` knows a thread by the slot it is in and by its offset in the trampoline, which would be of no use if the slot now belonged to another function.
  It does not:

  * `Built` follows the calls of `rmemHookAllocs` one by one and says which slot each gives to its function (`AfterCall`); two functions never get the same (`BuiltGood`). `TableBuilt`: while `rmemHookAllocs` is at work, blocks and hooks are exactly as built, because it always begins
    with an empty table (`EmptyAtFirst`, and `UnhookRestores` for the next time); so every function has the same slot in every life cycle, that of `SlotOf` (`OwnSlots`, `BuiltGrows`).
  * `Ways`: whoever comes into a slot gets there from an enabled hook, from one that is just being enabled, or is a straggler, who called the original when its function was already restored. With `OwnSlots`, everybody in a slot but the stragglers is in the code of its function (`SlotPlaces`).
  * `OthersEnabled`: once `rmemHookAllocs` is through, a hook is disabled only by the call that removes it, which has suspended all threads listed; `MovedOut`: those suspended so far are out of the hooks still to be disabled (`FreezeMovesOut` is the step for one thread);
    `OnlyStragglers`: after that nobody listed gets in again but stragglers, until `MH_RemoveHook` or `MH_Uninitialize` gives the slot back (`UndoingEnds`).

The inductive invariants (`HandoffInv`, `StreamInv`, `FlushInv`, `ChunksApart`, `LogInv`, `LockInv`, `TableInv`, `FileInv`, `HeapInv`, `HookInv`, `RmemInv`, `BytesInv`, `ReleaseInv`) were checked with TLC on the constants of the runs before they were proved; since they
imply the properties of the runs, they are not checked again there.

Only model-checked: the liveness properties (`CallsReturn`, `ShutdownCompletes`, `JobWritten`, `Thawed`), which need `ENABLED`; `RoundTrip` and `WithinBuffers`, because `Lz4` is made of operators that call each other recursively.

## 7. Not modelled, and why

* The values in records: times, sizes, overheads, names. Properties look at sizes of fields and at which trace a hash stands for. `hashStr`, `wyhash64` and `uint32_cnttzl` are
  arithmetic on data that no property looks at.
* Two threads in the first `rmemInit`, delayed capture, a second capture beside running threads, `m_ignoreAllocs`; the Xbox One hooks, which record in the order of `HeapHooks`.
* In MinHook: the disassembler `hde` (instructions of the model stand for its answers), `MH_CreateHookApi`, which looks a name up and calls `MH_CreateHook`, calls
  that fail on an open handle apart from the call before them: `SetThreadContext` counts as `GetThreadContext` (the thread is not moved), `ResumeThread` as the `OpenThread` of `Unfreeze` (it stays suspended), and `SuspendThread` as that of `Freeze`;
  `hook.c` would then examine and perhaps move a thread that runs, for which Windows defines no outcome.
* In LZ4: streaming, dictionaries, `destSize`, partial decoding, the high-compression interface and big-endian or 32-bit builds, none of which rmem uses; `memcpy`-level variants of the copies.
* `fwrite` and `fflush` are all or nothing: their results are ignored by the code and the format has no recovery.
* What the system libraries of the consoles do is not in the repository; `StackCapture` takes their answers as given.
* The stomp allocator (included by nothing), MSVC headers, samples, makefile: vendored, or examples.
* The models take the shipped configuration: hashing, compression and background writer on, delayed capture off.

## 8. Plan

Done, in this order: recording core with file, writer and shutdown; its properties, abstract log and proofs; trace
table; heap hooks; frame walk; hooking library and Windows hook installation with their proofs; the algorithms; the
proofs about the stream of records, its refinement of the log, the locks, and what is in the file; the proofs about rmem's scripts; the proofs about
the algorithms for all inputs, about the threads in code that is rewritten, and about those on a trampoline that is given back.

Next:

1. `HookLifecycle`: the hook pointer and the object over several captures - `rmemInit` as check-then-act by two threads, `rmemShutDown` by one of several, delayed capture, the
   Xbox order at exit. Properties: one object at a time, no call into a half-made or destroyed object (expected to fail in named ways), trailing
   data flushed once. The order on disk against late writers belongs here.
2. `RoundTrip` and `WithinBuffers` for every chunk: `Lz4` would have to be written with recursive functions.
