# WinVita, verified models

WinVita runs 32-bit Windows programs on an ARM console: a PE loader and an
import bridge, a dynamic translator (vendored box86), a few hundred Win32 shims,
and two thread schedulers. This directory holds TLA+ models of the engine's own
logic, aimed at the mistakes no unit test reaches, the TLC configurations that
check them on small instances, and TLAPS proofs of what matters most for every
instance.

Run a check with `tlc -config engine.cfg MCEngine.tla`, a proof with
`tlapm NativeSchedProofs.tla`. `PROJECT.json` lists every run, the source lines
each definition stands for, and the mutants that show each property can fail.

## The system

| component | state it keeps | operations | what makes it correct |
|---|---|---|---|
| GIL (`runtime/gil.*`) | one mutex, its holder's mark, a table of 132 identity slots | lock, unlock, register, unregister, probe | a lock-free probe never gives a false name |
| guest sync objects (`guest_sync.*`) | counts, owners, events; the handle table; the critical-section map and its one-entry cache | try_acquire, ready, leave, forget | no token lost or duplicated; wait-all is atomic; one thread in a section |
| native scheduler (`sched_native.*`) | a host thread, condition variable and stack per guest thread; states; shutdown flag | create, resume, wait, notify, finish, exit, shutdown, run | no lost wake-up, one owner per stack, a killed thread stays dead, shutdown ends |
| anti-starvation net (`sched_native.cpp`, `cpu_box86.cpp`) | an epoch, a budget per translated thread | heartbeat, poke, nap | a starved main thread gets its core; no nap without a new epoch |
| cooperative scheduler (`sched_cooperative.*`) | one running thread, saved contexts, virtual or real clock, pin | the same interface on one host thread | the right answer on every wake path, turns for all, no false deadlock verdict |
| wait and sync shims (`win32_shims_wait.cpp`, `win32_shims_sync.cpp`) | objects behind handles, completion ports | the Win32 calls | an answer written in advance is still right when the wait ends |
| bridge (`bridge.*`) | modules, shims, trap slots | add_module, register_shim, link, trap_handler, runtime loads | modules lie apart; an import calls what its name says |
| cpu (`cpu.h`, `cpu_box86.cpp`) | one emulator per thread, budgets, page marks, trap index, the guest's arena | run, request_stop, write, invalidate, set_intrinsic | registers of one thread; no stale translation; a stop lands |
| translator helpers (`dynarec86/`) | deferred flags, served memcpy and memset | UpdateFlags, the inline sequences and their helpers | what the guest's own instructions would have done |
| JIT memory pool (`dynarec86/shim/vita/mman_vita.c`) | VM segments, RW pool, a registry of blocks, gauges | mmap, munmap, clear_cache | blocks never overlap and never leave live memory |
| guest memory (`guest_region.h`, `guest_scratch.cpp`, `win32_shims_memory.cpp`) | free lists, decommitted pages, a bump pointer | HeapAlloc, VirtualAlloc, scratch and their kin | blocks apart, data kept |
| PE image (`pe_image.cpp`) | an image being built | map, relocate, imports, exports | the image the linker meant, moved |
| sound (`ds_emul.cpp`, `vita_audio.cpp`, `audio_sink_host.cpp`) | voices, shared buffers, the sink and its host thread | the DirectSound calls, mix, pump, retry, shutdown | no sink used after it is gone; no buffer reused while it is read |
| network (`win32_shims_wsock32.cpp`, `net_guard.cpp`, `net_nonblock.cpp`, `poll_gil.cpp`) | handles to descriptors, receive time-outs | the Winsock calls | a call answers for its own socket; the exit lock holds |
| signatures (`authenticode.cpp`, `win32_shims_wintrust.cpp`) | messages, stores, contexts, roots | WinVerifyTrust, CryptQueryObject, enumeration | nothing unsigned is trusted; a well-formed file is |
| console keyboard and GPU memory (`platform/vita_kb.h`, `vita_gpumem.cpp`) | keys, echo, mask; blocks of three kinds | touch, draw; allocate, map, free | no masked character is drawn; no block leaks |
| files, strings, locale, other shims, clocks, renderer, tools | – | – | conversions and I/O, each one critical section |

Threads interact through shared state only. Translated guest code runs without
the GIL; each import is a trap whose handler takes the GIL, runs the shim, and
gives it back. A shim changes an object and calls `notify`; `notify` re-polls
every blocked thread and acquires on behalf of those it can serve. The heartbeat
thread reads thread states under the GIL and writes the budgets that translated
code decrements without it. The sound thread, the presentation thread (keyboard)
and the watchdog are the other host threads; a socket call gives the GIL back
while it polls.

What is hard here: the window between a test and a sleep, a time-out racing the
signal that granted the wait, a termination from outside at any point of
another thread's life, recycled stacks, sockets and sound buffers, a stop
request racing a non-atomic decrement, sticky flags that three wake paths must
reset alike, host calls that fail halfway. `PROJECT.json` lists these hazards at
their lines.

## Modules

A module models one part and has its own `Init`, `Next` and properties. Where
two parts share code they share the module: both schedulers use `GuestSync`,
the two heap modules use `GuestRegion`.

| module | models | how it corresponds |
|---|---|---|
| `GuestSync` | `guest_sync.h` | `IsReady`, `CanAcquire` are the `ready()` methods; `Winner`, `Consume`, `CntAfter`, `OwnAfter` are `try_acquire()` |
| `SyncObjects` | what both backends promise | a thread atomically acquires what it can, gives back what it holds, signals; nothing about sleeping |
| `NativeSched` | `sched_native.cpp` | `pc` is the position of each host thread; one action per critical section, `wake_check_all` one waiter at a time |
| `Teardown` | the heartbeat's life and the end of `run` | each call to the kernel may fail or give up; what is left behind is counted |
| `Famine` | the anti-starvation net over runners on one core | `fam_beat` step by step, the seam of `run_guest`, the kernel as a queue where a thread runs until it blocks |
| `Slices` | one runner's budget | each load and store of budget, armed and blocks is a step; pokers and a lock-free reader beside it |
| `CoopSched` | `sched_cooperative.cpp` | `phase` walks `run`, `pick_ready`, `run_slice`; `left` is `wake_deadline - virt_ms_` |
| `WaitShims` | `win32_shims_wait.cpp`, `win32_shims_sync.cpp` | handles, `WxMultiWait` over handles repeated or unknown, `GetQueuedCompletionStatus` with its pre-written answer |
| `CritTable` | `g_crits` and its cache | enter, leave and delete by the embedder's shims |
| `GilIdent` | `gil.cpp` | mark, slot and probe one access at a time |
| `EmuContext` | `cpu_box86.cpp`, `cpu.cpp` | register files of a base emulator and of workers, saved contexts, the thread-local binding, under both backends |
| `X86Flags` | `x86run_flags.c` | one operator per kind of deferred operation, in the narrow and the 32-bit text; `RefAdd` and its kin are the processor manual's definitions |
| `MemIntrin` | `dyn86_memintrin.c`, `dyn86_memfast.h` | the inline sequence, the helper it falls into, and memory past the arena |
| `TrapIntrinsics` | the trap index of `cpu_box86.cpp` | open addressing, and the direct index rebuilt from it |
| `CodePages` | write, invalidate, discard, map, protect | page marks and blocks over one or two pages; box86's own lookup is external |
| `GuestArena` | the `CpuBox86` constructor | probe, rounded attempt and last resort, over every placement by the kernel |
| `JitPool` | `mman_vita.c` | `blk` is the registry, `pool.seg` the segments, `rw` the RW pool; one action per critical section of `g_blk_mx` |
| `GuestRegion`, `GuestHeap`, `VirtualMem` | `guest_region.h`, `win32_shims_memory.cpp` | the free list as operators; the heap calls and VirtualAlloc over it, with the contents of each unit |
| `GuestScratch` | `guest_scratch.cpp`, `inet_ntoa`, `gethostbyname` | addresses wrap at `Mod`; a structure of five grants, each of which may be refused |
| `GpuBlocks` | `vita_gpumem.cpp` | allocate, ask for the base, map; the kernel refuses at any step |
| `Bridge` | `bridge.cpp` | modules, `shims_` and `slots_`; import cells and addresses the guest keeps are external state |
| `PeImage` | `pe_image.cpp` | one step per section, relocation block, import and export, over small files |
| `DsVoice`, `DsBuffers` | `ds_emul.cpp` | a voice's cursor in bytes beside the mixer's own position; slots, reference counts and the two free lists |
| `AudioOut` | `ds_emul.cpp`, `vita_audio.cpp` | the sink pointer, the host thread, the deferred retry, the pump and the shutdown |
| `WavFile` | `audio_sink_host.cpp` | header refresh over a C stream that may write out at any time, and a kill at any time |
| `Winsock` | `win32_shims_wsock32.cpp`, `net_guard.cpp`, `net_nonblock.cpp`, `poll_gil.cpp` | handles, descriptors reused by the host, calls that wait without the GIL, where a datagram comes from, the resolver's refusal |
| `Keyboard` | `vita_kb.h` | each store of the input tick is a step, and so is each read of a frame: the layout, the echo's length, and of each cell the mask, then the character |
| `CertExport` | `authenticode.cpp`, `win32_shims_wintrust.cpp` | structures with pointers laid out for the guest, names as UTF-16, wide paths as UTF-8 |
| `DerBytes`, `CertParse` | `authenticode.cpp` | the reader over every short buffer, identifiers, dates; which fields the parsers take from a document |
| `RsaMath`, `ImageDigest` | `authenticode.cpp` | Montgomery exponentiation and padding over small words; which bytes of a file are hashed, and the hashers' buffering |
| `WinTrust` | `authenticode.cpp`, `win32_shims_wintrust.cpp` | the verdict over chains with ideal cryptography; handles, stores, contexts and enumeration |
| `EngineParts` | – | the engine's parts whose promises are proved, with their proofs: the registers, and instances of `CodePages`, `TrapIntrinsics`, `Slices`, `GuestArena`, `GuestHeap`, `VirtualMem`, `GpuBlocks` over constants |
| `MCNativeSched`, `MCCoopSafety`, `MCFair`, `MCEngine`, `MCServices` | – | the instances TLC runs, with the object families of the schedulers' |
| `NativeSchedProofs`, `CoopSchedProofs`, `JitPoolProofs`, `ServiceProofs` | – | theorems; those of `SyncObjects`, `CritTable`, `Famine` and the engine are in `SyncObjects`, `CritTable`, `Famine`, `EngineParts` |

`MCCoopSafety`, `MCFair`, `MCEngine` and `MCServices` each
put several instances in one run: a variable `part` is chosen
initially and never changes, a behaviour is one instance's, and the instances
use the same variables. They check together what is asked together, and
explore exactly the union of the instances' states. A property of
such a module is a conjunction with one conjunct per part; the run names one
mutant, and for every other conjunct its module defines a fault (a definition
whose comment begins with "Fault") that breaks it when it replaces the
definition below it. `MCCoopSafety` extends `CoopSched` itself, so that its
properties are those the theorems of `CoopSchedProofs` state; its two parts,
`Pair` and `Trio`, are restrictions of one instance to two and to three threads.

For the same reason `MCEngine` extends `EngineParts` and `ServiceProofs` extends
`MCServices`: the property a run checks is the definition its theorem states,
and the numbers are in the `.cfg`, so the theorem is about any. `MCEngine` adds
to `EngineParts` the parts that are only model-checked. `GuestSpec` says of those
nothing but that they stay what they are, so every behaviour of `MCEngine` is one of
`GuestSpec`. `MCServices` extends `Winsock`; its
parts `net`, `select` and `callers` are restrictions of it, as `handles`, `mixed`
and `ports` are of one instance of `WaitShims`. A restriction only leaves steps
out, so what is proved of the instance holds in each.

### GuestSync and SyncObjects

An object is an event (manual or auto reset), a mutex, a semaphore, a critical
section or a thread handle. A wait is a sequence of distinct objects and a flag, all or any;
`WxMultiWait` becomes ready when all, or some, are, and then consumes all of
them, or the first. `SyncObjects` is the abstract contract: `Acquire`
takes a wait atomically, the signal actions change one object, threads finish.
Both schedulers are shown to implement it, by TLC and by proof
(`ImplementsSync` of each): an INSTANCE with a refinement mapping. In the native backend what a thread
`Holds` includes what the waker took for it while it sleeps, which is where
the time-out race would show. `WaitShims` has the lists with a handle twice or
unknown, which `WxMultiWait` accepts.

### NativeSched

A guest action `Trap(t)` needs the GIL free and is one whole shim. Shims that
notify keep the GIL (`gil = t`) and walk `cursor` over the threads
(`WakeOne`, `ScanDone`), so that time-outs and spurious wake-ups of sleeping
threads interleave with the scan; nothing else can, as in the code.
`WaitTake`, `WaitPark`, `CondTimeout`, `CondSpurious`, `WaitAgain`,
`WaitReturn` are `wait_common`; `CreateRecycled`, `CreateCarved`,
`CreateRefused` are `create_thread` with the three ways a stack is found;
`RunnerPark`, `RunnerSeed`, `RunnerAbort`, `RunnerDone` the host thread's
function; `FinishKilled`, `FinishNormal`, `FinishLeak` are `finish_thread`;
`RequestShutdown`, `MainDone`, `JoinOne`, `RunReturns` the end of `run`.
`Terminate` is external: the TerminateThread shim belongs to the host program;
what it does to a thread is read from the comments of `wait_common` and
`finish_thread` and from how they test for it.

### CoopSched

One host thread, so every action is a step of `run`. Time is kept as the
milliseconds each timed wait has left, which is all the code compares; an
overdue deadline is 0, and ties between several overdue ones are resolved
arbitrarily (the code would take the earliest). `Answers` are the three wait
flavours, `reply` is the value in EAX, and `asked`, `midway`, `inDllMain` are
history variables read by the properties only, except that a thread is given
back the pin it set.

### JitPool

An address is a kernel block and an offset in it, so that two registered blocks
overlap exactly when they share a kernel block and their offsets do. `MapCode`
is a request served from a segment: the pool may first grow on demand
(`Demanded`), the first segment with room serves, and then growth may be
anticipated (`Anticipated`) before the lock is given back. `MapCodeAlone` and
`MapDataAlone` go to the kernel, which may refuse (`MapFails`) or grant a block
it cannot place (`Unplaced`); `MapData` serves from the RW pool, asked for once
(`Reserved`). What the code does after giving `g_blk_mx` back is a step of its
own: `FreeMemBlock` ends `Unmap` and the failure path of mmap, `SyncVMDomain`
ends `ClearCache`. The kernel's part (`Available`, and every refusal) is
external. Blocks of code are unmapped only while no thread is inside the
façade, which is what the comment above `clear_cache`'s copy relies on and what
the vendored `custommem.c` does: it frees its chunks at teardown.

### Stopping translated code: Slices and Famine

A block prologue loads the budget, subtracts one and stores it; whoever wants
the thread out of its code stores zero. `Slices` has these as separate steps, so
a zero may be overwritten; `Famine` takes over only the outcome (`PokeLost`) and
looks at the scheduling around it: runners that never block on one core with a
run-to-block kernel, the heartbeat on another.

### Sockets, sound and keyboard

`Winsock` keeps the host's descriptor numbers, lowest free first as the host
gives them, apart from the guest's handles, which are never reused: a wait that
polls without the GIL comes back to a number that may be somebody else's. Sockets
are stream or datagram; what a call answers names the socket that answered and
the address at the other end, which is what the exit lock is about: `recv`,
`recvfrom`, `sendto` and `connect` each decide for themselves what to ask of
`wx86_net_allow`, and the resolver refuses by itself.
`AudioOut` distinguishes a sink's kinds by who drives it: a real-time sink has a
thread that blocks in its driver, the others are pulled by the frame tick. The watchdog
asks the sink for its statistics without a lock, in two steps of its own. In
`Keyboard` a typed character is a number of its own, so a frame can be checked
cell by cell against what was typed and when the mask was on.

### Signatures

The verdict of `WinTrust` has ideal cryptography: a signature is the key it was made with and
the bytes it covers. The arithmetic (`RsaMath`), the bytes (`DerBytes`), the
fields (`CertParse`) and the digest (`ImageDigest`) are checked against
definitions of their own: s^e mod n, the one well-formed encoding, the
document's own structure, the headers and sections in file order. The same module
puts the verdict behind the guest's calls, with the file replaced between two
calls, roots added, and a clock. `CertExport` lays out what those calls hand
over, byte by byte, and has a guest follow the pointers back to what was signed,
whatever the base the structure was built for.

## Runs

| run | instance | checks |
|---|---|---|
| `native_objects` | 3 threads; a critical section entered up to twice, a pool semaphore and an event waited for together, with time-outs | `NoLostWakeup`, `TokensConserved`, `CritOwned`, `ImplementsSync` |
| `native_kill` | 3 threads, two may be terminated, one may call ExitThread, faults that leak, suspended creation, pthread_create may fail, stacks of 1 and 2 units in a region that can refuse the next one, a mutex and thread handles | `TypeOK`, `GrantedIsAwake`, `StackOwned`, `NoRunnerOutlivesRun`, `KilledStaysFinished` |
| `native_live` | 2 threads, fairness, shutdown, termination, faults | `GrantReturns`, `TimedWaitEnds`, `ShutdownCompletes` |
| `coop_safety` | 2 threads, virtual clock, a critical section, a pool semaphore and an event, wait-any and wait-all, three wait flavours; 3 threads, joins, faults, exits, terminations, a DllMain, shutdown | `ReplyFits`, `StackOwned`, `StopsWhenStuck`, `ImplementsSync`, `EndedAndPinned` |
| `jit_blocks` | 2 threads, 2 registry slots, 4 kernel blocks, 2 segments asked in 2 then 1 MiB, code of 1 or 2 MiB, data of 1 page (pool) or 2 (kernel) | `TypeOK`, `BlocksSound`, `SyncOnLive`, `GaugesCover`, `FrozenOnDemand`, `NothingStranded` |
| `engine` | the 21 parts of `MCEngine` | `OwnState`, `TranslationSound`, `MemorySound`, `StandInsSound`, `LoadingSound`, `SignaturesSound` |
| `services` | the 14 parts of `MCServices` | `SoundSafe`, `NetSound`, `TypingHonest`, `HandlesHonest`, `ThreadsHonest`, `WaitsServed`, `MixHeard` |
| `fair_turns` | the net with main and a spinner; a runner without a trap, the heartbeat and a shutdown; 2 cooperative threads and a real clock | `PokeMeansNap`, `MainGetsItsTurn`, `NudgeLands`, `TurnsCome` |
| `native_revived` | 2 threads, termination | violates `FinishedIsFinal` |
| `stale_code` | 2 pages, flushes of either and of both | violates `NeverStale` |
| `committed_lost` | 4 pages, pages left decommitted in a region that is released | violates `PagesKept` |
| `stop_lost` | one runner, a shutdown, fairness | violates `StopLands` |

Bounds of the schedulers. Three threads are the least at which a waiter can be
before, at and after the one the scan is serving, and a thief, a waiter and a
killer can all be there at once. Two objects are what a wait-all needs to be
half ready. The stack region is too small for every thread's stack, so that
carving, recycling, the size mismatch and the refusal are all reached. Time is
two ticks: a deadline that passes before, and one that passes after, another
event. Four kernel blocks are two segments, the RW pool and one block of its
own; two registry slots let a block be unmapped, and its kernel block given
again, beside one that stays. `MaxGauge` bounds how often a block is granted and
not placed, which raises a gauge for ever.

Bounds of `engine`. Two threads and two values per register: an exchange of
states shows with two. Flags: every pair of 6-bit operands, halves of 3 bits,
so that each half can carry. Copies: up to nine bytes with a fast limit of
four, every distance and every end of a 13-byte arena in 4-bit addresses.
Traps: a table of four with three usable entries, six slots that collide and
span more than the index's window of four. Pages: two, with a block across, stores
and flushes of one or both, and runners between a shim's barrier and its store.
Census: slices of two blocks, the heartbeat and the reclaimer as pokers, one of
whose pokes may meet another writer. Arena: every
base relative to a granule of four. Heap and VirtualAlloc: a region of six units
aligned to two, room for three small blocks, so that both neighbours of a
freed block exist; up to three pages reserved, decommitted by pages or whole,
inside a reservation or not, and released as they are. Scratch: addresses below
44 and a limit of 30, requests of 3, 41 and 43, so that the rounding wraps, or the
sum does, or neither. Bridge: a program, a DLL and a
runtime load, with a forwarder and one name in two spellings, and shims that are
registered at any time, also twice. Images: three
section layouts, two names for one ordinal, two bases, values of 3 bits. Digests:
certificate tables anywhere in the file, also before the end of a section.
Certificate tables: walks whose entry lengths overrun the file and wrap. Exported structures: two bases, lists of up to two entries, blobs shorter and
longer than a word; texts of two characters of every width; paths of up to three
units, with whole and half pairs. RSA: every base below every
modulus of two 2-bit words; every message of up to seven bytes. DER: every
buffer of five bytes of eight values; the days around every end of month, leap
year and century. Documents: every edit of two steps (drop, insert, tear) of a
well-formed one. Chains: leaves, intermediates and stampers each right or wrong
in one respect, over three dates.

Bounds of `services`. Voices: three rates around the mixer's, rings shorter and
longer than a grain. Buffers: three slots, one reused beside one shared and one
in use, duplicates of duplicates, a free list of four. Sinks: eight ticks, two
retries, the watchdog asking at any time. WAV: eight samples and a stream that
holds three. Sockets: two threads and one descriptor that a second handle gets
again, the select that polls beside the timed receives (`net`), and the one without
a timeout (`select`); calls that answer at once over two descriptors, so that
there is a listening socket to accept from (`callers`). Keyboard: an echo of two cells, so that
the third character makes it slide. Handles: two, either of which a wait may list twice, semaphores of two, ports
with two packets.
Sections: two addresses, each deleted and made anew. GIL: two threads and stacks
recycled between them, one slot, two acquisitions per probe. End: two runners.

`MaxTime`, `MaxTick`, `MaxHandle`, `MaxPosts`,
`MaxSections`, `MaxTyped`, `MaxEdits`, `MaxAllocs`, `MaxEntries`, `MaxWrites`,
`MaxSlots`, `MaxMods`, `MaxEnds`, `MaxAcq`, `MaxData`, `MaxExcess`, `MaxPages`,
`MaxListed`, `MaxRefs` and `MaxSema` are the bounds on what
grows without end in the code. Symmetry is used for the threads of `JitPool`, and
in `services` for the threads of the sockets and the recycled stacks: the
schedulers poll threads in id order.

Deadlock checking is off in every run because the modelled program ends, and
because guests may legitimately block for ever on each other.

Fairness. `NativeSched!FairSpec`: a host thread inside a critical section
keeps running (weak); one that wants the mutex gets it if it is free again and
again (strong: pthread mutexes do not queue); a deadline is absolute, so it
passes although spurious wake-ups interrupt the wait (strong). Nothing is assumed
of `request_stop`: its one poke may be lost (finding 4) and nobody repeats it once
the heartbeat has stopped. So `ShutdownCompletes` has a condition: `run` returns
unless a thread whose end it awaits without bound computes for ever (`Awaited`:
main, and one already Finished, whose join has no time limit). `MCFair!FairSpec`: every host thread that
can go on does (weak); strong fairness where the code retries or the kernel
does not queue: the heartbeat finds the GIL free now and then, the GIL goes
round, not every one of the heartbeat's repeated pokes falls between the two
instructions of a prologue, a real clock moves between slices. As the parts
exclude each other, one strong condition may name an action of two parts.
`Slices!LiveSpec`, for `stop_lost`: the runner and a poker that has begun go on.
Nothing is assumed of the guest: it may hold a lock or compute for ever.

## Findings

1. `sched_native.cpp:814`: the runner marks its thread Running whatever was
   posted before it first took the GIL, so a thread terminated that early comes
   back to life (`native_revived`).
2. `cpu_box86.cpp:812`: a flush whose range has one page without a translation
   mark does nothing for the pages that have one (`stale_code`).
3. `win32_shims_memory.cpp:120`: pages decommitted and then released stay in the
   list of decommitted pages, and are zeroed when a later owner commits them
   again (`committed_lost`).
4. `cpu_box86.cpp:1068`: the stop request's only poke may fall between the load
   and the store of a prologue and is then lost (`stop_lost`).

### Remarks without a run

Each of these was met while modelling; the models start from what the code
does, and the instances that are run leave the case out, or the property allows it,
where noted.

- Schedulers. `exit_current` replaces the exit code of a thread that was
  terminated from outside (`sched_native.cpp:1192`; `KilledCodeKept`).
  `D2_TOWAKE_DEFER` remembers one preempted thread, and with the loader-lock pin
  there may be two (`sched_cooperative.cpp:307`; `DeferredToBoundary`).
- JIT pool. A refused anticipation latches (`mman_vita.c:318`, against the
  comment at 218). A block granted and not placed stays on the gauge of live
  bytes (`mman_vita.c:678`; `GaugesExact`).
- Net. A loop inside one translated block is never taken out of it, as the source
  says. A runner that sleeps with the GIL while main is ready keeps the net from
  acting (`Asleep`).
- `thread_emu_blocks` may run ahead when a poke meets another writer
  (`cpu_box86.cpp:1103`; the comment at `cpu.h:245` promises the other direction):
  `CensusHonest` allows one slice for each such meeting, counted by `excess`.
- Translations. A guest store into its own page is seen only by a flush.
  Besides finding 2, a store is missed when a runner enters the block again
  between the shim's barrier and its store; `StaleOnlyWhenMissed` says that a
  translation is stale in one of these three ways only (`owed`, `missed`).
- Trap intrinsics. When the registered slots span more than the index's window,
  the index serves none of them and the table is not asked, although both paths
  are to serve the same set (`TooWide`, `PathsAgree`; `cpu_box86.cpp:934`, `1008`).
- Flags. RCR by one sets OF when the operand's sign differs from the carry that
  goes out; the processor compares it with the carry that comes in
  (`x86run_flags.c:278`, `288`, `298`). The property says which is computed
  (`rcr1`), and holds every other flag to the processor's definition.
- Emulators. The first FPU state of a worker is the base's (`FirstFpuPristine`;
  `cpu_box86.cpp:1461`; `guest_thread.h:37` says pristine).
- Arena. A request of at most 16 MiB may end below what it promises; `map()`
  does not check bounds in arena mode. Excluded from the instance's sizes.
- Memory. MEM_DECOMMIT with a size of 0 lists the first page of the reservation
  only, so the others keep their contents when they are committed again
  (`win32_shims_memory.cpp:134`, against 79-83 and 125-131; `spared`). A scratch
  request whose rounding wraps to 0 is granted (`guest_scratch.cpp:30`, against
  32-34; `RoundsAway`). `HeapReAlloc` ignores HEAP_ZERO_MEMORY for the grown part; `gzero` clears only the
  size asked; a hint given to VirtualAlloc is returned unrounded. Scratch before
  its initialisation answers 0 and then low addresses; a failed
  `gethostbyname` keeps the parts it was granted.
- Bridge. `alloc_trap` never compares `trap_next_` with `trap_hi_`; a module
  whose mapping failed stays listed; a name registered again keeps the
  slot it has, and with it the shim it had, or the catch-all (`bridge.cpp:256`,
  `282`; `late`); preferred bases are not checked for overlap.
- PE. Of two names of one ordinal only the last is found (`pe_image.cpp:243`;
  `Replaced`).
- Sound. A duplicate of a duplicate is counted by that one, not by the owner, so
  the owner's bytes may be reused while it reads them (`ds_emul.cpp:515`, against
  453-460; `Indirect`). The watchdog reads `g_sink` without a lock and may ask a
  sink that is deleted (`ds_emul.cpp:1162`, against 108; `NeverGone` says when).
  Shutdown does not
  disarm the deferred retry; a ring of one frame has its write cursor on its
  read cursor. Cursors are frame-aligned here.
- Sockets. A `recv` whose handle was closed meanwhile may answer for the next
  socket of that number, although it says it stops (`AnswersOwn`;
  `win32_shims_wsock32.cpp:179`). With the exit lock on, a plain `recv` on a
  datagram socket without a peer hands over what came from anywhere (718-733,
  against 819-821; `ExitLock`), and the caller of an accepted socket is never
  asked about. A blocked `recv` does not look at the shutdown; `recvfrom`, and `recv` with the
  net off, answer WSAEWOULDBLOCK on a blocking socket; the last error is shared
  by all threads.
- WinTrust. The same certificate twice in a store makes CERT_FIND_ANY endless;
  one CERT_CONTEXT serves all stores and its `hCertStore` is rewritten; a file
  with both kinds of stamp is judged by the PKCS#9 one; dates such as February 31 and DER
  lengths in long form for short values are accepted; padding accepts a digest without its
  identifier (`authenticode.cpp:224`, against `authenticode.h:114`; `OneEncoding`).
  A certificate table that ends before the last section does leaves the file's
  tail undigested (`authenticode.cpp:670`, against `authenticode.h:23`; `Lost`). The
  walk over the table's entries goes on past an entry that overruns it
  (`authenticode.cpp:622`; `Extracted`).
- Keyboard. A cell's mask and its character are two reads, and the tick may mask
  and type between them (`vita_kb.h:317`, against 20-22; `late`).
- GPU. `gpu_free` unmaps USSE memory with the call for plain memory.
- Sections. Leaving as a non-owner, and deleting a held section, are excluded:
  the embedder's shims must not do it. Forgotten sections are never freed.
- Waits. SetEvent and ResetEvent accept a mutex, and ReleaseMutex does not ask
  who holds it (`win32_shims_sync.cpp:36`, `71`; `misused`: what they promise is
  said of the other mutexes). A semaphore listed twice in a wait-all is taken
  twice when it has two (`guest_sync.h:68`). Waiting on a port's own handle, a negative ReleaseSemaphore and
  GetExitCodeThread are left out; `SleepEx` answers 0x102 under the cooperative
  backend.

## Proofs

All theorems are for any number of threads, any objects and waits, and any
sizes, from the named assumptions on the constants, which TLC evaluates in the
runs: `GuestSyncAssumption`, `NativeAssumption`, `CoopAssumption`,
`JitAssumption`, `ContextAssumption`, `WinsockAssumption`; `SoundAssumption`,
`TypingAssumption`, `WaitsAssumption` and `ThreadsAssumption` of `MCServices`;
`CodeAssumption`, `StandInAssumption` and `MemoryAssumption` of `EngineParts`.
They say that sizes are natural numbers and ids distinct. One says more:
`MemoryAssumption` has the arena's
requests larger than a granule (see the remarks). Two theorems have a hypothesis of their own: `SectionsSound` that 0
is nobody's thread id (an owner of 0 means free), and `PinIsKept` that one
thread at a time is in a DllMain.

| theorem | states |
|---|---|
| `SyncObjects!PromiseSound` | `Spec => []Inv`: the abstract objects keep tokens and owners by themselves |
| `NativeSchedProofs!TypeCorrect` | `Spec => []TypeOK` |
| `WakeCorrect` | `Spec => []WakeInv`, the invariant the next two need |
| `NothingLost` | `Spec => []NoLostWakeup` |
| `GrantsWake` | `Spec => []GrantedIsAwake` |
| `StacksDisjoint` | `Spec => []StackOwned` |
| `KilledIsFinal` | `Spec => KilledStaysFinished` |
| `RunnersAreGone` | `Spec => []NoRunnerOutlivesRun` |
| `ServesInductively` | `Spec => []ServeInv`, the invariant the next three need |
| `Refinement` | `Spec => ImplementsSync` |
| `TokensAddUp` | `Spec => []TokensConserved` |
| `SectionsOwned` | `Spec => []CritOwned` |
| `CoopSchedProofs!CoopSound` | `Spec => []CoopInv`, the invariant the others need |
| `CoopTypes` | `Spec => []TypeOK` |
| `RepliesFit` | `Spec => []ReplyFits` |
| `StacksDisjoint` | `Spec => []StackOwned` |
| `VerdictTrue` | `Spec => []StopsWhenStuck` |
| `Refinement` | `Spec => ImplementsSync` |
| `EndsAreFinal` | `Spec => [][FinishedStays]_vars` |
| `PinIsKept` | `Spec /\ []OneLoader => EndedAndPinned` |
| `CritTable!SectionsSound` | `Spec => []OneInside`, a part of `HandlesHonest` |
| `JitPoolProofs!TypeCorrect` | `Spec => []TypeOK` |
| `BlocksAreSound` | `Spec => []BlocksSound` |
| `SyncsLive` | `Spec => []SyncOnLive` |
| `FrozenOnlyOnDemand` | `Spec => []FrozenOnDemand` |
| `NoSegmentStranded` | `Spec => NothingStranded` |
| `GaugesNeverShort` | `Spec => []GaugesCover` |
| `Famine!PokedNaps` | `Spec => PokeMeansNap` |
| `EngineParts!ContextTypes` | `Spec => []TypeOK` |
| `ContextsOwned` | `Spec => []OwnState` |
| `TranslationHolds` | `GuestSpec => []TranslationSound`: pages, traps, census, each with the exceptions it names |
| `MemoryHolds` | `GuestSpec => []MemorySound`: arena, heap, reservations, video memory, for any sequence of calls |
| `ServiceProofs!SocketsHold` | `Spec => []NetSound`: sockets, select, the resolver, the exit lock |
| `WaitsHold` | `Handles!Spec => []Handles!WaitsHonest` |
| `HandlesHold` | `MCSpec => []HandlesHonest`: waits and sections |
| `WaitsAreServed` | `MCSpec => WaitsServed`: packets in order, and a wait-all takes all or none, parked or at once |
| `SoundHolds` | `MCSpec => []SoundSafe`: voice, buffers, sinks, file |
| `ThreadsHold` | `MCSpec => []ThreadsHonest`: the names of the GIL, the end of `run` |

So every property of the runs `native_objects`, `native_kill`, `coop_safety` and
`jit_blocks` is a theorem (`EndedAndPinned` under its hypothesis), as are all of
`services` but `TypingHonest` and `MixHeard`, and `OwnState`, `TranslationSound`
and `MemorySound` of `engine`.

### The argument

**Nothing lost.** `NoLostWakeup` is not inductive: in the middle of a scan a
waiter may well be servable. The strengthening is the scan invariant, *every
waiter before the cursor has been served since the last change*, which holds
after one pass because consuming never makes anybody ready: `SyncObjects`
proves that `CanAcquire` is antitone under `Consume` for each kind of object and
both kinds of wait (a critical section already owned by its waiter is the
delicate case: its owner is not waiting). Around it go the facts that keep it:
only the GIL holder scans, `wait_obj` is set only inside `wait_common`, ids are
fresh. The stack proof carries a region invariant: carved intervals are
separated, lie below `stack_next_`, and a record keeps its interval until the
runner is done and a creation takes it. The termination proof relates `state`,
`pc` and `exitCode`. Each proof splits a step into the actions of `Next`, one
step per action, and one lemma per group of actions that leave the variables of
an invariant alone.

**The objects.** `SyncObjects` proves of itself that what is available and what
is held add up, and that a section or mutex is held by the thread it names.
`ServeInv` says that invariant of the native scheduler's image, and what each
thread asks of the objects at each `pc`: a thread granted by the scan has, in
the image, already acquired, although it still sleeps. With that the refinement
is a simulation of steps: a take in `wait_common` and a grant by
`wake_check_all` are the waiter's `Acquire`, a shim that gives back or signals
is one abstract action, termination is the abstract end, and every other action
leaves the image alone. `TokensConserved` and `CritOwned` are read off the
abstract invariant.

**The cooperative scheduler.** `CoopInv` has seven parts: types; the ids, and
at most one thread running; the flags and the answer of every wait; the
abstract invariant; carved stacks below `stackNext`; the waiters `pick_ready`
has passed; the verdict. The abstract invariant is needed even for types:
`LeaveCriticalSection` decrements a count that is natural only because the one
who leaves is its owner. `StopsWhenStuck` needs `PassedBy`: while `pick_ready`
walks the threads, those it has passed are still not servable when it reaches
the end, although it has served others in between, again because an acquisition
makes nothing ready for anybody else.

The attempt to prove the loader-lock pin corrected the property. A thread
cut in its DllMain is the next to run if its time slice ended there. If it
blocked there, and its wait expires under a real clock, another may run first:
"a plain I/O yield still deschedules normally (the pin only overrides a
time-slice preempt)", says `sched_cooperative.h:73`, and `PinKept` is about the
preempted only. The proof also needs that one thread at a time is in a DllMain
(`OneLoader`): there is one `no_preempt_thread_`, which a second caller
overwrites. Its callers are the embedder's loader; none is in `src/`.

**The table of sections.** `CritInv`: an address's section is nobody else's and
was made; what the cache or a parked thread remembers is what the table has; a
section that is not free was entered by its owner through the address that has
it. So a section forgotten is free, and one made anew starts free.

**The pool.** `BlocksSound` needs to know why bytes are never served twice. The
invariant `JInv` of `JitPoolProofs` gives each kernel block one of three roles,
kept until it is freed: a segment, the RW pool, or a block of its own (`Lone`).
What a segment or the RW pool served lies below its `used` mark; a lone block
fills its kernel block and has size, so no second entry can share it, and what
munmap is about to free is lone and no longer registered. Growing the pool is
shown once (`Extends`) to open segments in fresh blocks and touch nothing else,
so that `MapCode`, which may grow twice, is two applications of it around
`ServedSound`. The gauges are compared with a sum over the registry; the proof
counts the units that blocks hold as one set of pairs (slot, unit), so that a
block more or less changes a cardinality and no induction over a fold is needed.

**The net.** `PokeMeansNap` says a runner that was poked does not resume without
having napped. `NapInv` relates three facts per runner: while the heartbeat
pokes, everybody is unacknowledged or has napped since, so a debt implies an
unacknowledged epoch, and the seam naps exactly then. Swapping the two halves of
the heartbeat's plan breaks it.

**The registers.** `OwnState` says that what a thread computes on is what it
left. `BoundInv` ties the thread-local binding to the thread that runs, and
`OwnInv` says where a thread's state is at each point of its life: in its own
emulator, in its saved context, or in the base emulator while it has the slice.

**Translated code.** `StaleOnlyWhenMissed` is inductive beside the types: a
barrier that acts doubts every block with a byte in the pages it reaches, a block
is trusted again only after a comparison of its bytes, and a page that changes
under its mark goes into `owed` or `missed` as it changes.
For the traps, every
used entry of the table is reached by its own walk, which needs an entry that is
free: the count is the number of entries in use, at most `Cap`, which is less
than the table has. For the census, what is accounted and used up of the slice
exceeds the entries by at most a slice for every poke that met a writer, a poke
under way included, and so does what a reader has put together so far.

**Guest memory.** The free list is folded in the code's operators; the proof
says instead what it leaves. Each unit of the region is covered by exactly one
block, live or free; blocks lie apart; no two free ones touch. `Carved` and
`Joined` keep this, and the room that is left is the cardinality of
disjoint parts. Over it the heap keeps two facts (each grant is held, and grants
are distinct) and VirtualAlloc two (a reserved page is of a block in use; a page
holds what the guest left there but for those `left` in the list or `spared` by it,
which are what the calls themselves put there). `HeapReAlloc` is the long case: the copy is
made from a block that is still held into one that was just carved, and the old
one is joined only then. The arena's proof is that rounding costs less than a
granule; video memory's, that only the call under way may hold a block the GPU
does not have.

**Sockets.** A handle is never reused while a descriptor is. So what a poll
without the GIL has seen is compared with the handle's own descriptor when it
comes back, and a handle still live is still its own socket (`PolledOwn`: while
its handle is open, the descriptor a wait polls is that handle's). For the exit lock,
a peer is set only by a connect that asked, and each answer carries what it asked.

**Waits.** An object is signalled or has one holder, a thread is in one place,
and is parked on one named port or on objects that are no ports; a handle
nobody made stays unknown. Of a mutex that is so only while no SetEvent and no
stranger's ReleaseMutex touched it, so these are remembered in `misused`. With that a pre-written answer is still right when the
wait ends, and `WaitsServed` says what a wake takes of the objects.

**Names and the end.** An identity slot is not given to a second thread before
its first leaves it, so a `lo` that is not zero identifies the owner. `ShimHonest` is not
inductive; it is strengthened to: the thread a probe names was in a shim *and*
had the lock during the probe. The end of `run` needs that a thread outside
main's list never came to be, and that the heartbeat has the GIL only while it
lives.

**Sound.** A voice's ring and cursors are arithmetic. For the buffers, an
owner's count is the cardinality of its readers, and each of the two free lists
names exactly the reusable slots, once, but for the duplicates of duplicates,
which are counted where the code counts them. For the sinks: while a retry is armed or
nothing is published there is no host thread; a published sink that is not
real-time has none; every sink open is published, about to be closed, or left to
a thread that could not be joined. The watchdog is apart (`WatchInv`): a sink it
holds that is gone is no longer published and was never written to in real time,
until teardown. A file on disk is a prefix of what the C
library was given. Its content is defined by recursion, so the proof states what any
prefix satisfies; only that there is one value per prefix needs an argument
by the least counterexample.

### Only model-checked

Liveness and everything under fairness, which is outside the prover's reach:
`native_live`, and `MainGetsItsTurn`, `NudgeLands` and `TurnsCome` of
`fair_turns`. What a recursive or folded definition computes is checked over its
bounded inputs only, as induction over data is beyond the provers used here:
`SignaturesSound` (powers, digests, documents), `LoadingSound`
(relocations, imports), the flags and copies of `StandInsSound`, and `MixHeard`, which
follows the mixer's own position through a recursive function. `TypingHonest`
and the scratch part of `StandInsSound` have no proof yet. The four runs that
expect a violation are counterexamples, which need none.

## Not modelled

Files, strings, locales, toolhelp and the remaining Win32 shims: conversions and
constant answers, each one critical section; what they wait for or allocate is
modelled where it is served. The vendored dynarec, which is third-party; its
block prologue and page protection appear as external definitions. Clocks and
profilers: diagnostics. Renderer, display and input: I/O and pixel arithmetic.
Inside the modelled parts: the TIB beside each stack, the switch limit, the
yield on the zero-time-out path, nested `call_va`, sample conversion and
SetFormat, option translation and address layout of sockets, the hash functions
themselves, logging and fault reports.
`PROJECT.json` says for each component what is left out.

## Plan

Modelled: everything the table of modules lists. Worth doing next:

1. Proofs: `TypingHonest`; that a scratch structure whose grants were all served
   is whole; that the bridge's modules lie apart, apart from what they import.
2. SetFormat and volumes in `DsVoice`; closing and duplicating handles in
   `WaitShims`; a wait on a port's own handle.
