# vanilla-os in TLA+

The repository holds six small kernels, `mp2` to `mp7`, written one after the
other: a physical frame allocator, paging, virtual memory pools, threads with a
FIFO scheduler, a blocking disk, and a file system.  Each runs on one x86 CPU
under Bochs.  This directory models the parts that carry their logic and the six
`main()` that put them together, checks the models with TLC, and proves the
invariants and refinements of four of them with TLAPS.

Many files are copied unchanged from kernel to kernel: `cont_frame_pool.C` is
the same text in mp2, mp3 and mp4; interrupts, exceptions, IRQ, timer and
keyboard are the same from mp3 on; `queue.H` and the bump allocators in mp5 and
mp6.  A model of such a file stands for every copy; `PROJECT.json` maps the
operators to one copy and the instances in `Kernel2` to `Kernel7` to the copy
that this kernel links.

    tlc -config ContFramePool.cfg ContFramePool
    tlapm ContFramePool_proofs.tla

Contents: [inventory](#inventory), [modules](#modules),
[runs](#runs), [what the code gets wrong](#what-the-code-gets-wrong),
[proofs](#proofs), [limits](#limits), [plan](#plan).

## Inventory

**Contiguous frame pool** (`mp2..mp4/cont_frame_pool.C`).  State: a bitmap with
two bits per frame (ALLOCATED 00, INACCESSIBLE 01, HEAD 10, FREE 11) in a frame
of the pool itself or of another pool, a count of free frames, and a static
list of all pools.  Operations: constructor, `get_frames(n)` (first fit, HEAD
then ALLOCATED), `release_frames(f)` (finds the pool on the list, then frees
from the HEAD to the first frame that is not ALLOCATED), `mark_inaccessible`,
`needed_info_frames`.  Hard: the bitmap is the only record of where a sequence
ends; neighbours, holes and the bitmap's own frame share it.  Correct when no
frame is handed out twice, a release frees exactly what was handed out, nothing
leaks, and clients that behave never meet an assertion.

**Page table** (`mp4/page_table.C`; `mp3` has an earlier form).  State: page
directory and page tables in physical memory, CR3, the registered pools.
Operations: constructor, `handle_fault` (called by the exception dispatcher in
the middle of any memory access), `free_page`, `register_pool`.  In mp3 tables
come from the kernel pool and are written at their physical address; in mp4
they come from the process pool and are reached through the directory's last
entry, so reading a table may itself fault.  Correct when tables and frame pool
agree on who has a frame, and a fault changes only the page that faulted.

**Virtual memory pools** (`mp4/vm_pool.C`).  State: the start and the end of
every region ever allocated, in the first page of the pool, and an index.
Operations: `allocate`, `release`, `is_legitimate`.  They call the page table,
which calls the frame pool.  Correct when regions that are out are disjoint and
keep their data, and released pages give their frames back.

**Threads and scheduler** (`mp5`, `mp6`: `thread.C`, `scheduler.C`,
`threads_low.asm`, `queue.H`).  State: the current thread, a linked FIFO ready
queue, the saved context of each thread with its interrupt flag.  Operations:
`add`, `resume`, `yield`, `terminate`, `dispatch_to`, `thread_shutdown`.  Hard:
nothing masks interrupts around the queue, a terminated thread runs on its own
stack while it removes itself, and a thread lost from the queue is lost for
good.  Correct when a thread is at one place, a ready thread runs, and a
termination takes only the thread that ends.

**Disk** (`mp6/simple_disk.C`, `blocking_disk.C`; `mp7/simple_disk.C`).  State:
the controller's command and its ready bit, a queue of waiting threads.
`read` and `write` issue a command, wait (in mp6 by queueing and yielding, in
mp7 by looping) and move 256 words.  `Scheduler::yield` of mp6 polls the disk.
Hard: the CPU goes to other threads between command and transfer.

**File system and files** (`mp7/file_system.C`, `file.C`).  State: inode list
and free list in memory and in blocks 0 and 1, handles with a position and a
copy of block number and size.  Operations: `Format`, `Mount`, `CreateFile`,
`DeleteFile`, `LookupFile`; `File`, `Read`, `Write`, `Reset`, `EoF`, `~File`.
Hard: several disk writes per operation with a stop possible between them,
handles that outlive their file, copies that go stale.

**Interrupts and exceptions** (`mp3..mp7`: `interrupts.C`, `exceptions.C`,
`irq.C`, `idt.C`, `gdt.C`, `irq_low.asm`).  State: two handler tables, the gates,
the two interrupt controllers.  Operations: register, deregister, dispatch.
Every gate clears the interrupt flag, so handlers do not nest, but one runs
between any two instructions of the main thread.  Correct when a request is
served at last and leaves nothing in service.

**Timer, keyboard, console** (`simple_timer.C`, `simple_keyboard.C`,
`console.C`).  State: seconds and ticks; a flag and a key code; the cursor, the
text memory and the redirected output.  Each is written by a handler and read,
or for the console also written, by the main thread in several instructions,
with nothing to keep them together.  Correct when times are near, keys fresh,
busy loops end, and the cursor stays on the screen.

**Bump pools** (`mp5..mp7`: `frame_pool.C`, `mem_pool.C`).  State: the next
address.  `allocate` advances it, `release` does nothing; `operator new` is made
of it.  Correct when objects are disjoint and inside the pool.

**Boot** (`start.asm`, `kernel.C`).  Each `main()` sets up the parts above, in an
order that interrupts must not find half done, and runs its tests.

**Not modelled**: see [limits](#limits).

`PROJECT.json` lists the hazards at their lines and the properties that cover
each.

## Modules

| module | models | composed of |
|---|---|---|
| `FrameBits` | the bitmap of a pool as a function from frames to states, and what each operation does to it, in one step and turn by turn | |
| `ContFramePool` | two pools set up as `main()` does, clients that take and return sequences | `FrameBits` |
| `FrameAllocator` | what a frame allocator promises: disjoint runs, taken and returned whole | |
| `Paging` | memory, MMU, `handle_fault` and `free_page` as operators on a machine | |
| `VirtualMemory` | the pools on top, clients that allocate, fill and release regions | `Paging` |
| `Scheduler` | the ready queue and the two versions of `terminate` as operators; mp5: threads that burst, pass the CPU on, return | |
| `BlockingDisk` | mp6: scheduler, disk queue, controller, the loops of `fun1` to `fun4` | |
| `AtomicDisk` | what the disk promises to a loop: a block read or written in one step | |
| `FileSystem` | mp7: lists, handles, data blocks, stops | |
| `FileStore` | what `file_system.H` and `file.H` promise: texts by id, positions | |
| `Utils`, `Console` | memory, numbers; the console as operators on its state | |
| `Machine`, `DescriptorTables` | the interrupt flag and its assertions, the two tables | |
| `Exceptions`, `Interrupts`, `Processor` | the dispatchers, the two controllers, what the CPU does on the way to them | `DescriptorTables` |
| `Timer`, `Keyboard`, `SimpleDisk` | the drivers' handlers and operations | |
| `BumpPools`, `Threads` | bump pools; contexts and the first dispatch | |
| `FramePools`, `PhysicalMemory`, `DirectPaging` | frame pools as values of a machine; mp3's page table and the accesses that fault | `FrameBits` |
| `Devices` | the drivers, interrupted between any two loads and stores | `Console`, `Timer`, `Keyboard`, `Interrupts` |
| `Kernel`, `Kernel2` .. `Kernel7` | a `main()` as a list of statements and what each does to the machine | all operator modules |
| `Kernels` | the six kernels running, with their devices | `Kernel2` .. `Kernel7` |
| `Lemmas` | least elements, remainders, sequences: facts that several proofs need | |
| `ContFramePool_proofs`, `VirtualMemory_proofs`, `BlockingDisk_proofs`, `Scheduler_proofs`, `FileSystem_proofs`, `Devices_proofs` | theorems about the module of that name | `Lemmas` |
| `FileStore_proofs` | that `FileSystem` implements `FileStore` | `FileSystem_proofs` |

`MC*` modules and `.cfg` files give the constants.

*Frame pool.*  One action per call: `ConstructKernelPool`, `TakeInfoFrame`,
`ConstructProcessPool`, `MarkInaccessible` in the order of `main()`
(`kernel.C:166-185`), then `GetFrames(p, n)` and `ReleaseFrames(r)` for any `r`
in `held`, the ghost record of what clients have.  `Owner` walks the list as the
code does, with the off-by-one of `cont_frame_pool.C:323`.  `Marked` keeps the
wrong shifts of `mark_inaccessible` bit by bit, because what they do to
neighbouring frames matters.  The code divides the bitmap into bytes of four
frames and scans bits; `Scan`, `MarkRun` and `FreeRun` are its loops frame by
frame, and are what the kernels of `FramePools` run.  `ContFramePool` takes a
loop as one step (`FirstFit`, `Claimed`, `SequenceFrom`, `Released`); that it
may is proved.

*Virtual memory.*  `machine` is the physical memory by words, the set of free
process frames and a flag for a failed assertion.  An access is `Touched`: if
the address is not mapped, `Fault` first.  `Allocate`, `Fill` and `Release` are
whole calls; `Allocate` includes the faults of the pool's own bookkeeping page.
`Filled` and `Released` are the loops over words and pages, as functions of the
number of turns.
The process pool is abstracted to a set (single frames, first fit): the frame
pool module justifies that.  Kernel-pool frames are fixed.  One word of the
model stands for one written place, at whatever alignment; the TLB is not
modelled, since `release` reloads CR3 after it clears entries and `handle_fault`
only turns absent entries into present ones.

*Threads (mp5).*  `BurstOnly` is an iteration of a thread function that keeps
the CPU, `BurstAndPass` one that calls `pass_on_CPU`.  Which threads call it is a
matter of which calls are compiled in, so `passing` is chosen in `Init` and never
changes: the committed `mp5/kernel.C`, where all four are commented out, is the
kernel with `passing = {}`, and the run has every other one as well.  `Shutdown`
is `thread_shutdown` as a whole.  When `yield` finds the queue empty it only prints;
`thread_shutdown` then returns on the stack it has released, to the 0 above it.
From there on the CPU runs what is no thread: `astray`, with the dead thread still
the current one.  The interrupt flag is in the state because it decides whether
the timer can interrupt any of this.

*Blocking disk (mp6).*  A thread runs with interrupts off until it yields
(`Scheduler` checks this as `Uninterrupted`), so the only concurrency is
between the CPU and the controller, and a thread's loop is cut where the
controller's progress is observable: command, look at the ready bit, transfer,
end of the iteration.  `yield` is a step of its own because the disk may become
ready just before it.  External: `DeviceReady`, `Serves` and `Done` describe an
IDE controller that forgets a command when it gets another one, moves one block
when it is ready for that direction, and answers garbage otherwise.

*File system.*  Calls are atomic, since mp7 has one thread.  `CreateWrites` and
`DeleteWrites` give the disk after each write of a call; a completed call uses
the last, `Stop` any of them.  `LookupFile` of a missing file answers inode 0,
because the code answers NULL and keeps the inode list at address 0; opening one
leaves the handle's block number uninitialised (`file.C:41-49`), which is a choice
of `Open` among all blocks of the disk, the two lists included, and none at all;
deleting one clears and frees the file of inode 0, in `DeleteFile` as at any stop
inside it.  A list that such a handle wrote over is the value `Overwritten`; the
model does not mount it.  `Uses` says what clients do besides what `kernel.C`
does: a second handle on a file (`"shared"`), deleting a file that is open
(`"stale"`), opening and deleting files that do not exist (`"open missing"`,
`"delete missing"`), mounting again and stops.  `free_blocks` is left by
`Mount` as a pointer into its dead stack frame; in the committed objects
(`kernel.o`, `file_system.o`) those bytes are part of the unused `block_cache`
of a local variable of `exercise_file_system`, so the model lets the list keep
its contents.  This holds for that caller only.

*Operator modules.*  A driver is a module of operators from machine to machine:
`dispatch_interrupt(m, n)` is the machine after the whole call.  What it calls
in other files is a constant operator (`Say`, `_assert`, `handle_interrupt`,
`new`, `get_frames`), which the kernel that links it instantiates, as the linker
does.  Texts are one or two characters: what matters of them is that they are
printed, where the console is not yet there.  A run of equal calls (32 gates, 256
frames of the memory pool) is one step to its result.

*Devices.*  `task` chooses what the main thread does: print, read the clock or
wait for it, read keys.  Its steps are the loads and stores on what it shares
with handlers; `csr_x++` is a load and a store, and the address of a cell takes two
loads, since the makefiles compile
without optimisation, which is also why the busy loops read their condition
again.  `Interrupt` and `Handle` are the gate and the handler up to `iret`; the
handler is one step because its gate keeps interrupts off.  External: timer chip,
keyboard controller, disk, and the controllers with request and service
registers, priorities and the cascade.  The timer ticks while the main thread
prints or reads the clock, keyboard and disk interrupt while it reads keys; a
request of the timer and one of the slave controller never meet in a run.

*Kernels.*  `at` is the statement of `main()` that comes next, `Execute` what it
does, `Following` where control goes; an interrupt may be taken between two
statements.  Loops and tests are statements that repeat.  A page fault is part
of the access that causes it and goes through the gate, the dispatcher and the
handler.  `abort()` sets `halted`: a failed assertion, a vector without a gate, a
print before `Console::init`, `new` before its pool.  For mp4 `Kernel4` takes
`Fault`, `CurAddr`, `NextAddr`, `FreedPages` from `Paging` and `VirtualMemory`;
its test fills words at twice their index, because the region begins one byte
behind a page and the aligned words of the model hold what the code's odd ones
do.  After the first dispatch mp5 and mp6 are `Scheduler` and `BlockingDisk`;
the file system calls of mp7 are `FileSystem`, and here the sequence of block
reads and writes that they make.

## Runs

| run | what it asks | bounds |
|---|---|---|
| `pools` | type, `HeldIntact`, `HeldDisjoint`, `NeverAborts`, `BooksRight`, `ImplementsAllocator` | 8 kernel and 16 process frames, a hole of 6, requests of 1 to 4, four sequences out |
| `vm` | type, `FramesOnce`, `DataKept`, `FaultIsLocal`, `NeverHalts` | 8-word pages, 16 frames, two pools of 8 pages over two tables each, two allocations per pool |
| `threads` | type, `ShutdownIsFinal`, `Uninterrupted`, `Terminate6Correct`, `ReadyRuns` | 5 threads, 3 of which return after 3 bursts, every choice of the threads that pass the CPU on |
| `disk_two_users` | type, `AtOnePlace`, `NeverDispatchesNull`, `ComputeRuns` | the 4 threads of `main()`, 2 blocks |
| `disk_one_user` | `UsersProgress`, `ImplementsDisk` | 4 threads, one on the disk, 3 blocks |
| `files` | type, `BlocksReusable`, `ImplementsFileStore` | 3 ids, 2 inodes, 3 data blocks of 2 characters, 2 handles, texts of 1 and 2 |
| `files_stop` | `BlocksKeptApart`, `StopKeepsFiles` | the same, one text, symmetric ids and handles |
| `devices_print` | `ScreenShowsPaper`, `CursorComesBack`, `EchoComplete` | a screen of 2 columns and 2 rows, 5 characters of all kinds, a second of 2 ticks |
| `devices_live` | `DriversConsistent`, `TimeIsNear`, `FreshKey`, `RequestsServed`, `BusyLoopsEnd` | 2 ticks a second, 3 seconds to the wrap, 3 keys, waits of up to 2 seconds |
| `kernels` | `BootSafe`, `InterruptsHandled`, `MemoryHolds`, `HardwareTakes`, `MainEnds` | six kernels, 5 ticks and a key at any time, memories that each test just fits into |

Some of these are conjunctions of properties that have a comment and a meaning
of their own: `BooksRight` of `BitmapsSafe`, `FramesAccounted` and `FreeCount`,
`BlocksReusable` of
`ListsAgree` and `FreeBlocksZero`, `BlocksKeptApart` of `OneFilePerBlock` and
`HandlesOwnBlock`, `DriversConsistent` of the type invariant and `Acknowledged`,
`BusyLoopsEnd` of `KeyEndsRead` and `WaitEnds`, `BootSafe` of the type invariant and
`NeverHalts`, `InterruptsHandled` of `DevicesHandled` and `TimeCounts`, `MemoryHolds` of
`ObjectsDisjoint`, `TestsPass` and `PagesOwnFrames`, `HardwareTakes` of `StartsWell` and
`BlockAddressed`.

The bounds are the smallest at which the interesting cases occur: runs that
start and end inside a byte of the bitmap, a hole next to free frames, pools
that border on each other and enough sequences out to fragment both; regions of
one and of several pages and a second table for the same pool, with frames
reused after a release; queues of up to five threads, of odd and even length,
for both versions of `terminate`; two waiters in the disk queue while two
threads compute; a message of the handler inside a character, at the edge of a
row and at the last row, and a backspace at the margin; ticks at the end of a
second and at the wrap of the seconds; an interrupt between any two statements
of a boot; block numbers that need each of their bytes; more files than inodes, a write that starts in the middle of a
block and one that is cut at its end.  `CHECK_DEADLOCK FALSE` is set for the
threads (where all threads return or are lost, mp5 goes astray after the last) and for the virtual
memory (allocations are bounded and the clients then have nothing to do).

Fairness.  `BlockingDisk!FairSpec` has weak fairness of `CpuStep` (the CPU
executes instructions) and of `DeviceReady` (the controller answers a command);
nothing is assumed about which thread runs, since the queue decides that.
`Scheduler!FairSpec` has weak fairness of `Next`, which is that the CPU executes:
in each state one thing can happen, so fairness chooses nothing.  A burst that
changes nothing is a stutter, and a thread that neither returns nor has its call of
`pass_on_CPU` compiled in keeps the CPU for ever.  `ReadyRuns` therefore speaks of
the kernels in which every thread that does not return passes the CPU on; of the
committed one it says nothing, and there thread 4 never runs.
`Devices!Fairness` has the processor take interrupts that it may take and, between
two of them, go on with the main thread (strong fairness: an interrupt only
disables it for a moment).  The timer chip ticks for ever; keys and disk promise
nothing.  Strong fairness of `EndWait` says that the loop of `wait()`, which turns
many thousand times between two ticks, sees its condition fail if it does so
again and again.  `Kernels!Fairness` says the same of processor and interrupts, written
with the conditions under which the two actions are enabled, and that the disk
answers a command.

Each property of a passing run has a mutant in `PROJECT.json`: a version of one
definition with a plausible mistake, defined next to the right one
(`RunIsFree_short`, `WithPage_keepsFree`, `DeleteWrites_noClear`, ...), under
which TLC finds that property violated.

## What the code gets wrong

Two runs end in a violation of something the repository says of itself.

| run | the repository says | the code does |
|---|---|---|
| `disk_read` | `read` reads the given block | another thread's command replaces it |
| `files_stale` | `CreateFile` initialises the new file | it may start with the size of another |

Four more such properties are stated in the modules; each is violated when it is
added to the configuration of the passing run.

| property | the repository says | the code does |
|---|---|---|
| `HoleInaccessible` in `pools` | `mark_inaccessible` marks a sequence of frames | wrong bit positions: hole frames are handed out |
| `ReleasedPagesUnmapped` in `vm` | `release` releases the region | only about half of its pages |
| `ClosedFilesSaved` in `files` | closing writes cached data to the disk | the size stays in memory |
| `WriteReturnsCount` in `files` | `Write` returns the number of characters written (`file.H:85`) | at the end of the block it returns one less (`file.C:142`) |

The models contain more of the kind.  A reader who changes a cfg or states the
property can see each of them; none has a run of its own.

- A region smaller than a page gets no page, and the next one starts at the
  same address (`NumPages`): with `Sizes <- Small` `DataKept` fails.  The test of
  `kernel.C` asks for such regions, but holds one at a time.
- `free_page` does not look at the present bit: releasing a page that was never
  touched releases frame 0 and halts (`ReleasesUnfilled = TRUE`).
- Page tables are not cleared: words that look like present entries, left in a
  frame by a released page, act as entries: with `Values <- Odd` a fault maps other
  pages too (`FaultIsLocal`) and a region loses its data (`DataKept`).  The passing
  run has no such words.
- With no frame left `handle_fault` maps frame 0, for any number of pages
  (`ProcessFrames` too small).
- `terminate` of mp5, asked to remove the running thread (`scheduler.H:88`), which is
  not in the queue, drops the first ready thread instead: `Terminate5Lemma` in
  `Scheduler_proofs`.  With `Terminated5` in its place `Terminate6Correct` fails in the
  initial state.
- When a thread shuts down and none is ready, `yield` returns and `thread_shutdown`
  jumps to address 0 on a stack that was given back (`astray`).
- No thread of the committed mp5 passes the CPU on: thread 1 returns, thread 2 is lost
  with it, thread 3 runs for ever and thread 4 never does.
- Interrupts are never enabled once a thread runs, so the timer stops.
  `Uninterrupted` states it; the rest of the scheduler relies on it.
- A thread in the disk queue may wait for ever when two threads use the disk:
  `UsersProgress` holds with one and not with two.
- `size` is two blocks after every `Mount`; `DeleteFile` of a missing file deletes the
  file of inode 0 (`Uses` with `"delete missing"`), and a handle on a missing file may
  write over any block, the lists included (`"open missing"`).
- After a restart `MAX_BLOCKS` is 0 and `CreateFile` always fails.  This has a
  useful side: the block that an interrupted `DeleteFile` has freed but not
  forgotten is never given to a second file.  The mutant of `BlocksKeptApart`
  shows that keeping `MAX_BLOCKS` would make the order of the two writes in
  `DeleteFile` matter.
- A message of the timer between the test at the margin and the decrement of a
  backspace leaves the cursor at column -1: `LeftMost` in `CursorComesBack` is as
  far as it gets.
- `SimpleTimer::wait(n)` compares `seconds <= then_seconds` and `ticks < then_ticks`
  in one condition, so it returns within a second whatever `n` is.  `WaitEnds` is
  true for the wrong reason.
- `frame_pool.H` and `mem_pool.H` promise 0 on failure; `get_frame` and `allocate`
  never fail.  The objects of the three kernels fit (`ObjectsDisjoint`), a node for
  every `enqueue` does not for ever.
- Page tables of mp3 are not cleared either; the test passes because the
  emulator's memory starts as zeros.

## Proofs

Each theorem holds for every value of the constants that satisfies the named
assumptions of its module (`LayoutAssumption`, `BoundsAssumption`,
`SchedulerAssumption`, ...).  What a theorem assumes beyond them is in its
statement.

**Frame pool** (`ContFramePool_proofs`).  `TypeCorrect`, `BitmapDescribesHeld`
(`HeldIntact`), `NoFrameTwice` (`HeldDisjoint`) and `ReleaseNeverAborts`
(`NeverAborts`) rest on `PoolInv == TypeOK /\ BitmapInv /\ PhaseInv`.
`HeldIntact` is not inductive: `get_frames` could hand out frames right in front
of an ALLOCATED frame, and a release of the new sequence would then run on into
it.  `BitmapInv` says that every sequence that is out is HEAD then ALLOCATED
(`HeldBits`), that the frame after it is not ALLOCATED (`RunEnds`), and that an
ALLOCATED frame always follows a used one (`NoOrphan`); `PhaseInv` says what
each phase of `main()` has established.  The lemmas are about the operators of
the model: `FirstFitLemma` and `SequenceLemma` (the frames `get_frames` finds and
`release_frames` walks are the ones meant), `OwnerLemma` (the pool of a frame is
found in spite of the off-by-one, because the process pool comes first on the
list), `HandBits` and `ReleaseBits` (what a request and a release leave in the
bitmap), `MarkStep` (`mark_inaccessible` writes to wrong frames, but runs while
all of them are FREE and clears at most one bit of each, so none becomes
ALLOCATED).

`BooksAlwaysRight` (`BooksRight`) adds the other direction, in `BooksInv`: every
frame that is not FREE is an info frame, inaccessible or of a held sequence
(`FramesInv`), every HEAD begins a held sequence (`HeadsHeld`), and the counter
is the number of FREE frames but for what `mark_inaccessible` took off it for
frames it did not mark (`CountInv`, modulo the width of the counter).

`BitmapImplementsAllocator` (`ImplementsAllocator`): the sequences that a reader
decodes from the bitmap alone (`Decoded`) are the sequences that are out, which
is what `PoolInv` and `BooksInv` together say; with that every request that
succeeds is `Acquire`, one that fails a stutter, and every release the abstract
`Release`.  This is safety only: `FrameAllocator` may refuse at any time.
`RequestsSucceed` (`RefusalsJustified`) says when the code does: if no run of that
length is free, or, in the process pool, at the one number of free frames at which
the counter, skewed by `mark_inaccessible`, is zero.

The loops over the bits are proved for every bitmap, by a least counterexample
over their turns.  `ScanFindsTheFirstFit`: before each turn the search has `count`
free frames behind it and no run begins below them (`Searching`), or it has found
the lowest run (`Finished`).  `MarkingClaimsTheRun`: to invert the bits of a free
run gives `Claimed`.  `FreeingReleasesTheSequence`: `FreedUpTo` is the bitmap after
`l` frames, `Ends` the place where the loop stops.  `StepsRunTheLoops` puts them into
the steps of the pool: every step of `ContFramePool` is one of `NextInTurns`,
where `get_frames` and `release_frames` are their loops, so the theorems above
are about the loops as well.

**Virtual memory** (`VirtualMemory_proofs`).  `TypeCorrect`, `FramesMappedOnce`
(`FramesOnce`), `CarefulRegionsKeepData` (`DataKept`), `FilledReleasesNeverHalt`
(`NeverHalts`) and `CleanFaultsAreLocal` (`FaultIsLocal`), for pages of any even size, any number of
frames and any pools.  They have two hypotheses, because without either the code
does something else.  `CarefulClients` speaks of the constants: pools do not
overlap and are longer than a page; sizes are at least a page and not a whole
number of tables, and a region does not wrap around the address space
(otherwise `allocate` reserves too few pages); words that clients write are no
present entries; what is released was used.  `[]FramesLeft` says that the process
pool never runs empty, since `handle_fault` does not check.  Run `vm` meets both:
its sizes, words and pools are such, and its two allocations per pool never
take all sixteen frames.  The first regions that the test in `kernel.C` asks for are
smaller than a page, and half of the words it stores are odd; that it passes
nevertheless, with one region out at a time, is what `Kernel4` in run `kernels` shows.
Each hypothesis keeps out a case in which the code fails: releases of untouched
pages halt, and a table over odd words maps pages by itself.

The invariant is `MemoryInv`.  Its part `MachineInv` is about page tables alone.  It
speaks of slots, where slot `(0, d)` is entry `d` of the directory and `(t, i)` entry
`i` of table `t`: a live slot has a frame that is not free (`OwnersHeld`), of its own
(`OwnersApart`), and every frame that is not free is one of these (`AllOwned`).  That
is `FramesOnce`, but it is not inductive: `handle_fault` does not clear a new
table, so a frame must hold nothing that looks like a present entry when it
becomes one.  `FreeClean` says so of free frames and `PagesClean` of the pages that
may be freed, which is why the words of clients matter and why the first page
of a pool, full of odd addresses, must never be released.  `EntriesInv` describes
that page: its words are mapped, starts and ends lie in the pool, one word
behind a page, and regions follow each other.  `RegionsInv` gives every region
that is out an entry of its own.  From the three follows what the steps need: regions and
bookkeeping have no page in common (`RegionsApart`, `RegionNotBook`), `release` finds
the entry of the region it is given (`OwnEntry`), and the pages that its half-way
loop frees lie in that region (`FreedPagesBound`, `FreedCells`).  `StoredFacts` and
`FreePageFacts` say what one access and one `free_page` do to all slots and words,
`FilledFacts` and `ReleasedFacts` what the loops do, by a least counterexample over
their turns.

**Blocking disk** (`BlockingDisk_proofs`).  `TypeCorrect`, `NoThreadLost`
(`AtOnePlace`) and `AlwaysAThread` (`NeverDispatchesNull`) for any number of
threads and blocks with at least one thread that does not use the disk.  The
invariant is their conjunction, `SchedulerInv`: no part is inductive alone, since
that a thread is queued once needs the type of the disk queue (only users wait
there) and that the CPU always finds a thread needs every thread to be at one
place.  The assumption `Compute # {}` is what `main()` provides and what makes
`AlwaysAThread` true: with every thread on the disk, `yield` would dispatch to
nothing.  `OneUserSeesAtomicDisk` (`ImplementsDisk`) assumes one thread on the
disk.  Its invariant `CommandInv` ties the controller's command to the loop of
that thread: between command and transfer the controller holds the command for
the block of the loop, so the transfer is served and maps to the atomic read or
write, every other step to a stutter.  `OneUserReads` is what the thread gets
from that; with two users run `disk_read` shows it false.

**Scheduler of mp5** (`Scheduler_proofs`).  The two versions of `terminate` walk
the queue by dequeuing and enqueuing in a loop.  `Turn5Lemma` and `Turn6Lemma`
give the state of the loop after `n` turns in closed form, by a least
counterexample over the recursive function that models it, and
`Terminate5Lemma`, `Terminate6Lemma` and `Terminate6Removes` what is left: mp5
drops the head of the queue, whatever thread was asked for, and mp6 exactly the
given thread, from every queue without repetitions.  Then `TypeCorrect`,
`NoDispatchAfterShutdown` (`ShutdownIsFinal`), `ThreadsUninterrupted` (`Uninterrupted`)
and `TerminationTakes` (`Terminate6Correct`) follow from `SchedulerInv`; `FlagsInv`, that the saved flags of
every thread are clear, is what makes interrupts stay off, and `BeforeStart` what
the first dispatch begins with.

**File system** (`FileSystem_proofs`).  `TypeCorrect` holds for all clients, from
`Typed`.  Everything else needs that no file which does not exist is opened, for
such a handle may write over a list.  Then `ListsInv` holds, wherever the machine
stops and whatever is deleted: inodes have different ids and blocks, and, while
`MAX_BLOCKS` is not 0, no free block is named by an inode.  It gives
`FilesNeverShareBlocks` and, from `CreateDisks` and `DeleteDisks`, which follow a call
write by write, `StopsKeepFiles` (`StopKeepsFiles`); this one also needs that no
missing file is deleted, since the call and a stop inside it then harm the file of
inode 0.  The others name what more they need: `BlocksStayApart` (`BlocksKeptApart`)
that clients delete no open and no missing file (`HandlesInv`); `ListsStayInStep` that
the machine does not stop (`UsedInv`: no used block is without a file);
`BlocksAreReusable` (`BlocksReusable`) all of this (`ZeroInv`: a free block is zero,
because `DeleteFile` clears it and handles write to blocks of files).

`FileStore_proofs` shows `FilesImplementStore` (`ImplementsFileStore`) for
clients that do what `kernel.C` does (`Uses = {}`).  The text of a file is the
first `file_size` characters of its block, where the size is the one of the
open handle, if there is one: the inode's is stale until then.  `FilesInv` adds
`StoreInv` to the invariants above: a file has one handle, a position is not
behind the end, a free inode has size 0.  `Mount` is a stutter, every other call
is the store's call of the same name; `Write` answers the number of characters it
wrote, or one less when it reaches the end of the block, which is all that
`FileStore!Counted` allows (the headers promise the first).  `CapacityLemma` shows by a bijection from
files to inodes and from inodes to blocks that the two searches of `CreateFile`
fail exactly when the store is full.

**Devices** (`Devices_proofs`).  Six theorems, for a screen of any size, any
frequency, any width of the counter of seconds and any characters.
`DriversAgree` (`DriversConsistent`) rests on `DriversInv`: what is in service in
the two controllers is exactly the interrupt whose handler is about to run, and
interrupts are off exactly then, so `dispatch_interrupt` finds what it ends
(`DispatchLemma`).  The others are about a main thread that is interrupted
between two accesses, and none of them is inductive, because it says nothing
between the two:

- `CurrentIsNear` (`TimeIsNear`) needs `SecondsNear`: once `current()` has read the
  seconds, the clock is ahead of them by less than the ticks that passed and a
  second.  Times are taken modulo the period of the counter, after which it is
  back at 0; `TickLemma` says that a tick moves the clock on by one there,
  `ReadLemma` that reading the ticks later brings the time read nearer.
- `ReadIsFresh` (`FreshKey`) needs `KeyInv`.  Keys are numbered as they are pressed:
  what the controller holds is newer than what the handler left
  (`ControllerNewer`), and a flag set after `read()` cleared it tells of a key newer than
  those that the handler had been given when `read()` was called (`SpinSeesNewer`).  A
  key that waits in the controller at the call counts as fresh: it is the interrupt
  that delivers it.
- `CursorReturns` (`CursorComesBack`) needs `CursorInv`.  `CursorOK` says on which
  labels of `putch` the cursor may be behind the row or the screen, and that memory outside the
  reach of the property is never written; `RegistersOK` that what the main thread has
  loaded of the cursor is still usable when a handler has printed before the
  store.  It is, because a message of the timer ends at the beginning of a row and
  never further down than the last one (`HandlerPrints`).
  `PutchCursor` has one case for each load and store, `ScrolledLemma` and
  `MemcpyLemma` say which memory scrolling leaves alone.
- `EchoArrives` (`EchoComplete`) needs `FlowOK`, which characters reach which label
  and where the row was found full, and `EchoInv`: after every step the port
  with the character on its way, and what was printed without tabs and
  backspaces, have the same characters of the main thread in the same order, and
  both are `Complete`, so that a line of a handler can be told from them.  The filters
  are recursive functions over what was printed; `PickedLemma` says what one more character
  adds to them.
- `ScreenIsPaper` (`ScreenShowsPaper`) needs `PaperInv`.  Between two calls the console
  is `OnPaper`: cells, row and column are those of the paper of `printed`.  Inside a
  call it is `OnTheWay` from the paper of all but the last character to the paper of all:
  `CursorOf` says where the cursor is at each label, `RegistersOf` what was loaded,
  `ScreenOf` what the cells show, during the scroll one row further up before the index
  than behind it (`ScrollGoesOn`).  `PutchOnPaper` has one case for each load and
  store, `PutchTypes` says of a putch in one piece, the handler's, that it types any
  character.  `MovedLemma` is `memcpy` on areas that overlap, the destination
  before the source: every cell is read before it is written.  `CellLemma` says that no
  two places of the screen have one address, `NextTab` that the division in `putch` finds the next
  tab stop.

**What stays with TLC.**  Liveness and `ENABLED` are out of the prover's reach:
`ReadyRuns`, `ComputeRuns`, `UsersProgress`, `RequestsServed`, `BusyLoopsEnd`,
`MainEnds`.  So are facts by induction over data with an operator as parameter;
where a recursive function counts in `Nat` the proofs use `LeastElement` instead.
`Kernels` is a fixed list of six programs with no parameter that
matters: its run is exhaustive.

## Limits

Sizes of addresses and counters are modelled where they can wrap
(`n_free_frames` modulo `2^w`, addresses modulo the address space).  Not
modelled:

- the assembly before `main()`: `PowerOn` is the state in which it calls it;
- stack overflow of threads, failing hardware, the data port word by word, the
  registers of the hardware cursor, faults before a pool is registered;
- nested interrupts: every gate is an interrupt gate and no handler enables them;
- `GeneratePageTableMemoryReferences` of mp4 (an alternative test which `#ifdef` leaves
  out), `strcpy` and `simple_frame_pool.C` (called by no kernel), mp1 (an image
  without source);
- an interrupt inside a statement of `main()` in `Kernels`; `Devices` looks into
  those that share state with a handler.

The list of regions of a pool
overruns its page after 512 allocations; `MaxAllocations` stops before that.
An uninitialised block number (`file.C:41`) is a choice of any block of the disk
or of none; a number beyond the disk is not followed, nor what a mount of an
overwritten list would read.  A node for every `enqueue` is not counted in
`MemoryHolds`, which speaks of what is made before the first dispatch.

## Plan

Done, in this order: frame pool with its refinement; blocking disk with its
refinement; mp5 scheduler and `terminate`; virtual memory; file system with its
refinement; devices under interrupts; the kernels as a whole; proofs of
all of these but the last.  The number of runs is kept to a dozen,
so that checking everything stays a matter of minutes.

Next: a run of `VirtualMemory` in which frames are short and the list of regions
leaves its page, with what still holds then.
