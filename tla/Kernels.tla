------------------------------ MODULE Kernels ------------------------------
(***************************************************************************)
(* The six kernels from power-on, each with the devices that interrupt it. *)
(* A step of the main thread is one statement of main, or one turn of a    *)
(* loop in it; the module Devices looks inside the statements that race    *)
(* with handlers.  An interrupt is taken between two statements: its gate  *)
(* clears the interrupt flag, so dispatcher and handler run in one step.   *)
(***************************************************************************)
EXTENDS Kernel

CONSTANTS
    MaxTicks,       \* bound: ticks of the timer chip
    MaxKeys         \* bound: keys pressed

ASSUME KernelsAssumption == {MaxTicks, MaxKeys} \subseteq Nat

VARIABLES
    kernel,         \* which one was booted
    at,             \* the next statement of its main
    machine,
    ticks, keys,    \* what the devices have done so far
    taken,          \* history: timer interrupts taken
    handledBy       \* history: per line, the handlers its interrupts have met

vars == <<kernel, at, machine, ticks, keys, taken, handledBy>>

mp2 == INSTANCE Kernel2
mp3 == INSTANCE Kernel3
mp4 == INSTANCE Kernel4
mp5 == INSTANCE Kernel5
mp6 == INSTANCE Kernel6
mp7 == INSTANCE Kernel7

MPs == 2 .. 7
Main == <<NULL, mp2!main, mp3!main, mp4!main, mp5!main, mp6!main, mp7!main>>
Statement == Main[kernel][at]

Executed(s, m) ==
    CASE kernel = 2 -> mp2!Execute(s, m) [] kernel = 3 -> mp3!Execute(s, m)
      [] kernel = 4 -> mp4!Execute(s, m) [] kernel = 5 -> mp5!Execute(s, m)
      [] kernel = 6 -> mp6!Execute(s, m) [] kernel = 7 -> mp7!Execute(s, m)
Following(m) ==
    CASE kernel = 2 -> mp2!Following(at, m) [] kernel = 3 -> mp3!Following(at, m)
      [] kernel = 4 -> mp4!Following(at, m) [] kernel = 7 -> mp7!Following(at, m)
      [] kernel = 5 -> mp5!Following(at, m) [] kernel = 6 -> mp6!Following(at, m)
Interrupted(m, n) ==
    CASE kernel = 3 -> mp3!Processor!Interrupt(m, n) [] kernel = 4 -> mp4!Processor!Interrupt(m, n)
      [] kernel = 5 -> mp5!Processor!Interrupt(m, n) [] kernel = 6 -> mp6!Processor!Interrupt(m, n)
      [] kernel = 7 -> mp7!Processor!Interrupt(m, n)

Init ==
    /\ kernel \in MPs /\ at = 1 /\ machine = PowerOn
    /\ ticks = 0 /\ keys = 0
    /\ taken = 0 /\ handledBy = [n \in {0, 1, 14} |-> {}]

-----------------------------------------------------------------------------
(***************************************************************************)
(* A statement; a failed assertion or test is a loop without an end.       *)
(***************************************************************************)
Goes == ~machine.halted /\ ~machine.failed

Run ==
    /\ Goes /\ at \in DOMAIN Main[kernel]
    /\ machine' = Executed(Statement, machine)
    /\ at' = Following(machine)
    /\ UNCHANGED <<kernel, ticks, keys, taken, handledBy>>

(***************************************************************************)
(* The devices: the timer chip, a key, and the disk, which asks for data;  *)
(* for a write it does so without an interrupt.                            *)
(***************************************************************************)
Requested(n) == machine' = [machine EXCEPT !.pic = PIC!Requested(@, n)]

DeviceTick ==
    /\ ticks < MaxTicks /\ 0 \notin machine.pic.requested
    /\ Requested(0) /\ ticks' = ticks + 1
    /\ UNCHANGED <<kernel, at, keys, taken, handledBy>>

DeviceKey ==
    /\ keys < MaxKeys /\ machine.controller = <<>>
    /\ machine' = [machine EXCEPT !.controller = <<keys + 1>>, !.pic = PIC!Requested(@, 1)]
    /\ keys' = keys + 1
    /\ UNCHANGED <<kernel, at, ticks, taken, handledBy>>

DeviceDisk ==
    /\ machine.ide.command # 0 /\ ~machine.ide.drq
    /\ machine' = [machine EXCEPT !.ide.drq = TRUE,
                                  !.pic = IF machine.ide.command = mp7!Disk!READ THEN PIC!Requested(@, 14)
                                          ELSE @]
    /\ UNCHANGED <<kernel, at, ticks, keys, taken, handledBy>>

Interrupt ==
    /\ Goes /\ machine.interrupts_enabled
    /\ \E n \in DOMAIN handledBy :
          /\ PIC!Grants(machine.pic, n)
          /\ machine' = Interrupted(machine, n)
          /\ handledBy' = [handledBy EXCEPT ![n] = @ \cup {machine.handlers[n]}]
          /\ taken' = IF n = 0 THEN taken + 1 ELSE taken
    /\ UNCHANGED <<kernel, at, ticks, keys>>

Next == Run \/ DeviceTick \/ DeviceKey \/ DeviceDisk \/ Interrupt

(***************************************************************************)
(* The processor goes on, interrupts are taken, and the disk answers.  The *)
(* fairness of the first two is written out with the conditions that they  *)
(* are enabled by: all of a kernel is too much to be tried for ENABLED.    *)
(***************************************************************************)
Spins == kernel = 7 /\ Statement = "wait" /\ ~mp7!Disk!is_ready(machine)
CanRun == Goes /\ at \in DOMAIN Main[kernel] /\ ~Spins
CanInterrupt == Goes /\ machine.interrupts_enabled /\ \E n \in DOMAIN handledBy : PIC!Grants(machine.pic, n)

Fairness ==
    /\ []<>~CanRun \/ []<><<Run>>_vars
    /\ []<>~CanInterrupt \/ []<><<Interrupt>>_vars
    /\ WF_vars(DeviceDisk)

Spec == Init /\ [][Next]_vars /\ Fairness

-----------------------------------------------------------------------------
(***************************************************************************)
(* Type invariant.                                                         *)
(***************************************************************************)
TypeOK ==
    /\ kernel \in MPs /\ at \in 1 .. Len(Main[kernel]) + 1
    /\ machine.timer \in [seconds : 0 .. Seconds - 1, ticks : 0 .. Hz - 1]
    /\ DOMAIN machine = DOMAIN PowerOn
    /\ {machine.interrupts_enabled, machine.halted, machine.failed} \subseteq BOOLEAN
    /\ ticks \in 0 .. MaxTicks /\ keys \in 0 .. MaxKeys

(***************************************************************************)
(* main() of every kernel: nothing fails on the way, whatever interrupts   *)
(* it: no assertion, no exception or interrupt without a gate, no output   *)
(* before the console, no new before its pool.                             *)
(***************************************************************************)
NeverHalts == ~machine.halted

(***************************************************************************)
(* Every state that a kernel comes to is one that it can go on from.       *)
(***************************************************************************)
BootSafe == TypeOK /\ NeverHalts

(***************************************************************************)
(* kernel.C of every kernel: "It is important to install a timer handler,  *)
(* as we would get a lot of uncaptured interrupts otherwise."  What a      *)
(* kernel sets up a handler for never arrives without one.                 *)
(***************************************************************************)
Handler == [timer |-> 0, keyboard |-> 1, silencer |-> 14]
SetUp == {Handler[h] : h \in CASE kernel \in {3, 4} -> {"timer", "keyboard"}
                              [] kernel \in {5, 6} -> {"timer"}
                              [] kernel = 7 -> {"timer", "silencer"}
                              [] OTHER -> {}}

DevicesHandled == \A n \in SetUp : NULL \notin handledBy[n]

(***************************************************************************)
(* kernel.C of mp5: the timer is there to see that interrupts are enabled  *)
(* correctly.  Its time is the number of its interrupts, through seconds   *)
(* that wrap, and no interrupt is left in service.                         *)
(***************************************************************************)
TimeCounts ==
    /\ PIC!Idle(machine.pic)
    /\ machine.timer.seconds * Hz + machine.timer.ticks = taken % (Seconds * Hz)

(***************************************************************************)
(* No interrupt is lost between gate, dispatcher and handler, from the     *)
(* first one on.                                                           *)
(***************************************************************************)
InterruptsHandled == DevicesHandled /\ TimeCounts

(***************************************************************************)
(* mem_pool.H: the objects that new has made are disjoint, and lie in the  *)
(* 256 frames of the pool though allocate() never looks for its end.       *)
(***************************************************************************)
End(o) == o.address + o.size
PoolStart == mp7!MemPool!PoolStart
PoolEnd == PoolStart + 256 * mp7!MemPool!PAGE_SIZE

ObjectsDisjoint ==
    LET o == machine.objects
    IN  \A i \in DOMAIN o :
            /\ o[i].address >= PoolStart /\ End(o[i]) <= PoolEnd
            /\ \A j \in DOMAIN o \ {i} : End(o[i]) <= o[j].address \/ End(o[j]) <= o[i].address

(***************************************************************************)
(* The tests of mp2, mp3 and mp4 read what they have written, and mp2      *)
(* gives every frame back.                                                 *)
(***************************************************************************)
TestsPass ==
    /\ ~machine.failed
    /\ (kernel = 2 /\ at > Len(mp2!main)) => machine.pools[1].free = Mp2Size - 1

(***************************************************************************)
(* Page tables of mp3: a page that is mapped behind the shared memory has  *)
(* a frame of its own, from the process pool, which the pool counts as     *)
(* taken; a table lies in a frame of the kernel pool.                      *)
(***************************************************************************)
Physical == INSTANCE PhysicalMemory
PagesOf(m) == {x \in (1 .. Entries - 1) \X (0 .. Entries - 1) : mp3!Mapped(m, <<x[1], x[2], 0>>)}
FrameOfPage(m, x) == Physical!FrameOf(mp3!PTE(m, x))
TakenFrames(name) ==
    LET p == machine.pools[mp3!Pool!Index(machine, name)]
    IN  {f \in mp3!Pool!FramesIn(p) : p.bits[f] = mp3!Pool!HEAD}

PagesOwnFrames ==
    (kernel = 3 /\ machine.paging) =>
        /\ \A x, y \in PagesOf(machine) : FrameOfPage(machine, x) = FrameOfPage(machine, y) => x = y
        /\ \A x \in PagesOf(machine) :
              /\ FrameOfPage(machine, x) \in TakenFrames("process")
              /\ Physical!FrameOf(mp3!PDE(machine, x)) \in TakenFrames("kernel")

(***************************************************************************)
(* Memory that a kernel has given to one purpose is used for that one      *)
(* only: objects, frames with their contents, pages.                       *)
(***************************************************************************)
MemoryHolds == ObjectsDisjoint /\ TestsPass /\ PagesOwnFrames

(***************************************************************************)
(* thread.C: the context that a thread is made with is the one the first   *)
(* dispatch takes from its stack, in the reverse order: it starts in the   *)
(* kernel's segments, with interrupts off, and returns to thread_shutdown. *)
(* No stack pointer leaves its stack.                                      *)
(***************************************************************************)
StartsWell ==
    /\ machine.current_thread # 0 =>
          /\ <<machine.eip, machine.cs, machine.ds>> = <<"thread_start", 8, 16>>
          /\ ~machine.interrupts_enabled
          /\ machine.returns = <<"fun1", "thread_shutdown">>
    /\ \A t \in Range(machine.threads) : \A a \in DOMAIN t.words :
          {a, a + 3} \subseteq t.stack .. t.stack + t.stack_size - 1

(***************************************************************************)
(* simple_disk.C: the registers of the controller hold the block that      *)
(* read() and write() were given.                                          *)
(***************************************************************************)
BlockAddressed ==
    machine.ide.command # 0 => mp7!Disk!BlockOf(machine.ide.registers) = Blocks[machine.i + 1]

(***************************************************************************)
(* What drivers and constructors put together byte by byte and word by     *)
(* word, the hardware takes apart as it was meant.                         *)
(***************************************************************************)
HardwareTakes == StartsWell /\ BlockAddressed

(***************************************************************************)
(* Every kernel comes to the end of its main, however often it is          *)
(* interrupted; that of mp7 goes round its loop for ever.                  *)
(***************************************************************************)
MainEnds ==
    /\ kernel # 7 => <>(at > Len(Main[kernel]))
    /\ kernel = 7 => []<>(at = Len(mp7!main)) /\ []<>(at # Len(mp7!main))
=============================================================================
