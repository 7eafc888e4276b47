---------------------------- MODULE BlockingDisk ----------------------------
(***************************************************************************)
(* The scheduler, the blocking disk and the four threads of mp6.  Threads  *)
(* run with interrupts disabled (their initial EFLAGS are zero and nothing *)
(* sets the flag), so a thread keeps the CPU until it calls yield(); only  *)
(* the disk controller runs beside it.  Some threads compute and pass the  *)
(* CPU on, the others read a block, write it to the block before it, and   *)
(* pass the CPU on.                                                        *)
(***************************************************************************)
EXTENDS Integers, Sequences, Functions

CONSTANTS
    Compute,        \* the threads that run fun1 and fun4
    Users,          \* the threads that run fun2 and fun3
    StartOrder,     \* thread1, thread2, ... as main() starts and adds them
    NBlocks,        \* fun2 and fun3 walk over this many blocks (10 in the code)
    Null, Garbage   \* no thread; what a buffer holds when no block was read

Threads == Compute \cup Users
Blocks  == 0 .. NBlocks - 1
Data    == Blocks \cup {Garbage}

ASSUME ThreadsAssumption ==
    /\ Compute # {}                 \* thread1 and thread4 never touch the disk
    /\ Compute \cap Users = {}
    /\ Null \notin Threads
    /\ Len(StartOrder) > 0
    /\ StartOrder \in Seq(Threads)
    /\ Range(StartOrder) = Threads
    /\ IsInjective(StartOrder)
ASSUME BlocksAssumption == NBlocks \in Nat /\ NBlocks > 1 /\ Garbage \notin Blocks

VARIABLES
    current,        \* current_thread
    yielding,       \* the current thread is about to run Scheduler::yield
    ready_queue,    \* of the scheduler
    disk_queue,     \* of the disk
    pc,             \* per user: the next part of its loop
    read_block, write_block, buf,   \* per user: the variables of fun2 and fun3
    device,         \* the controller: its command, that command's block, DRQ
    store           \* the content of the disk

cpu == <<current, yielding, ready_queue, disk_queue>>
user == <<pc, read_block, write_block, buf>>
disk == <<device, store>>
vars == <<cpu, user, disk>>

Command == {"none", "READ", "WRITE"}
Points == {"read", "wait_read", "in", "write", "wait_write", "out", "pass"}

Init ==
    /\ current = Head(StartOrder)
    /\ yielding = FALSE
    /\ ready_queue = Tail(StartOrder)
    /\ disk_queue = << >>
    /\ pc = [t \in Users |-> "read"]
    /\ read_block = [t \in Users |-> 1]
    /\ write_block = [t \in Users |-> 0]
    /\ buf = [t \in Users |-> Garbage]
    /\ device = [command |-> "none", block |-> 0, drq |-> FALSE]
    /\ store = [b \in Blocks |-> b]

-----------------------------------------------------------------------------
(***************************************************************************)
(* The scheduler.  dequeue() of an empty queue is NULL.                    *)
(***************************************************************************)
Running(t) == current = t /\ ~yielding

First(q) == IF q = << >> THEN Null ELSE Head(q)
Rest_keeps(q) == q
Rest(q) == IF q = << >> THEN q ELSE Tail(q)

\* pass_on_CPU: resume() the current thread, then yield().
PassOn_yieldOnly(t) == yielding' = TRUE /\ UNCHANGED <<current, ready_queue, disk_queue>>
PassOn_atHead(t) ==
    /\ ready_queue' = <<t>> \o ready_queue
    /\ yielding' = TRUE
    /\ UNCHANGED <<current, disk_queue>>
PassOn(t) ==
    /\ ready_queue' = Append(ready_queue, t)
    /\ yielding' = TRUE
    /\ UNCHANGED <<current, disk_queue>>

(***************************************************************************)
(* yield(): the next thread is taken before the first waiter of the disk,  *)
(* if DRQ is set, goes to the end of the ready queue.  Dispatching to NULL *)
(* leaves no thread to run.                                                *)
(***************************************************************************)
Wakes_early == disk_queue # << >>
Wakes_crowd == device.drq /\ Len(disk_queue) > 1
Wakes == device.drq /\ disk_queue # << >>

Yield ==
    /\ yielding
    /\ current' = First(ready_queue)
    /\ yielding' = FALSE
    /\ IF Wakes
       THEN /\ ready_queue' = Append(Rest(ready_queue), Head(disk_queue))
            /\ disk_queue' = Tail(disk_queue)
       ELSE /\ ready_queue' = Rest(ready_queue)
            /\ UNCHANGED disk_queue
    /\ UNCHANGED <<user, disk>>

\* An iteration of fun1 or fun4.
ComputeAndPass(t) ==
    /\ Running(t)
    /\ PassOn(t)
    /\ UNCHANGED <<user, disk>>

-----------------------------------------------------------------------------
(***************************************************************************)
(* The disk.  issue_operation writes the command to the controller, which  *)
(* forgets the command it had.                                             *)
(***************************************************************************)
Goto(t, from, to) ==
    /\ Running(t)
    /\ pc[t] = from
    /\ pc' = [pc EXCEPT ![t] = to]

IssueOperation(t, op, b) ==
    /\ device' = [command |-> op, block |-> b, drq |-> FALSE]
    /\ UNCHANGED <<cpu, read_block, write_block, buf, store>>

IssueRead(t)  == Goto(t, "read", "wait_read") /\ IssueOperation(t, "READ", read_block[t])
IssueWrite(t) == Goto(t, "write", "wait_write") /\ IssueOperation(t, "WRITE", write_block[t])

(***************************************************************************)
(* wait_until_ready: a thread that finds DRQ clear queues itself and       *)
(* yields.  It goes on to the transfer when it runs again, without another *)
(* look at DRQ.                                                            *)
(***************************************************************************)
WaitUntilReady(t) ==
    /\ Goto(t, "wait_read", "in") \/ Goto(t, "wait_write", "out")
    /\ IF device.drq
       THEN UNCHANGED cpu
       ELSE /\ disk_queue' = Append(disk_queue, t)
            /\ yielding' = TRUE
            /\ UNCHANGED <<current, ready_queue>>
    /\ UNCHANGED <<read_block, write_block, buf, disk>>

(***************************************************************************)
(* The 256 words of a block, through the data port.  The controller moves  *)
(* them when DRQ is set for a command of the same direction, and is then   *)
(* done; else a read finds no data and a write is ignored.                 *)
(***************************************************************************)
Serves(op) == device.drq /\ device.command = op
Done == [device EXCEPT !.command = "none", !.drq = FALSE]

TransferIn(t) ==
    /\ Goto(t, "in", "write")
    /\ IF Serves("READ")
       THEN buf' = [buf EXCEPT ![t] = store[device.block]] /\ device' = Done
       ELSE buf' = [buf EXCEPT ![t] = Garbage] /\ UNCHANGED device
    /\ UNCHANGED <<cpu, read_block, write_block, store>>

TransferOut(t) ==
    /\ Goto(t, "out", "pass")
    /\ IF Serves("WRITE")
       THEN store' = [store EXCEPT ![device.block] = buf[t]] /\ device' = Done
       ELSE UNCHANGED <<store, device>>
    /\ UNCHANGED <<cpu, read_block, write_block, buf>>

NextBlock_unbounded(b) == b + 1
NextBlock(b) == (b + 1) % NBlocks

\* The end of an iteration of fun2 or fun3.
MoveOn(t) ==
    /\ Goto(t, "pass", "read")
    /\ write_block' = [write_block EXCEPT ![t] = read_block[t]]
    /\ read_block' = [read_block EXCEPT ![t] = NextBlock(@)]
    /\ PassOn(t)
    /\ UNCHANGED <<buf, disk>>

\* The controller is ready to move the data of its command.
DeviceReady ==
    /\ device.command # "none" /\ ~device.drq
    /\ device' = [device EXCEPT !.drq = TRUE]
    /\ UNCHANGED <<cpu, user, store>>

-----------------------------------------------------------------------------
UserStep(t) ==
    \/ IssueRead(t)
    \/ IssueWrite(t)
    \/ WaitUntilReady(t)
    \/ TransferIn(t)
    \/ TransferOut(t)
    \/ MoveOn(t)

CpuStep ==
    \/ Yield
    \/ \E t \in Compute : ComputeAndPass(t)
    \/ \E t \in Users : UserStep(t)

Next == CpuStep \/ DeviceReady

Spec == Init /\ [][Next]_vars

\* The CPU executes instructions and the controller serves its command.
FairSpec == Spec /\ WF_vars(CpuStep) /\ WF_vars(DeviceReady)

-----------------------------------------------------------------------------
(***************************************************************************)
(* Type invariant.                                                         *)
(***************************************************************************)
TypeOK ==
    /\ current \in Threads \cup {Null}
    /\ yielding \in BOOLEAN
    /\ ready_queue \in Seq(Threads)
    /\ disk_queue \in Seq(Users)
    /\ pc \in [Users -> Points]
    /\ read_block \in [Users -> Blocks]
    /\ write_block \in [Users -> Blocks]
    /\ buf \in [Users -> Data]
    /\ device \in [command : Command, block : Blocks, drq : BOOLEAN]
    /\ store \in [Blocks -> Data]

(***************************************************************************)
(* No thread is lost and none is queued twice: a thread that does not run  *)
(* is at exactly one place of exactly one queue, and the thread that runs  *)
(* is in no queue.  (A thread that is about to yield has queued itself.)   *)
(***************************************************************************)
OnCpu == IF yielding THEN {} ELSE {current}

AtOnePlace ==
    /\ IsInjective(ready_queue)
    /\ IsInjective(disk_queue)
    /\ Threads = OnCpu \cup Range(ready_queue) \cup Range(disk_queue)
    /\ OnCpu \cap Range(ready_queue) = {}
    /\ OnCpu \cap Range(disk_queue) = {}
    /\ Range(ready_queue) \cap Range(disk_queue) = {}

(***************************************************************************)
(* The scheduler never dispatches to NULL, though yield() dispatches to    *)
(* whatever dequeue() returns: some other thread is always ready when a    *)
(* thread waits for the disk.                                              *)
(***************************************************************************)
NeverDispatchesNull == current # Null

(***************************************************************************)
(* read() and write() are those of AtomicDisk.                             *)
(***************************************************************************)
Disk == INSTANCE AtomicDisk WITH from <- read_block, to <- write_block
ImplementsDisk == Disk!Spec

(***************************************************************************)
(* simple_disk.H: read() copies the given block to the given buffer.       *)
(***************************************************************************)
ReadReturnsBlock ==
    [][\A t \in Users : TransferIn(t) => buf'[t] = store[read_block[t]]]_vars

(***************************************************************************)
(* Every thread that computes gets the CPU again and again, whatever the   *)
(* threads that use the disk do.                                           *)
(***************************************************************************)
ComputeRuns == \A t \in Compute : []<>Running(t)

(***************************************************************************)
(* The threads that use the disk get through their loops again and again.  *)
(***************************************************************************)
UsersProgress == \A t \in Users : []<>(pc[t] = "pass")
=============================================================================
