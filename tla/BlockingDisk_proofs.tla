------------------------ MODULE BlockingDisk_proofs ------------------------
(***************************************************************************)
(* Theorems about BlockingDisk, for any threads, start order and number of *)
(* blocks: no thread is ever lost or queued twice, and the scheduler never *)
(* dispatches to NULL as long as one thread does not use the disk; with a  *)
(* single user of the disk, its reads and writes are atomic.               *)
(***************************************************************************)
EXTENDS BlockingDisk, Lemmas

-----------------------------------------------------------------------------
(***************************************************************************)
(* Type correctness.  The actions are grouped as their definitions are: a  *)
(* lemma for pass_on_CPU, one for yield, and a step per remaining action.  *)
(***************************************************************************)
LEMMA InitType == Init => TypeOK
<1>. SUFFICES ASSUME Init PROVE TypeOK
  OBVIOUS
<1>1. StartOrder \in Seq(Threads) /\ StartOrder # << >>
  BY ThreadsAssumption
<1>2. Head(StartOrder) \in Threads /\ Tail(StartOrder) \in Seq(Threads)
  BY <1>1, DequeueLemma
<1>3. 0 \in Blocks /\ 1 \in Blocks
  BY BlocksAssumption DEF Blocks
<1>4. disk_queue \in Seq(Users)
  BY DEF Init
<1>5. device \in [command : Command, block : Blocks, drq : BOOLEAN]
  BY <1>3 DEF Init, Command
<1>6. /\ pc \in [Users -> Points] /\ buf \in [Users -> Data]
      /\ read_block \in [Users -> Blocks] /\ write_block \in [Users -> Blocks]
      /\ store \in [Blocks -> Data]
  BY <1>3 DEF Init, Points, Data
<1>. QED
  BY <1>2, <1>4, <1>5, <1>6 DEF Init, TypeOK

LEMMA PassOnType ==
    ASSUME TypeOK, NEW t \in Threads, PassOn(t)
    PROVE  /\ current' \in Threads \cup {Null}
           /\ yielding' \in BOOLEAN
           /\ ready_queue' \in Seq(Threads)
           /\ disk_queue' \in Seq(Users)
BY EnqueueLemma DEF TypeOK, PassOn

LEMMA YieldType == TypeOK /\ Yield => TypeOK'
<1>. SUFFICES ASSUME TypeOK, Yield PROVE TypeOK'
  OBVIOUS
<1>1. /\ First(ready_queue) \in Threads \cup {Null}
      /\ Rest(ready_queue) \in Seq(Threads)
  BY DequeueLemma DEF TypeOK, First, Rest
<1>2. CASE Wakes
  <2>1. Head(disk_queue) \in Threads /\ Tail(disk_queue) \in Seq(Users)
    BY <1>2, DequeueLemma DEF TypeOK, Wakes, Threads
  <2>2. ready_queue' \in Seq(Threads)
    BY <1>1, <1>2, <2>1, EnqueueLemma DEF Yield
  <2>. QED
    BY <1>1, <1>2, <2>1, <2>2 DEF TypeOK, Yield, user, disk
<1>3. CASE ~Wakes
  BY <1>1, <1>3 DEF TypeOK, Yield, user, disk
<1>. QED
  BY <1>2, <1>3

LEMMA NextBlockType == \A b \in Blocks : NextBlock(b) \in Blocks
<1>. SUFFICES ASSUME NEW b \in Blocks PROVE NextBlock(b) \in Blocks
  OBVIOUS
<1>1. NBlocks \in Nat /\ NBlocks > 0 /\ b + 1 \in Int
  BY BlocksAssumption DEF Blocks
<1>2. \A m \in Int, n \in Nat : n > 0 => m % n \in 0 .. n - 1
  OBVIOUS
<1>. QED
  BY <1>1, <1>2 DEF Blocks, NextBlock

LEMMA NextType == TypeOK /\ [Next]_vars => TypeOK'
<1>. SUFFICES ASSUME TypeOK, [Next]_vars PROVE TypeOK'
  OBVIOUS
<1>1. CASE Yield
  BY <1>1, YieldType
<1>2. ASSUME NEW t \in Compute, ComputeAndPass(t) PROVE TypeOK'
  <2>1. t \in Threads /\ PassOn(t)
    BY <1>2 DEF ComputeAndPass, Threads
  <2>. QED
    BY <1>2, <2>1, PassOnType DEF TypeOK, ComputeAndPass, user, disk
<1>3. ASSUME NEW t \in Users, IssueRead(t) PROVE TypeOK'
  BY <1>3 DEF TypeOK, IssueRead, Goto, IssueOperation, Points, Command, cpu
<1>4. ASSUME NEW t \in Users, IssueWrite(t) PROVE TypeOK'
  BY <1>4 DEF TypeOK, IssueWrite, Goto, IssueOperation, Points, Command, cpu
<1>5. ASSUME NEW t \in Users, WaitUntilReady(t) PROVE TypeOK'
  <2>1. pc' \in [Users -> Points]
    BY <1>5 DEF TypeOK, WaitUntilReady, Goto, Points
  <2>2. Append(disk_queue, t) \in Seq(Users)
    BY EnqueueLemma DEF TypeOK
  <2>3. CASE device.drq
    BY <1>5, <2>1, <2>3 DEF TypeOK, WaitUntilReady, cpu, disk
  <2>4. CASE ~device.drq
    BY <1>5, <2>1, <2>2, <2>4 DEF TypeOK, WaitUntilReady, disk
  <2>. QED
    BY <2>3, <2>4
<1>6. ASSUME NEW t \in Users, TransferIn(t) PROVE TypeOK'
  <2>1. Done \in [command : Command, block : Blocks, drq : BOOLEAN]
    BY DEF TypeOK, Done, Command
  <2>2. store[device.block] \in Data /\ Garbage \in Data
    BY DEF TypeOK, Data
  <2>3. pc' \in [Users -> Points]
    BY <1>6 DEF TypeOK, TransferIn, Goto, Points
  <2>. QED
    BY <1>6, <2>1, <2>2, <2>3 DEF TypeOK, TransferIn, cpu
<1>7. ASSUME NEW t \in Users, TransferOut(t) PROVE TypeOK'
  <2>1. Done \in [command : Command, block : Blocks, drq : BOOLEAN]
    BY DEF TypeOK, Done, Command
  <2>2. pc' \in [Users -> Points]
    BY <1>7 DEF TypeOK, TransferOut, Goto, Points
  <2>. QED
    BY <1>7, <2>1, <2>2 DEF TypeOK, TransferOut, cpu
<1>8. ASSUME NEW t \in Users, MoveOn(t) PROVE TypeOK'
  <2>1. t \in Threads /\ PassOn(t)
    BY <1>8 DEF MoveOn, Threads
  <2>2. pc' \in [Users -> Points]
    BY <1>8 DEF TypeOK, MoveOn, Goto, Points
  <2>3. NextBlock(read_block[t]) \in Blocks /\ read_block[t] \in Blocks
    BY NextBlockType DEF TypeOK
  <2>4. read_block' \in [Users -> Blocks] /\ write_block' \in [Users -> Blocks]
    BY <1>8, <2>3 DEF TypeOK, MoveOn
  <2>. QED
    BY <1>8, <2>1, <2>2, <2>4, PassOnType DEF TypeOK, MoveOn, disk
<1>9. CASE DeviceReady
  BY <1>9 DEF TypeOK, DeviceReady, cpu, user
<1>10. CASE UNCHANGED vars
  BY <1>10 DEF TypeOK, vars, cpu, user, disk
<1>. QED
  BY <1>1, <1>2, <1>3, <1>4, <1>5, <1>6, <1>7, <1>8, <1>9, <1>10
  DEF Next, CpuStep, UserStep

(***************************************************************************)
(* Every variable keeps its type in every reachable state.                 *)
(***************************************************************************)
THEOREM TypeCorrect == Spec => []TypeOK
BY InitType, NextType, PTL DEF Spec

-----------------------------------------------------------------------------
(***************************************************************************)
(* Every thread is at one place.                                           *)
(***************************************************************************)
LEMMA InitPlace == Init => AtOnePlace
<1>. SUFFICES ASSUME Init PROVE AtOnePlace
  OBVIOUS
<1>1. StartOrder \in Seq(Threads) /\ StartOrder # << >>
  BY ThreadsAssumption
<1>2. /\ IsInjective(Tail(StartOrder))
      /\ Range(Tail(StartOrder)) = Threads \ {Head(StartOrder)}
      /\ Head(StartOrder) \in Threads
  BY <1>1, DequeueLemma, ThreadsAssumption
<1>3. Range(<< >>) = {} /\ IsInjective(<< >>)
  BY DEF Range, IsInjective
<1>. QED
  BY <1>2, <1>3 DEF Init, AtOnePlace, OnCpu

LEMMA PassOnPlace ==
    ASSUME TypeOK, AtOnePlace, NEW t \in Threads, Running(t), PassOn(t)
    PROVE  AtOnePlace'
<1>1. t \notin Range(ready_queue) /\ OnCpu = {t} /\ OnCpu' = {}
  BY DEF AtOnePlace, OnCpu, Running, PassOn
<1>2. /\ Range(ready_queue') = Range(ready_queue) \cup {t}
      /\ IsInjective(ready_queue')
  BY <1>1, EnqueueLemma DEF TypeOK, AtOnePlace, PassOn
<1>3. disk_queue' = disk_queue
  BY DEF PassOn
<1>. QED
  BY <1>1, <1>2, <1>3 DEF AtOnePlace

(***************************************************************************)
(* When a thread is about to yield, the thread that computes is ready: it  *)
(* is not running and never waits for the disk.                            *)
(***************************************************************************)
LEMMA ReadyNotEmpty == TypeOK /\ AtOnePlace /\ yielding => ready_queue # << >>
<1>. SUFFICES ASSUME TypeOK, AtOnePlace, yielding PROVE ready_queue # << >>
  OBVIOUS
<1>1. PICK c \in Compute : c \notin Users /\ c \in Threads
  BY ThreadsAssumption DEF Threads
<1>2. Range(disk_queue) \subseteq Users
  BY DEF TypeOK, Range
<1>3. c \in Range(ready_queue)
  BY <1>1, <1>2 DEF AtOnePlace, OnCpu
<1>. QED
  BY <1>3 DEF Range

LEMMA YieldPlace ==
    ASSUME TypeOK, AtOnePlace, Yield
    PROVE  AtOnePlace' /\ current' \in Threads
<1>. DEFINE h == Head(ready_queue)
            w == Head(disk_queue)
<1>1. yielding /\ ready_queue # << >> /\ ready_queue \in Seq(Threads)
  BY ReadyNotEmpty DEF Yield, TypeOK
<1>2. /\ current' = h /\ First(ready_queue) = h
      /\ Rest(ready_queue) = Tail(ready_queue)
      /\ OnCpu = {} /\ OnCpu' = {h}
  BY <1>1 DEF Yield, First, Rest, OnCpu
<1>3. /\ h \in Threads /\ h \in Range(ready_queue)
      /\ Tail(ready_queue) \in Seq(Threads)
      /\ IsInjective(Tail(ready_queue))
      /\ Range(Tail(ready_queue)) = Range(ready_queue) \ {h}
  BY <1>1, DequeueLemma DEF AtOnePlace
<1>4. CASE Wakes
  <2>1. /\ ready_queue' = Append(Tail(ready_queue), w)
        /\ disk_queue' = Tail(disk_queue)
    BY <1>2, <1>4 DEF Yield
  <2>2. disk_queue # << >> /\ disk_queue \in Seq(Users)
    BY <1>4 DEF Wakes, TypeOK
  <2>3. /\ w \in Threads /\ w \in Range(disk_queue)
        /\ IsInjective(Tail(disk_queue))
        /\ Range(Tail(disk_queue)) = Range(disk_queue) \ {w}
    BY <2>2, DequeueLemma DEF AtOnePlace, Threads
  <2>4. w \notin Range(Tail(ready_queue))
    BY <1>3, <2>3 DEF AtOnePlace
  <2>5. /\ Range(ready_queue') = (Range(ready_queue) \ {h}) \cup {w}
        /\ IsInjective(ready_queue')
    <3>1. ASSUME NEW q \in Seq(Threads), IsInjective(q), w \notin Range(q)
          PROVE  Range(Append(q, w)) = Range(q) \cup {w} /\ IsInjective(Append(q, w))
      BY <2>3, <3>1, EnqueueLemma
    <3>2. /\ Range(Append(Tail(ready_queue), w)) = Range(Tail(ready_queue)) \cup {w}
          /\ IsInjective(Append(Tail(ready_queue), w))
      BY <1>3, <2>4, <3>1
    <3>. QED
      BY <1>3, <2>1, <3>2
  <2>. QED
    BY <1>2, <1>3, <2>1, <2>3, <2>5 DEF AtOnePlace
<1>5. CASE ~Wakes
  <2>1. ready_queue' = Tail(ready_queue) /\ disk_queue' = disk_queue
    BY <1>2, <1>5 DEF Yield
  <2>. QED
    BY <1>2, <1>3, <2>1 DEF AtOnePlace
<1>. QED
  BY <1>4, <1>5

LEMMA WaitPlace ==
    ASSUME TypeOK, AtOnePlace, NEW t \in Users, WaitUntilReady(t)
    PROVE  AtOnePlace' /\ current' = current
<1>1. CASE device.drq
  BY <1>1 DEF WaitUntilReady, cpu, AtOnePlace, OnCpu
<1>2. CASE ~device.drq
  <2>1. Running(t)
    BY DEF WaitUntilReady, Goto
  <2>2. /\ OnCpu = {t} /\ OnCpu' = {} /\ t \notin Range(disk_queue)
        /\ ready_queue' = ready_queue /\ current' = current
        /\ disk_queue' = Append(disk_queue, t)
    BY <1>2, <2>1 DEF WaitUntilReady, AtOnePlace, OnCpu, Running
  <2>3. Range(disk_queue') = Range(disk_queue) \cup {t} /\ IsInjective(disk_queue')
    BY <2>2, EnqueueLemma DEF TypeOK, AtOnePlace
  <2>. QED
    BY <2>2, <2>3 DEF AtOnePlace
<1>. QED
  BY <1>1, <1>2

(***************************************************************************)
(* The inductive invariant of the scheduler.                               *)
(***************************************************************************)
SchedulerInv == TypeOK /\ AtOnePlace /\ NeverDispatchesNull

LEMMA InitScheduler == Init => SchedulerInv
<1>. SUFFICES ASSUME Init PROVE NeverDispatchesNull
  BY InitType, InitPlace DEF SchedulerInv
<1>1. StartOrder \in Seq(Threads) /\ StartOrder # << >>
  BY ThreadsAssumption
<1>2. current \in Threads
  BY <1>1, DequeueLemma DEF Init
<1>. QED
  BY <1>2, ThreadsAssumption DEF NeverDispatchesNull

LEMMA NextScheduler == SchedulerInv /\ [Next]_vars => SchedulerInv'
<1>. SUFFICES ASSUME SchedulerInv, [Next]_vars PROVE SchedulerInv'
  OBVIOUS
<1>. USE DEF SchedulerInv, NeverDispatchesNull
<1>0. TypeOK'
  BY NextType
<1>1. CASE Yield
  BY <1>0, <1>1, YieldPlace, ThreadsAssumption
<1>2. ASSUME NEW t \in Threads, Running(t), PassOn(t) PROVE SchedulerInv'
  BY <1>0, <1>2, PassOnPlace DEF PassOn
<1>3. ASSUME NEW t \in Users, WaitUntilReady(t) PROVE SchedulerInv'
  BY <1>0, <1>3, WaitPlace
<1>4. CASE UNCHANGED cpu
  BY <1>0, <1>4 DEF cpu, AtOnePlace, OnCpu
<1>5. ASSUME NEW t \in Compute, ComputeAndPass(t) PROVE SchedulerInv'
  BY <1>2, <1>5 DEF ComputeAndPass, Threads
<1>6. ASSUME NEW t \in Users, UserStep(t) PROVE SchedulerInv'
  <2>1. CASE MoveOn(t)
    BY <1>2, <2>1 DEF MoveOn, Goto, Threads
  <2>2. CASE WaitUntilReady(t)
    BY <1>3, <2>2
  <2>3. CASE IssueRead(t) \/ IssueWrite(t)
    BY <1>4, <2>3 DEF IssueRead, IssueWrite, IssueOperation
  <2>4. CASE TransferIn(t) \/ TransferOut(t)
    BY <1>4, <2>4 DEF TransferIn, TransferOut
  <2>. QED
    BY <1>6, <2>1, <2>2, <2>3, <2>4 DEF UserStep
<1>7. CASE DeviceReady
  BY <1>4, <1>7 DEF DeviceReady
<1>8. CASE UNCHANGED vars
  BY <1>4, <1>8 DEF vars
<1>. QED
  BY <1>1, <1>5, <1>6, <1>7, <1>8 DEF Next, CpuStep

(***************************************************************************)
(* No thread is lost or queued twice by resume, yield and wait_until_ready.*)
(***************************************************************************)
THEOREM NoThreadLost == Spec => []AtOnePlace
<1>1. SchedulerInv => AtOnePlace
  BY DEF SchedulerInv
<1>. QED
  BY <1>1, InitScheduler, NextScheduler, PTL DEF Spec

(***************************************************************************)
(* yield() never dispatches to NULL while some thread does not use the     *)
(* disk.                                                                   *)
(***************************************************************************)
THEOREM AlwaysAThread == Spec => []NeverDispatchesNull
<1>1. SchedulerInv => NeverDispatchesNull
  BY DEF SchedulerInv
<1>. QED
  BY <1>1, InitScheduler, NextScheduler, PTL DEF Spec

-----------------------------------------------------------------------------
(***************************************************************************)
(* The refinement of the atomic disk, when a single thread uses the disk.  *)
(* Between issue_operation and the end of its transfer the controller      *)
(* works on that thread's command; and a thread that left wait_until_ready *)
(* either found DRQ set or is in the disk queue until DRQ is set, so that  *)
(* it need not look at DRQ again when it runs.  A second thread would      *)
(* overwrite the command: the run of two users shows it.                   *)
(***************************************************************************)
Commanded(t, op, b) == device.command = op /\ device.block = b

CommandInv ==
    \A t \in Users :
        /\ pc[t] \in {"wait_read", "in"} => Commanded(t, "READ", read_block[t])
        /\ pc[t] \in {"wait_write", "out"} => Commanded(t, "WRITE", write_block[t])
        /\ pc[t] \in {"in", "out"} => device.drq \/ t \in Range(disk_queue)

DiskInv == SchedulerInv /\ CommandInv

LEMMA InitCommand == Init => CommandInv
BY DEF Init, CommandInv

LEMMA NextCommand ==
    ASSUME NEW u, Users = {u}, SchedulerInv, CommandInv, [Next]_vars
    PROVE  CommandInv'
<1>. USE DEF SchedulerInv
<1>0. u \in Users /\ pc \in [Users -> Points]
  BY DEF TypeOK
<1>1. CASE Yield
  <2>1. pc' = pc /\ read_block' = read_block /\ write_block' = write_block /\ device' = device
    BY <1>1 DEF Yield, user, disk
  <2>2. device.drq \/ disk_queue' = disk_queue
    BY <1>1 DEF Yield, Wakes
  <2>. QED
    BY <2>1, <2>2 DEF CommandInv, Commanded
<1>2. ASSUME NEW t \in Compute, ComputeAndPass(t) PROVE CommandInv'
  BY <1>2 DEF ComputeAndPass, PassOn, user, disk, CommandInv, Commanded
<1>3. CASE IssueRead(u) \/ IssueWrite(u)
  BY <1>0, <1>3
  DEF IssueRead, IssueWrite, Goto, IssueOperation, CommandInv, Commanded, cpu
<1>4. CASE WaitUntilReady(u)
  <2>1. read_block' = read_block /\ write_block' = write_block /\ device' = device
    BY <1>4 DEF WaitUntilReady, disk
  <2>2. \/ pc[u] = "wait_read" /\ pc'[u] = "in"
        \/ pc[u] = "wait_write" /\ pc'[u] = "out"
    BY <1>0, <1>4 DEF WaitUntilReady, Goto
  <2>3. device.drq \/ u \in Range(disk_queue')
    <3>1. device.drq \/ disk_queue' = Append(disk_queue, u)
      BY <1>4 DEF WaitUntilReady
    <3>2. Range(Append(disk_queue, u)) = Range(disk_queue) \cup {u}
      BY <1>0, EnqueueLemma DEF TypeOK
    <3>. QED
      BY <3>1, <3>2
  <2>. QED
    BY <1>0, <2>1, <2>2, <2>3 DEF CommandInv, Commanded
<1>5. CASE TransferIn(u) \/ TransferOut(u)
  <2>1. pc'[u] \in {"write", "pass"}
    BY <1>0, <1>5 DEF TransferIn, TransferOut, Goto
  <2>. QED
    BY <1>0, <2>1 DEF CommandInv
<1>6. CASE MoveOn(u)
  <2>1. pc'[u] = "read"
    BY <1>0, <1>6 DEF MoveOn, Goto
  <2>. QED
    BY <1>0, <2>1 DEF CommandInv
<1>7. CASE DeviceReady
  BY <1>7 DEF DeviceReady, cpu, user, TypeOK, CommandInv, Commanded
<1>8. CASE UNCHANGED vars
  BY <1>8 DEF vars, cpu, user, disk, CommandInv, Commanded
<1>9. \A t \in Users : t = u
  OBVIOUS
<1>. QED
  BY <1>1, <1>2, <1>3, <1>4, <1>5, <1>6, <1>7, <1>8, <1>9 DEF Next, CpuStep, UserStep

\* A thread at its transfer finds the controller ready for its own command.
LEMMA TransferServed ==
    ASSUME DiskInv, NEW t \in Users, Running(t)
    PROVE  /\ pc[t] = "in" => Serves("READ") /\ device.block = read_block[t]
           /\ pc[t] = "out" => Serves("WRITE") /\ device.block = write_block[t]
<1>1. t \notin Range(disk_queue)
  BY DEF DiskInv, SchedulerInv, AtOnePlace, OnCpu, Running
<1>. QED
  BY <1>1 DEF DiskInv, CommandInv, Commanded, Serves

LEMMA StepIsAtomic ==
    ASSUME DiskInv, [Next]_vars
    PROVE  [Disk!Next]_<<store, buf, read_block, write_block>>
<1>. DEFINE seen == <<store, buf, read_block, write_block>>
<1>. USE DEF DiskInv, SchedulerInv
<1>1. ASSUME NEW t \in Users, TransferIn(t) PROVE Disk!Next
  <2>1. Serves("READ") /\ device.block = read_block[t]
    BY <1>1, TransferServed DEF TransferIn, Goto
  <2>2. Disk!Read(t)
    BY <1>1, <2>1 DEF TransferIn, Disk!Read
  <2>. QED
    BY <2>2 DEF Disk!Next
<1>2. ASSUME NEW t \in Users, TransferOut(t) PROVE Disk!Next
  <2>1. Serves("WRITE") /\ device.block = write_block[t]
    BY <1>2, TransferServed DEF TransferOut, Goto
  <2>2. Disk!Write(t)
    BY <1>2, <2>1 DEF TransferOut, Disk!Write
  <2>. QED
    BY <2>2 DEF Disk!Next
<1>3. ASSUME NEW t \in Users, MoveOn(t) PROVE Disk!Next
  <2>1. NextBlock(read_block[t]) \in Blocks /\ read_block[t] \in Blocks
    BY NextBlockType DEF TypeOK
  <2>2. Disk!Choose(t, NextBlock(read_block[t]), read_block[t])
    BY <1>3 DEF MoveOn, Disk!Choose, disk
  <2>. QED
    BY <2>1, <2>2 DEF Disk!Next
<1>4. ASSUME NEW t \in Users, IssueRead(t) \/ IssueWrite(t) \/ WaitUntilReady(t)
      PROVE  UNCHANGED seen
  BY <1>4 DEF IssueRead, IssueWrite, IssueOperation, WaitUntilReady, disk
<1>5. ASSUME NEW t \in Compute, ComputeAndPass(t) PROVE UNCHANGED seen
  BY <1>5 DEF ComputeAndPass, user, disk
<1>6. CASE Yield \/ DeviceReady \/ UNCHANGED vars
  BY <1>6 DEF Yield, DeviceReady, vars, user, disk
<1>. QED
  BY <1>1, <1>2, <1>3, <1>4, <1>5, <1>6 DEF Next, CpuStep, UserStep

(***************************************************************************)
(* read() and write() of a disk with a single user are atomic: the thread  *)
(* that waited for the controller always gets, and always stores, the      *)
(* block that it asked for.                                                *)
(***************************************************************************)
THEOREM OneUserSeesAtomicDisk ==
    ASSUME \E u : Users = {u}
    PROVE  Spec => ImplementsDisk
<1>1. PICK u : Users = {u}
  OBVIOUS
<1>2. Init => DiskInv
  BY InitScheduler, InitCommand DEF DiskInv
<1>3. DiskInv /\ [Next]_vars => DiskInv'
  BY <1>1, NextScheduler, NextCommand DEF DiskInv
<1>4. Init => Disk!Init
  BY InitType DEF TypeOK, Disk!Init
<1>5. DiskInv /\ [Next]_vars => [Disk!Next]_<<store, buf, read_block, write_block>>
  BY StepIsAtomic
<1>. QED
  BY <1>2, <1>3, <1>4, <1>5, PTL DEF Spec, ImplementsDisk, Disk!Spec

(***************************************************************************)
(* What simple_disk.H says of read(), for a single user.                   *)
(***************************************************************************)
THEOREM OneUserReads ==
    ASSUME \E u : Users = {u}
    PROVE  Spec => ReadReturnsBlock
<1>1. PICK u : Users = {u}
  OBVIOUS
<1>2. Init => DiskInv
  BY InitScheduler, InitCommand DEF DiskInv
<1>3. DiskInv /\ [Next]_vars => DiskInv'
  BY <1>1, NextScheduler, NextCommand DEF DiskInv
<1>4. DiskInv /\ [Next]_vars =>
         [\A t \in Users : TransferIn(t) => buf'[t] = store[read_block[t]]]_vars
  <2>. SUFFICES ASSUME DiskInv, NEW t \in Users, TransferIn(t)
                PROVE  buf'[t] = store[read_block[t]]
    OBVIOUS
  <2>1. Serves("READ") /\ device.block = read_block[t]
    BY TransferServed DEF TransferIn, Goto
  <2>. QED
    BY <2>1 DEF TransferIn, DiskInv, SchedulerInv, TypeOK
<1>. QED
  BY <1>2, <1>3, <1>4, PTL DEF Spec, ReadReturnsBlock
=============================================================================
