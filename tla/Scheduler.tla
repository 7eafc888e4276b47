------------------------------ MODULE Scheduler ------------------------------
(***************************************************************************)
(* The threads and the FIFO scheduler of mp5.  A thread runs bursts; after *)
(* each it hands the CPU over if its call of pass_on_CPU is compiled in,   *)
(* and fun1 and fun2 return after some bursts, into thread_shutdown.       *)
(* EFLAGS travel with the contexts: they decide whether the timer can      *)
(* interrupt a thread.                                                     *)
(***************************************************************************)
EXTENDS Integers, Sequences, SequencesExt

CONSTANTS
    Null,           \* what dequeue() of an empty queue returns
    Threads,
    StartOrder,     \* thread1, thread2, ... in main()
    Returning,      \* threads whose function returns (fun1, fun2)
    Bursts          \* bursts of a function that returns (10 in the code)

ASSUME SchedulerAssumption ==
    /\ StartOrder \in Seq(Threads) /\ StartOrder # << >>
    /\ Range(StartOrder) = Threads /\ IsInjective(StartOrder)
    /\ Null \notin Threads
    /\ Returning \subseteq Threads
    /\ Bursts \in Nat

VARIABLES
    passing,        \* threads whose call of pass_on_CPU is compiled in
    current,        \* current_thread: Null in the start code
    ready_queue,
    started,        \* main() has dispatched the first thread
    interrupts,     \* IF of the CPU
    eflags,         \* per thread: IF in its saved context
    burst,          \* per thread: finished bursts of a function that returns
    shut,           \* threads that went through thread_shutdown
    astray          \* thread_shutdown has returned, to address 0

vars == <<passing, current, ready_queue, started, interrupts, eflags, burst, shut, astray>>

\* setup_context pushes EFLAGS with every bit clear.
InitialFlag_set == TRUE
InitialFlag == FALSE

\* The committed kernel.C is the one with passing = {}.
Init ==
    /\ passing \in SUBSET Threads
    /\ current = Null
    /\ ready_queue = Tail(StartOrder)       \* add(thread2) .. add(thread4)
    /\ started = FALSE
    /\ interrupts = TRUE                    \* Machine::enable_interrupts()
    /\ eflags = [t \in Threads |-> InitialFlag]
    /\ burst = [t \in Threads |-> 0]
    /\ shut = {}
    /\ astray = FALSE

-----------------------------------------------------------------------------
(***************************************************************************)
(* The ready queue (queue.H: a linked list with head, tail and size) as a  *)
(* sequence, and Scheduler::terminate in its two versions.  Both loops     *)
(* rotate the queue: they take the first thread out and put it back at the *)
(* end unless it is the one that terminates.                               *)
(***************************************************************************)
Dequeued(q) == IF q = << >> THEN Null ELSE Head(q)
Remaining_all(q) == q
Remaining(q) == IF q = << >> THEN q ELSE Tail(q)

\* mp6: one dequeue per turn, as many turns as there are threads.
Rotate(q, t) == IF Head(q) # t THEN Append(Tail(q), Head(q)) ELSE Tail(q)
Terminated6_short(q, t) ==
    LET turn[i \in 0 .. Len(q)] == IF i = 0 THEN q ELSE Rotate(turn[i - 1], t)
    IN  IF q = << >> THEN q ELSE turn[Len(q) - 1]
Terminated6(q, t) ==
    LET turn[i \in 0 .. Len(q)] == IF i = 0 THEN q ELSE Rotate(turn[i - 1], t)
    IN  turn[Len(q)]

(***************************************************************************)
(* mp5: the thread in hand, rm, is taken before the loop and again at the  *)
(* end of every turn, i = size .. 0, so the thread that is in hand after   *)
(* the last turn is not put back.                                          *)
(***************************************************************************)
Turn5(s, t) ==
    LET back == IF s.rm # t THEN Append(s.queue, s.rm) ELSE s.queue
    IN  [queue |-> Remaining(back), rm |-> Dequeued(back)]

Terminated5(q, t) ==
    LET turn[i \in 0 .. Len(q)] ==
            IF i = 0 THEN [queue |-> Tail(q), rm |-> Head(q)] ELSE Turn5(turn[i - 1], t)
    IN  IF q = << >> THEN q ELSE turn[Len(q)].queue

-----------------------------------------------------------------------------
(***************************************************************************)
(* threads_low_switch_to: the context of the current thread is saved, if   *)
(* there is one, and the next one is loaded, EFLAGS included.              *)
(***************************************************************************)
SavedEflags(flag) ==
    IF current = Null THEN eflags ELSE [eflags EXCEPT ![current] = flag]

DispatchTo(t, flag) ==
    /\ current' = t
    /\ eflags' = SavedEflags(flag)
    /\ interrupts' = eflags'[t]

\* main() starts thread1.
Start ==
    /\ ~started
    /\ started' = TRUE
    /\ DispatchTo(Head(StartOrder), interrupts)
    /\ UNCHANGED <<passing, ready_queue, burst, shut, astray>>

\* What the CPU executes from address 0 on is no thread.
Runs(t) == current = t /\ ~astray

\* A burst of the loop in fun1 .. fun4, then pass_on_CPU or at once the next.
MayBurst_oneMore(t) == Runs(t) /\ (t \in Returning => burst[t] <= Bursts)
MayBurst(t) == Runs(t) /\ (t \in Returning => burst[t] < Bursts)

CountedBurst(t) ==
    burst' = IF t \in Returning THEN [burst EXCEPT ![t] = @ + 1] ELSE burst

BurstOnly(t) ==
    /\ MayBurst(t) /\ t \notin passing
    /\ CountedBurst(t)
    /\ UNCHANGED <<passing, current, ready_queue, started, interrupts, eflags, shut, astray>>

Resumed_first(q, t) == <<t>> \o q
Resumed(q, t) == Append(q, t)

\* resume(current), so that yield() finds a thread: at worst the same one.
BurstAndPass(t) ==
    /\ MayBurst(t) /\ t \in passing
    /\ CountedBurst(t)
    /\ DispatchTo(Head(Resumed(ready_queue, t)), interrupts)
    /\ ready_queue' = Tail(Resumed(ready_queue, t))
    /\ UNCHANGED <<passing, started, shut, astray>>

(***************************************************************************)
(* The function of a thread returns into thread_shutdown: interrupts off,  *)
(* terminate(), two releases of memory that do nothing, yield().  With no  *)
(* ready thread yield() returns, the thread is still current_thread, and   *)
(* thread_shutdown returns to the word above it on the stack: the argument *)
(* of the thread function, 0.                                              *)
(***************************************************************************)
Shutdown(t) ==
    LET queue == Terminated5(ready_queue, t)
    IN  /\ Runs(t) /\ t \in Returning /\ burst[t] = Bursts
        /\ shut' = shut \cup {t}
        /\ ready_queue' = Remaining(queue)
        /\ astray' = (queue = << >>)
        /\ IF queue = << >>
           THEN current' = current /\ interrupts' = FALSE /\ eflags' = eflags
           ELSE DispatchTo(Head(queue), FALSE)
        /\ UNCHANGED <<passing, started, burst>>

Next ==
    \/ Start
    \/ \E t \in Threads : BurstOnly(t) \/ BurstAndPass(t) \/ Shutdown(t)

Spec == Init /\ [][Next]_vars

\* The CPU keeps executing: what it executes next is determined, and a burst
\* of a thread that neither passes the CPU nor returns may go on for ever.
FairSpec == Spec /\ WF_vars(Next)

-----------------------------------------------------------------------------
(***************************************************************************)
(* Type invariant.                                                         *)
(***************************************************************************)
TypeOK ==
    /\ passing \subseteq Threads
    /\ current \in Threads \cup {Null}
    /\ ready_queue \in Seq(Threads)
    /\ started \in BOOLEAN /\ interrupts \in BOOLEAN
    /\ eflags \in [Threads -> BOOLEAN]
    /\ burst \in [Threads -> 0 .. Bursts]
    /\ shut \subseteq Threads
    /\ astray \in BOOLEAN

(***************************************************************************)
(* thread_shutdown gives back the stack it runs on.  A thread that went    *)
(* through it is neither queued nor dispatched again.  It goes on only if  *)
(* nothing was ready; then it has gone astray, and with it the system, for *)
(* the ready queue stays empty.  No thread is queued twice or while it is  *)
(* the current one.                                                        *)
(***************************************************************************)
ShutdownIsFinal ==
    /\ IsInjective(ready_queue)
    /\ current \notin Range(ready_queue)
    /\ shut \cap Range(ready_queue) = {}
    /\ astray <=> current \in shut
    /\ astray => ready_queue = << >>

(***************************************************************************)
(* Threads run with interrupts off, so the queue operations of the threads *)
(* are never interrupted though the scheduler masks nothing.               *)
(***************************************************************************)
Uninterrupted == started => ~interrupts

(***************************************************************************)
(* The terminate() of mp6, on every queue that occurs: a full rotation     *)
(* takes out the given thread, wherever it is, keeps the order of the      *)
(* others, and changes nothing when the thread is not in the queue.        *)
(***************************************************************************)
Terminate6Correct ==
    /\ \A i \in 1 .. Len(ready_queue) :
          Terminated6(ready_queue, ready_queue[i]) = RemoveAt(ready_queue, i)
    /\ \A t \in Threads \ Range(ready_queue) : Terminated6(ready_queue, t) = ready_queue

(***************************************************************************)
(* If every thread whose function does not return passes the CPU on, a     *)
(* ready thread runs at last, unless a termination loses it first.  In the *)
(* committed kernel no thread passes it: fun3 runs for ever and thread4    *)
(* never does.                                                             *)
(***************************************************************************)
Lost == Threads \ (Range(ready_queue) \cup {current} \cup shut)

ReadyRuns ==
    Threads \ Returning \subseteq passing =>
        \A t \in Threads : t \in Range(ready_queue) ~> (Runs(t) \/ t \in Lost)
=============================================================================
