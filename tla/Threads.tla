------------------------------ MODULE Threads ------------------------------
(***************************************************************************)
(* What happens to threads before the scheduler of mp5 and mp6 takes over: *)
(* their stacks are set up to look like the stack of an interrupted        *)
(* thread, and the first dispatch loads such a context into the processor. *)
(* A stack is a function from the addresses that were pushed to words.     *)
(***************************************************************************)
LOCAL INSTANCE Integers
LOCAL INSTANCE Sequences
LOCAL INSTANCE SequencesExt
LOCAL INSTANCE TLC

CONSTANTS Say(_, _),
          new(_, _)         \* operator new of the kernel

KernelCS == 8
KernelDS == 16
StackPointer == <<"e", "newline">>

push(t, val) == [t EXCEPT !.esp = @ - 4, !.words = ((t.esp - 4) :> val) @@ @]

\* Its argument, where the function returns to, the function; EFLAGS with
\* interrupts off; where it starts; the registers and the segments.
Context_interrupted(fun) ==
    <<0, "thread_shutdown", fun, 512, KernelCS, "thread_start", 0, 0>>
    \o <<0, 0, 0, 0, 0, 0, 0, 0>> \o <<KernelDS, KernelDS, 0, 0>>
Context(fun) ==
    <<0, "thread_shutdown", fun, 0, KernelCS, "thread_start", 0, 0>>
    \o <<0, 0, 0, 0, 0, 0, 0, 0>> \o <<KernelDS, KernelDS, 0, 0>>

setup_context(t, fun) == FoldLeft(push, t, Context(fun))

\* stack = new char[1024]; new Thread(fun, stack, 1024)
StackSize == 1024
SizeOfThread == 24

Thread(m, fun) ==
    LET allocated == new(new(m, StackSize), SizeOfThread)
        stack     == allocated.objects[Len(allocated.objects) - 1].address
        t         == [thread_id |-> Len(m.threads), stack |-> stack, stack_size |-> StackSize,
                      esp |-> stack + StackSize, words |-> <<>>]
    IN  IF allocated.halted THEN allocated
        ELSE [Say(allocated, StackPointer) EXCEPT !.threads = Append(@, setup_context(t, fun))]

(***************************************************************************)
(* The first dispatch: restore_registers pops the segments, the general    *)
(* registers and eight bytes more, iret the rest; thread_start then        *)
(* returns into the function of the thread.                                *)
(***************************************************************************)
Above(t, n) == t.words[t.esp + 4 * n]

dispatch_to(m, i) ==
    LET t == m.threads[i]
    IN  [m EXCEPT !.current_thread = i,
                  !.ds = Above(t, 3),
                  !.eip = Above(t, 14), !.cs = Above(t, 15),
                  !.interrupts_enabled = Above(t, 16) \div 512 % 2 = 1,
                  !.returns = <<Above(t, 17), Above(t, 18)>>]

(***************************************************************************)
(* A queue puts every element in a node of its own, and keeps its size.    *)
(***************************************************************************)
SizeOfNode == 8

enqueue(m, val) ==
    LET allocated == new(m, SizeOfNode)
    IN  IF allocated.halted THEN allocated ELSE [allocated EXCEPT !.ready_queue = Append(@, val)]
=============================================================================
