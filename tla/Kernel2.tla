------------------------------ MODULE Kernel2 ------------------------------
(***************************************************************************)
(* The kernel of mp2: a console, a pool of frames, and a test that takes   *)
(* frames on the way down a recursion, fills them with its depth, checks   *)
(* and releases them on the way up.  Interrupts are never enabled.         *)
(***************************************************************************)
EXTENDS Kernel

Utils   == INSTANCE Utils
Console == INSTANCE Console WITH CanRedirect <- FALSE

\* Without its pointer to the text memory the console writes somewhere else.
Say(m, s) == IF m.console.textmemptr THEN [m EXCEPT !.console = Console!puts(@, s)] ELSE Utils!abort(m)
_assert(m) == Utils!abort(Say(m, <<"!", "newline">>))

Pool     == INSTANCE FramePools
Physical == INSTANCE PhysicalMemory

main == <<"Console", "kernel_mem_pool", "hello", "test_memory", "call", "return", "done">>

-----------------------------------------------------------------------------
(***************************************************************************)
(* test_memory(pool, i): a call for each i from Allocations to 0; a frame  *)
(* of the stack is what the call with that i holds.  A word stands for the *)
(* words of a frame.                                                       *)
(***************************************************************************)
FramesFor(i) == (i % 4) + 1
Held(call) == call.frame .. call.frame + FramesFor(call.value) - 1

Call(m) ==
    LET got  == Pool!get_frames(Say(m, Utils!int2str(m.i)), "kernel", FramesFor(m.i))
        call == [frame |-> got.frame, value |-> m.i]
        full == FoldSet(LAMBDA f, p : Physical!Put(p, f, 0, call.value), got, Held(call))
    IN  IF m.i = 0 THEN m ELSE [full EXCEPT !.i = @ - 1, !.stack = <<call>> \o @]

Return(m) ==
    LET call == m.stack[1]
    IN  IF m.stack = <<>> THEN m
        ELSE IF \E f \in Held(call) : Physical!Word(m, f, 0) # call.value
             THEN [Say(m, Line("E")) EXCEPT !.failed = TRUE]
        ELSE [Pool!release_frames(m, call.frame) EXCEPT !.stack = Tail(@)]

Execute(s, m) ==
    CASE s = "Console"         -> [m EXCEPT !.console = Console!init(@, 15, 0)]
      [] s = "kernel_mem_pool" -> Pool!ContFramePool(m, "kernel", Mp2Base, Mp2Size, 0, 0)
      [] s = "hello"           -> Say(m, Line("H"))
      [] s = "test_memory"     -> [m EXCEPT !.i = Allocations]
      [] s = "call"            -> Call(m)
      [] s = "return"          -> Return(m)
      [] s = "done"            -> Say(m, Line("D"))

\* Where control goes from statement at, as the machine is before it.
Following(at, m) ==
    IF (main[at] = "call" /\ m.i > 0) \/ (main[at] = "return" /\ m.stack # <<>>) THEN at ELSE at + 1
=============================================================================
