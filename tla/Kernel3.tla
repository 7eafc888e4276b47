------------------------------ MODULE Kernel3 ------------------------------
(***************************************************************************)
(* The kernel of mp3: it sets up the processor, a timer and a keyboard,    *)
(* enables interrupts, turns on paging, and then writes and reads memory   *)
(* that is not mapped yet.                                                 *)
(***************************************************************************)
EXTENDS Kernel

Utils   == INSTANCE Utils
Console == INSTANCE Console WITH CanRedirect <- FALSE

Say(m, s) == IF m.console.textmemptr THEN [m EXCEPT !.console = Console!puts(@, s)] ELSE Utils!abort(m)
_assert(m) == Utils!abort(Say(m, <<"!", "newline">>))

Machine  == INSTANCE Machine
Tables   == INSTANCE DescriptorTables
Timer    == INSTANCE Timer
Keyboard == INSTANCE Keyboard

Pool  == INSTANCE FramePools
PageTable == INSTANCE DirectPaging WITH get_frames <- Pool!get_frames

-----------------------------------------------------------------------------
(***************************************************************************)
(* The handlers of this kernel.  The one for a division by zero stops it.  *)
(***************************************************************************)
handle_exception(m, handler) ==
    IF handler = "pagefault" THEN PageTable!handle_fault(m) ELSE Utils!abort(Say(m, Line("0")))
handle_interrupt(m, handler) ==
    CASE handler = "timer" -> Timer!TimerInterrupt(m)
      [] handler = "keyboard" -> IF m.constructed THEN Keyboard!KeyInterrupt(m) ELSE Utils!abort(m)

ExceptionHandler == INSTANCE Exceptions
InterruptHandler == INSTANCE Interrupts
IRQ_init(m) == [m EXCEPT !.pic = InterruptHandler!irq_remap(@)]

Processor == INSTANCE Processor WITH
    dispatch_interrupt <- InterruptHandler!dispatch_interrupt,
    dispatch_exception <- ExceptionHandler!dispatch_exception

-----------------------------------------------------------------------------
(***************************************************************************)
(* An access with paging on.  An address is <<directory index, table       *)
(* index, word>>; it is translated through the directory in cr3; a fault   *)
(* leaves the address in cr2, and the access is made again.                *)
(***************************************************************************)
Physical == INSTANCE PhysicalMemory

PageFault == 14

PDE(m, a) == Physical!Word(m, m.cr3, a[1])
PTE(m, a) == Physical!Word(m, Physical!FrameOf(PDE(m, a)), a[2])
Mapped(m, a) == Physical!Present(PDE(m, a)) /\ Physical!Present(PTE(m, a))

Touched(m, a) == IF Mapped(m, a) THEN m ELSE Processor!Take([m EXCEPT !.cr2 = a], PageFault)
Load(m, a) == Physical!Word(m, Physical!FrameOf(PTE(m, a)), a[3])
Store(m, a, w) == LET t == Touched(m, a) IN Physical!Put(t, Physical!FrameOf(PTE(t, a)), a[3], w)

-----------------------------------------------------------------------------
(***************************************************************************)
(* main, after the constructors of static objects.  foo[i] is word         *)
(* i % Entries of the pages that follow the shared memory.                 *)
(***************************************************************************)
Boot_enableFirst ==
    <<"constructors", "GDT", "Console", "IDT", "exceptions", "IRQ", "interrupts", "divide",
      "timer", "enable", "timer handler", "keyboard">>
Boot ==
    <<"constructors", "GDT", "Console", "IDT", "exceptions", "IRQ", "interrupts", "divide",
      "timer", "timer handler", "keyboard", "enable">>
main == Boot \o
    <<"kernel_mem_pool", "info_frame", "process_mem_pool", "hole", "fault handler",
      "page table", "load", "paging", "hello", "write", "check", "verdict", "done">>

foo(i) == <<1, i \div Entries, i % Entries>>

Write(m) == IF m.i = Accesses THEN [m EXCEPT !.i = 0] ELSE [Store(m, foo(m.i), m.i) EXCEPT !.i = @ + 1]

Check(m) ==
    LET t == Touched(m, foo(m.i))
    IN  IF m.i = Accesses THEN m
        ELSE IF Load(t, foo(m.i)) = m.i THEN [t EXCEPT !.i = @ + 1]
        ELSE [Say(t, Utils!int2str(m.i)) EXCEPT !.failed = TRUE]

Execute(s, m) ==
    CASE s = "constructors" -> [m EXCEPT !.constructed = TRUE, !.keyboard.key_pressed = FALSE]
      [] s = "GDT"         -> Tables!gdt_init(m)
      [] s = "Console"     -> [m EXCEPT !.console = Console!init(@, 15, 0)]
      [] s = "IDT"         -> Tables!idt_init(m)
      [] s = "exceptions"  -> ExceptionHandler!init_dispatcher(m)
      [] s = "IRQ"         -> IRQ_init(m)
      [] s = "interrupts"  -> InterruptHandler!init_dispatcher(m)
      [] s = "divide"      -> ExceptionHandler!register_handler(m, 0, "divide")
      [] s = "timer"       -> Timer!Constructed(m)
      [] s = "timer handler" -> InterruptHandler!register_handler(m, 0, "timer")
      [] s = "keyboard"    -> InterruptHandler!register_handler(m, 1, "keyboard")
      [] s = "enable"      -> Machine!enable_interrupts(m)
      [] s = "kernel_mem_pool"  -> Pool!ContFramePool(m, "kernel", Entries \div 2, Entries \div 2, 0, 0)
      [] s = "info_frame"  -> LET got == Pool!get_frames(m, "kernel", Pool!NeededInfoFrames(Mp3Size))
                              IN  [got EXCEPT !.info_frame = got.frame]
      [] s = "process_mem_pool" -> Pool!ContFramePool(m, "process", Entries, Mp3Size, m.info_frame,
                                                      Pool!NeededInfoFrames(Mp3Size))
      [] s = "hole"        -> Pool!mark_inaccessible(m, "process", Entries + HoleOffset, HoleSize)
      [] s = "fault handler" -> ExceptionHandler!register_handler(m, PageFault, "pagefault")
      [] s = "page table"  -> PageTable!PageTable(m)
      [] s = "load"        -> PageTable!load(m)
      [] s = "paging"      -> PageTable!enable_paging(m)
      [] s = "write"       -> Write(m)
      [] s = "check"       -> Check(m)
      [] s = "verdict"     -> IF m.i = Accesses THEN Say(m, Line("P")) ELSE m
      [] s \in {"hello", "done"} -> Say(m, Line("H"))

Following_inclusive(at, m) ==
    IF main[at] \in {"write", "check"} /\ m.i <= Accesses /\ ~m.failed THEN at ELSE at + 1
Following(at, m) ==
    IF main[at] \in {"write", "check"} /\ m.i < Accesses /\ ~m.failed THEN at ELSE at + 1
=============================================================================
