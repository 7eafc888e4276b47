------------------------------ MODULE Kernel7 ------------------------------
(***************************************************************************)
(* The kernel of mp7: a disk, whose interrupts a handler consumes, and a   *)
(* file system that reads and writes blocks for ever.  What it makes of    *)
(* the blocks is the module FileSystem; here are the driver of the disk    *)
(* and the interrupts between its steps.                                   *)
(***************************************************************************)
EXTENDS Kernel

Utils   == INSTANCE Utils
Console == INSTANCE Console WITH CanRedirect <- TRUE

Say(m, s) == IF m.console.textmemptr THEN [m EXCEPT !.console = Console!puts(@, s)] ELSE Utils!abort(m)
_assert(m) == Utils!abort(Say(m, <<"!", "newline">>))

Machine == INSTANCE Machine
Tables  == INSTANCE DescriptorTables
Timer   == INSTANCE Timer

MemPool == INSTANCE BumpPools

handle_exception(m, handler) == Utils!abort(Say(m, Line("0")))
handle_interrupt(m, handler) == IF handler = "timer" THEN Timer!TimerInterrupt(m) ELSE m

ExceptionHandler == INSTANCE Exceptions
InterruptHandler == INSTANCE Interrupts
IRQ_init(m) == [m EXCEPT !.pic = InterruptHandler!irq_remap(@)]

Processor == INSTANCE Processor WITH
    dispatch_interrupt <- InterruptHandler!dispatch_interrupt,
    dispatch_exception <- ExceptionHandler!dispatch_exception

-----------------------------------------------------------------------------
(***************************************************************************)
(* operator new: MEMORY_POOL must have been set.                           *)
(***************************************************************************)
new(m, size) == IF m.memory_pool THEN MemPool!allocate(m, size) ELSE Utils!abort(m)

Disk == INSTANCE SimpleDisk

SYSTEM_DISK_SIZE == 10485760
SizeOfFileSystem == 24

-----------------------------------------------------------------------------
(***************************************************************************)
(* main.  Format writes blocks, Mount reads them, and the exercise does    *)
(* both without an end; the block is the next of a list.  read() and       *)
(* write() issue a command, spin until the controller is ready, and move   *)
(* the block.  The controller ends a write with an interrupt.              *)
(***************************************************************************)
Boot ==
    <<"GDT", "Console", "IDT", "exceptions", "IRQ", "interrupts", "redirect", "divide",
      "frame pool", "memory pool", "timer", "timer handler", "new SimpleDisk", "silencer",
      "new FileSystem", "enable", "hello">>
Reads  == <<"read", "wait", "read data">>
Writes == <<"write", "wait", "write data">>
main == Boot \o Writes \o Reads \o Writes \o Reads

Block(m) == Blocks[(m.i % Len(Blocks)) + 1]
Issue(m, op) == Disk!issue_operation(m, op, Block(m))
Moved(m) == [Disk!Transfer(m) EXCEPT !.i = (@ + 1) % Len(Blocks)]

Execute(s, m) ==
    CASE s = "GDT"         -> Tables!gdt_init(m)
      [] s = "Console"     -> [m EXCEPT !.console = Console!init(@, 15, 0)]
      [] s = "IDT"         -> Tables!idt_init(m)
      [] s = "exceptions"  -> ExceptionHandler!init_dispatcher(m)
      [] s = "IRQ"         -> IRQ_init(m)
      [] s = "interrupts"  -> InterruptHandler!init_dispatcher(m)
      [] s = "redirect"    -> [m EXCEPT !.console = Console!output_redirection(@, TRUE)]
      [] s = "divide"      -> ExceptionHandler!register_handler(m, 0, "divide")
      [] s = "frame pool"  -> MemPool!FramePool(m)
      [] s = "memory pool" -> MemPool!MemPool(Say(m, Line("m")), 256)
      [] s = "timer"       -> Timer!Constructed(m)
      [] s = "timer handler" -> InterruptHandler!register_handler(m, 0, "timer")
      [] s = "new SimpleDisk" -> Disk!SimpleDisk(new(m, Disk!SizeOfDisk), Disk!Master, SYSTEM_DISK_SIZE)
      [] s = "silencer"    -> InterruptHandler!register_handler(m, 14, "silencer")
      [] s = "new FileSystem" -> Say(new(m, SizeOfFileSystem), Line("F"))
      [] s = "enable"      -> Machine!enable_interrupts(m)
      [] s = "hello"       -> Say(m, Line("H"))
      [] s = "read"        -> Issue(m, Disk!READ)
      [] s = "write"       -> Issue(m, Disk!WRITE)
      [] s = "wait"        -> m
      [] s = "read data"   -> Moved(m)
      [] s = "write data"  -> [Moved(m) EXCEPT !.pic = InterruptHandler!Requested(@, 14)]

Following(at, m) ==
    IF main[at] = "wait" /\ ~Disk!is_ready(m) THEN at
    ELSE IF at = Len(main) THEN Len(main) + 1 - Len(Writes \o Reads) ELSE at + 1
=============================================================================
