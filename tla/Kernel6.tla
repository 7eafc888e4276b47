------------------------------ MODULE Kernel6 ------------------------------
(***************************************************************************)
(* The kernel of mp6: that of mp5 with a disk, whose interrupts nothing    *)
(* handles, and with its output redirected.  After the first dispatch      *)
(* comes the module BlockingDisk.                                          *)
(***************************************************************************)
EXTENDS Kernel

Utils   == INSTANCE Utils
Console == INSTANCE Console WITH CanRedirect <- TRUE

Say(m, s) == IF m.console.textmemptr THEN [m EXCEPT !.console = Console!puts(@, s)] ELSE Utils!abort(m)
_assert(m) == Utils!abort(Say(m, <<"!", "newline">>))

Machine == INSTANCE Machine
Tables  == INSTANCE DescriptorTables
Timer   == INSTANCE Timer

MemPool == INSTANCE BumpPools

handle_exception(m, handler) == Utils!abort(Say(m, Line("0")))
handle_interrupt(m, handler) == Timer!TimerInterrupt(m)

ExceptionHandler == INSTANCE Exceptions
InterruptHandler == INSTANCE Interrupts
IRQ_init(m) == [m EXCEPT !.pic = InterruptHandler!irq_remap(@)]

Processor == INSTANCE Processor WITH
    dispatch_interrupt <- InterruptHandler!dispatch_interrupt,
    dispatch_exception <- ExceptionHandler!dispatch_exception

-----------------------------------------------------------------------------
(***************************************************************************)
(* operator new: MEMORY_POOL must have been set.                           *)
(***************************************************************************)
new(m, size) == IF m.memory_pool THEN MemPool!allocate(m, size) ELSE Utils!abort(m)

Thread == INSTANCE Threads
Disk   == INSTANCE SimpleDisk

SYSTEM_DISK_SIZE == 10485760
SizeOfBlockingDisk == Disk!SizeOfDisk + 12
BlockingDisk(m) ==
    Say(Disk!SimpleDisk(new(m, SizeOfBlockingDisk), Disk!Master, SYSTEM_DISK_SIZE), Line("B"))

fun == <<"fun1", "fun2", "fun3", "fun4">>
SizeOfScheduler == 16

Boot ==
    <<"GDT", "Console", "IDT", "exceptions", "IRQ", "interrupts", "redirect", "divide",
      "frame pool", "memory pool", "timer", "timer handler", "new Scheduler", "new BlockingDisk",
      "enable">>
main == Boot \o <<"hello", "new Thread", "add", "start">>

Execute(s, m) ==
    CASE s = "GDT"         -> Tables!gdt_init(m)
      [] s = "Console"     -> [m EXCEPT !.console = Console!init(@, 15, 0)]
      [] s = "IDT"         -> Tables!idt_init(m)
      [] s = "exceptions"  -> ExceptionHandler!init_dispatcher(m)
      [] s = "IRQ"         -> IRQ_init(m)
      [] s = "interrupts"  -> InterruptHandler!init_dispatcher(m)
      [] s = "redirect"    -> [m EXCEPT !.console = Console!output_redirection(@, TRUE)]
      [] s = "divide"      -> ExceptionHandler!register_handler(m, 0, "divide")
      [] s = "frame pool"  -> MemPool!FramePool(m)
      [] s = "memory pool" -> MemPool!MemPool(Say(m, Line("m")), 256)
      [] s = "timer"       -> Timer!Constructed(m)
      [] s = "timer handler" -> InterruptHandler!register_handler(m, 0, "timer")
      [] s = "new Scheduler" -> Say(new(m, SizeOfScheduler), Line("S"))
      [] s = "new BlockingDisk" -> BlockingDisk(m)
      [] s = "enable"      -> Machine!enable_interrupts(m)
      [] s = "hello"       -> Say(m, Line("H"))
      [] s = "new Thread"  -> Thread!Thread(Say(m, Line("C")), fun[Len(m.threads) + 1])
      [] s = "add"         -> Thread!enqueue(m, Len(m.ready_queue) + 2)
      [] s = "start"       -> Thread!dispatch_to(Say(m, Line("1")), 1)

\* dispatch_to, the last statement, does not come back to main.
Following(at, m) ==
    IF \/ main[at] = "new Thread" /\ Len(m.threads) + 1 < Threads
       \/ main[at] = "add" /\ Len(m.ready_queue) + 2 < Threads
    THEN at ELSE at + 1
=============================================================================
