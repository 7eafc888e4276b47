------------------------------ MODULE Kernel4 ------------------------------
(***************************************************************************)
(* The kernel of mp4: that of mp3 with a page table that lies in its own   *)
(* address space, and a test of two pools of virtual memory.  The page     *)
(* table is the module Paging, the pools are VirtualMemory: its operators  *)
(* are taken here for the memory of this machine.                          *)
(***************************************************************************)
EXTENDS Kernel

Utils   == INSTANCE Utils
Console == INSTANCE Console WITH CanRedirect <- TRUE

Say(m, s) == IF m.console.textmemptr THEN [m EXCEPT !.console = Console!puts(@, s)] ELSE Utils!abort(m)
_assert(m) == Utils!abort(Say(m, <<"!", "newline">>))

Machine  == INSTANCE Machine
Tables   == INSTANCE DescriptorTables
Timer    == INSTANCE Timer
Keyboard == INSTANCE Keyboard
Pool     == INSTANCE FramePools
Paging   == INSTANCE Paging WITH PageSize <- TableWords, ProcessFrames <- Mp4Size

-----------------------------------------------------------------------------
(***************************************************************************)
(* The handlers.  The page fault handler looks which pool the address is   *)
(* in, and only says so if there is none.                                  *)
(***************************************************************************)
Pools == {"code_pool", "heap_pool"}
Length == [p \in Pools |-> TableWords * TableWords]
Base == [p \in Pools |-> IF p = "code_pool" THEN (3 * Length[p]) \div 2 ELSE 3 * Length[p]]
is_legitimate(p, a) == a \in Base[p] .. Base[p] + Length[p] - 1

handle_fault(m) ==
    LET told == IF \E p \in m.vm_pools : is_legitimate(p, m.cr2) THEN m ELSE Say(m, Line("v"))
    IN  Say([told EXCEPT !.space = Paging!Fault(@, m.cr2)], Line("h"))

handle_exception(m, handler) ==
    IF handler = "pagefault" THEN handle_fault(m) ELSE Utils!abort(Say(m, Line("0")))
handle_interrupt(m, handler) ==
    CASE handler = "timer" -> Timer!TimerInterrupt(m)
      [] handler = "keyboard" -> IF m.constructed THEN Keyboard!KeyInterrupt(m) ELSE Utils!abort(m)

ExceptionHandler == INSTANCE Exceptions
InterruptHandler == INSTANCE Interrupts
IRQ_init(m) == [m EXCEPT !.pic = InterruptHandler!irq_remap(@)]

Processor == INSTANCE Processor WITH
    dispatch_interrupt <- InterruptHandler!dispatch_interrupt,
    dispatch_exception <- ExceptionHandler!dispatch_exception

-----------------------------------------------------------------------------
(***************************************************************************)
(* Accesses with paging on, and the pools on top of them.                  *)
(***************************************************************************)
Touched(m, a) == IF Paging!Mapped(m.space, a) THEN m ELSE Processor!Take([m EXCEPT !.cr2 = a], 14)
Store(m, a, w) == LET t == Touched(m, a) IN [t EXCEPT !.space = Paging!Stored(@, a, w)]
StoreAll(m, cells) == FoldLeft(LAMBDA p, c : Store(p, c[1], c[2]), m, cells)

VM(space, cur) == INSTANCE VirtualMemory WITH
    PageSize <- TableWords, ProcessFrames <- Mp4Size, machine <- space, vm_mem_pool_cur <- cur,
    regions <- {}, Sizes <- <<>>, Values <- <<>>, ReleasesUnfilled <- FALSE,
    MaxAllocations <- TableWords \div 2

VMPool(m, p) == [Say(m, Line("c")) EXCEPT !.vm_pools = @ \cup {p}, !.cur = (p :> -1) @@ @]

\* operator new: the bookkeeping page may be touched to find the next address.
Size(m) == RegionSize * m.i
allocate(m, p) ==
    LET start == VM(m.space, m.cur)!CurAddr(p)
        next  == VM(m.space, m.cur)!NextAddr(p, Size(m))
        kept  == StoreAll(m, <<<<Base[p] + m.cur[p] + 1, start>>, <<Base[p] + m.cur[p] + 2, next>>>>)
    IN  IF is_legitimate(p, next) THEN [Say(kept, Line("a")) EXCEPT !.cur[p] = @ + 2, !.arr = start]
        ELSE [Say(m, Line("x")) EXCEPT !.arr = 0]

release(m, p) ==
    LET entry == VM(m.space, m.cur)!EntryOf(p, m.arr)
        end   == Paging!Load(m.space, Base[p] + entry + 1)
        freed == VM(m.space, m.cur)!FreedPages((end - m.arr) \div TableWords)
    IN  [Say(m, Line("r")) EXCEPT
            !.space = FoldLeft(LAMBDA s, c : Paging!FreePage(s, m.arr + (c - 1) * TableWords),
                               @, [c \in 1 .. freed |-> c]),
            !.i = @ + 1]

-----------------------------------------------------------------------------
(***************************************************************************)
(* main, and the test that it calls for each of the two pools.             *)
(***************************************************************************)
Boot ==
    <<"constructors", "GDT", "Console", "IDT", "exceptions", "IRQ", "interrupts", "redirect",
      "divide", "timer", "timer handler", "keyboard", "enable">>
Test == <<"new", "legitimate", "fill", "check", "delete">>
main == Boot \o
    <<"kernel_mem_pool", "info_frame", "process_mem_pool", "hole", "fault handler", "page table",
      "load", "hello", "code_pool", "heap_pool", "test code_pool">> \o Test \o
    <<"test heap_pool">> \o Test \o <<"passed">>

GenerateVMPoolMemoryReferences(m) ==
    [m EXCEPT !.i = 1, !.current_pool = IF @ = NULL THEN "code_pool" ELSE "heap_pool"]

\* arr lies one byte behind a page, so an aligned read of arr[j] finds no odd word.
Cells(m) == [j \in 1 .. Size(m) |-> <<m.arr + j - 1, 2 * j>>]
AllRight(m) == \A j \in 1 .. Size(m) : /\ Paging!Mapped(m.space, m.arr + j - 1)
                                       /\ Paging!Load(m.space, m.arr + j - 1) = 2 * j

\* The free frames of the pool are what Paging takes its frames from.
FreeFrames(m) ==
    LET p == m.pools[Pool!Index(m, "process")] IN {f \in Pool!FramesIn(p) : p.bits[f] = Pool!FREE}
PageTable(m) ==
    LET directory == Pool!get_frames(m, "kernel", 1)
        table     == Pool!get_frames(directory, "kernel", 1)
    IN  [Say(table, Line("p")) EXCEPT !.page_directory = directory.frame,
                                      !.space = [Paging!Booted EXCEPT !.free = FreeFrames(m)]]

Execute(s, m) ==
    CASE s = "constructors" -> [m EXCEPT !.constructed = TRUE, !.keyboard.key_pressed = FALSE]
      [] s = "GDT"         -> Tables!gdt_init(m)
      [] s = "Console"     -> [m EXCEPT !.console = Console!init(@, 15, 0)]
      [] s = "IDT"         -> Tables!idt_init(m)
      [] s = "exceptions"  -> ExceptionHandler!init_dispatcher(m)
      [] s = "IRQ"         -> IRQ_init(m)
      [] s = "interrupts"  -> InterruptHandler!init_dispatcher(m)
      [] s = "redirect"    -> [m EXCEPT !.console = Console!output_redirection(@, TRUE)]
      [] s = "divide"      -> ExceptionHandler!register_handler(m, 0, "divide")
      [] s = "timer"       -> Timer!Constructed(m)
      [] s = "timer handler" -> InterruptHandler!register_handler(m, 0, "timer")
      [] s = "keyboard"    -> InterruptHandler!register_handler(m, 1, "keyboard")
      [] s = "enable"      -> Machine!enable_interrupts(Say(m, Line("k")))
      [] s = "kernel_mem_pool"  -> Pool!ContFramePool(m, "kernel", 0, TableWords, 0, 0)
      [] s = "info_frame"  -> LET got == Pool!get_frames(m, "kernel", Pool!NeededInfoFrames(Mp4Size))
                              IN  [got EXCEPT !.info_frame = got.frame]
      [] s = "process_mem_pool" -> Pool!ContFramePool(m, "process", TableWords, Mp4Size, m.info_frame,
                                                      Pool!NeededInfoFrames(Mp4Size))
      [] s = "hole"        -> Pool!mark_inaccessible(m, "process", TableWords + HoleOffset, HoleSize)
      [] s = "fault handler" -> ExceptionHandler!register_handler(m, 14, "pagefault")
      [] s = "page table"  -> PageTable(m)
      [] s = "load"        -> [Say(m, Line("P")) EXCEPT !.cr3 = m.page_directory, !.paging = TRUE]
      [] s \in Pools       -> VMPool(m, s)
      [] s = "new"         -> allocate(m, m.current_pool)
      [] s = "legitimate"  -> [Say(m, Line("l")) EXCEPT !.failed = ~is_legitimate(m.current_pool, m.arr)]
      [] s = "fill"        -> StoreAll(m, Cells(m))
      [] s = "check"       -> [m EXCEPT !.failed = ~AllRight(m)]
      [] s = "delete"      -> release(m, m.current_pool)
      [] s \in {"test code_pool", "test heap_pool"} -> GenerateVMPoolMemoryReferences(m)
      [] s \in {"hello", "passed"} -> Say(m, Line("H"))

Following(at, m) == IF main[at] = "delete" /\ m.i < Regions THEN at - Len(Test) + 1 ELSE at + 1
=============================================================================
