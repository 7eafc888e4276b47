------------------------------- MODULE Kernel -------------------------------
(***************************************************************************)
(* What the kernels of mp2 to mp7 have in common: the sizes of the machine *)
(* and the machine as the boot loader leaves it.  A kernel is a list of    *)
(* statements, main, with what each does to the machine, and where control *)
(* goes after it; a driver is an instance of its module.                   *)
(***************************************************************************)
EXTENDS Integers, Sequences, FiniteSets, SequencesExt, TLC

CONSTANTS
    Columns, Rows, TabStop,     \* the screen
    Hz, Seconds,                \* the timer: 100 ticks make a second
    Allocations,                \* test_memory of mp2: 32
    Mp2Base, Mp2Size,           \* its kernel pool: frames 512 .. 1023
    Entries,                    \* mp3: entries of a page table, 1024
    Mp3Size, Accesses,          \* its process pool; words it writes
    HoleOffset, HoleSize,       \* the hole in it, from its first frame
    TableWords, Mp4Size,        \* mp4: words of a page; its process pool
    Regions, RegionSize,        \* its test: 49 regions of i * 100 words
    Threads,                    \* threads that mp5 and mp6 start: 4
    BlockNumbers                \* blocks that mp7 reads and writes

ASSUME KernelAssumption ==
    /\ {Columns, Rows, TabStop, Hz, Seconds, Mp2Size, Entries, Mp3Size, TableWords, Mp4Size,
        RegionSize, Threads} \subseteq Nat \ {0}
    /\ {Allocations, Mp2Base, Accesses, HoleOffset, HoleSize, Regions} \subseteq Nat
    /\ BlockNumbers \subseteq 0 .. 20479 /\ BlockNumbers # {}

NULL == "null"

\* In this order.
Blocks == SetToSortSeq(BlockNumbers, <)

LOCAL Screen == INSTANCE Console WITH CanRedirect <- FALSE
PIC == INSTANCE Interrupts WITH Say <- LAMBDA m, s : m, _assert <- LAMBDA m : m,
                                handle_interrupt <- LAMBDA m, h : m
LOCAL Board == INSTANCE Keyboard
LOCAL Controller == INSTANCE SimpleDisk

\* Interrupts are off, static variables are zero, memory is zero.
PowerOn ==
    [interrupts_enabled |-> FALSE, halted |-> FALSE,
     console |-> Screen!Untouched,
     gdt |-> <<>>, idt |-> <<>>, idt_loaded |-> FALSE,
     exceptions |-> [n \in 0 .. 31 |-> NULL], handlers |-> PIC!NoHandlers, pic |-> PIC!BIOSVectors,
     timer |-> [seconds |-> 0, ticks |-> 0], divisor |-> <<0, 0>>,
     keyboard |-> Board!SimpleKeyboard, constructed |-> FALSE, controller |-> <<>>,
     pools |-> <<>>, frame |-> 0, info_frame |-> 0,
     memory |-> <<>>, page_directory |-> 0, cr3 |-> 0, paging |-> FALSE, cr2 |-> <<>>,
     i |-> 0, failed |-> FALSE, stack |-> <<>>,
     vm_pools |-> {}, current_pool |-> NULL, space |-> NULL, cur |-> <<>>, arr |-> 0,
     next_free_frame |-> 0, start_address |-> 0, memory_pool |-> FALSE, objects |-> <<>>,
     threads |-> <<>>, ready_queue |-> <<>>, current_thread |-> 0,
     ds |-> 0, eip |-> NULL, cs |-> 0, returns |-> <<>>,
     disk_id |-> 0, disk_size |-> 0, ide |-> Controller!Quiet]

Line(ch) == <<ch, "newline">>
=============================================================================
