---------------------------- MODULE DirectPaging ----------------------------
(***************************************************************************)
(* The page table of mp3.  The directory and the page tables lie in frames *)
(* of the kernel pool, in memory that is mapped to itself, so the handler  *)
(* writes them at their physical addresses; pages come from the process    *)
(* pool.  An address is <<directory index, table index, word>>.            *)
(***************************************************************************)
LOCAL INSTANCE Integers
LOCAL INSTANCE Sequences

CONSTANTS Entries,                  \* entries of a table, 1024
          Say(_, _),
          get_frames(_, _, _)       \* of the pool with this name

LOCAL INSTANCE PhysicalMemory

ConstructedPageTable == <<"p", "newline">>
LoadedPageTable == <<"l", "newline">>
EnabledPaging == <<"e", "newline">>
HandledFault == <<"h", "newline">>
FrameShortage == <<"f", "newline">>

-----------------------------------------------------------------------------
(***************************************************************************)
(* PageTable(): the shared memory, one table's worth of frames, is mapped  *)
(* to itself.  load() and enable_paging() set the control registers.       *)
(***************************************************************************)
PageTable(m) ==
    LET withDirectory == get_frames(m, "kernel", 1)
        directory     == withDirectory.frame
        withTable     == get_frames(withDirectory, "kernel", 1)
        table         == withTable.frame
        shared        == Fill(withTable, table, 0 .. Entries - 1, Mapping)
        first         == Put(shared, directory, 0, Mapping(table))
        others        == Fill(first, directory, 1 .. Entries - 1, LAMBDA i : Unmapped)
    IN  [Say(others, ConstructedPageTable) EXCEPT !.page_directory = directory]

load(m) == [Say(m, LoadedPageTable) EXCEPT !.cr3 = m.page_directory]
enable_paging(m) == [Say(m, EnabledPaging) EXCEPT !.paging = TRUE]

(***************************************************************************)
(* handle_fault: an absent table is given a frame, which is not cleared,   *)
(* then the page is given one; neither answer of get_frames is acted upon. *)
(***************************************************************************)
WithTable_ofProcess(m, a) ==
    LET taken == get_frames(m, "process", 1)
    IN  IF Present(Word(m, m.page_directory, a[1])) THEN m
        ELSE Put(taken, m.page_directory, a[1], Mapping(taken.frame))
WithTable(m, a) ==
    LET taken == get_frames(m, "kernel", 1)
    IN  IF Present(Word(m, m.page_directory, a[1])) THEN m
        ELSE Put(taken, m.page_directory, a[1], Mapping(taken.frame))

WithPage(m, a) ==
    LET taken == get_frames(m, "process", 1)
        told  == IF taken.frame = 0 THEN Say(taken, FrameShortage) ELSE taken
    IN  Put(told, FrameOf(Word(m, m.page_directory, a[1])), a[2], Mapping(taken.frame))

handle_fault(m) == Say(WithPage(WithTable(m, m.cr2), m.cr2), HandledFault)
=============================================================================
