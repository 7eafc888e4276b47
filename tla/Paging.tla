------------------------------- MODULE Paging -------------------------------
(***************************************************************************)
(* The two-level page table of mp4.  A machine is its physical memory,     *)
(* word by word, and the free frames of the process pool.  An entry of a   *)
(* page table or of the page directory is frame * PAGE_SIZE plus flag      *)
(* bits, and nothing tells it from any other word.  A page has PageSize    *)
(* words and a table PageSize entries (1024 in the code); addresses count  *)
(* words.  Regions start one byte after a page does: a word stands for     *)
(* what the client writes at one place, and for the entry that an aligned  *)
(* read of the same place finds there.                                     *)
(***************************************************************************)
EXTENDS Integers, FiniteSets, FiniteSetsExt

CONSTANTS PageSize,         \* words of a page, entries of a table
          ProcessFrames     \* frames of the process pool

ASSUME PagingAssumption ==
    PageSize \in Nat /\ PageSize > 3 /\ PageSize % 2 = 0 /\ ProcessFrames \in Nat

\* The shared, directly mapped memory is one table's worth of frames.
Process == PageSize .. PageSize + ProcessFrames - 1
Frames  == 0 .. PageSize + ProcessFrames - 1
Directory   == 2        \* the frames the kernel pool gives to PageTable()
DirectTable == 3
Words == 0 .. PageSize - 1
SelfEntry  == PageSize - 1   \* the directory entry that points to the directory
AddressSpace == PageSize * PageSize * PageSize

PDIndex(a) == a \div (PageSize * PageSize)
PTIndex(a) == (a \div PageSize) % PageSize
Offset(a)  == a % PageSize

Entry(f)   == f * PageSize + 3      \* PTE_PRESENT | PTE_WRITE
NotPresent == 2                     \* PTE_WRITE
Present(w) == w % 2 = 1
FrameIn(w) == w \div PageSize
Cleared(w) == w - (w % 2)

(***************************************************************************)
(* PageTable(): the shared memory is mapped to itself, the last directory  *)
(* entry to the directory, the others to nothing.                          *)
(***************************************************************************)
Booted ==
    [memory |-> [f \in Frames |-> [i \in Words |->
         CASE f = DirectTable -> Entry(i)
           [] f = Directory /\ i = 0 -> Entry(DirectTable)
           [] f = Directory /\ i = SelfEntry -> Entry(Directory)
           [] f = Directory /\ i \in 1 .. SelfEntry - 1 -> NotPresent
           [] OTHER -> 0]],
     free   |-> Process,
     halted |-> FALSE]

-----------------------------------------------------------------------------
(***************************************************************************)
(* The MMU: what an address is translated to.                              *)
(***************************************************************************)
PDE(m, a) == m.memory[Directory][PDIndex(a)]
PTE(m, a) == m.memory[FrameIn(PDE(m, a))][PTIndex(a)]
Mapped(m, a) == Present(PDE(m, a)) /\ Present(PTE(m, a))
FrameAt(m, a) == FrameIn(PTE(m, a))
Load(m, a) == m.memory[FrameAt(m, a)][Offset(a)]
Put(m, f, i, w) == [m EXCEPT !.memory[f][i] = w]

(***************************************************************************)
(* One frame from the process pool: the lowest free one, or 0 if there is  *)
(* none.                                                                   *)
(***************************************************************************)
Taken(m) == IF m.free = {} THEN 0 ELSE Min(m.free)
Without(m) == [m EXCEPT !.free = @ \ {Taken(m)}]

(***************************************************************************)
(* handle_fault: an absent table is first given a frame, which is not      *)
(* cleared, then the page is.  Neither result of get_frames is checked,    *)
(* and that no pool owns the address is only reported.  The directory is   *)
(* reached through its own last entry.                                     *)
(***************************************************************************)
WithTable_always(m, a) == Put(Without(m), Directory, PDIndex(a), Entry(Taken(m)))
WithTable(m, a) ==
    IF Present(PDE(m, a)) THEN m
    ELSE Put(Without(m), Directory, PDIndex(a), Entry(Taken(m)))

WithPage_keepsFree(m, a) == Put(m, FrameIn(PDE(m, a)), PTIndex(a), Entry(Taken(m)))
WithPage(m, a) == Put(Without(m), FrameIn(PDE(m, a)), PTIndex(a), Entry(Taken(m)))

Fault(m, a) == WithPage(WithTable(m, a), a)

\* An access faults at most once, then it is repeated.
Touched(m, a) == IF Mapped(m, a) THEN m ELSE Fault(m, a)
Stored(m, a, w) ==
    LET t == Touched(m, a) IN Put(t, FrameAt(t, a), Offset(a), w)

(***************************************************************************)
(* free_page: the entry is read through the directory's last entry, which  *)
(* may itself fault; whether it was present is not looked at.  A frame     *)
(* that was handed out goes back to its pool; one that no sequence starts  *)
(* with fails an assertion; frame 0 lies before all pools, where the list  *)
(* of the pools ends in a wild pointer.                                    *)
(***************************************************************************)
ReleaseFrame(m, f) ==
    [m EXCEPT !.free   = @ \cup ({f} \cap Process),
              !.halted = @ \/ f \notin (Process \ m.free) \cup {Directory, DirectTable}]

TableSlot(a) == (SelfEntry * PageSize + PDIndex(a)) * PageSize + PTIndex(a)

FreePage(m, a) ==
    LET t == Touched(m, TableSlot(a))
        w == Load(t, TableSlot(a))
    IN  ReleaseFrame(Put(t, FrameIn(PDE(t, a)), PTIndex(a), Cleared(w)), FrameIn(w))
=============================================================================
