--------------------------- MODULE PhysicalMemory ---------------------------
(***************************************************************************)
(* Memory by frames: a function from <<frame, word>> to the words that     *)
(* were ever written, zero elsewhere.  An entry of a page table is         *)
(* frame * Entries plus the flag bits.                                     *)
(***************************************************************************)
LOCAL INSTANCE Integers
LOCAL INSTANCE TLC

CONSTANT Entries                    \* entries of a table, words of a page: 1024

Word(m, f, i) == IF <<f, i>> \in DOMAIN m.memory THEN m.memory[<<f, i>>] ELSE 0
Put(m, f, i, w) == [m EXCEPT !.memory = (<<f, i>> :> w) @@ @]
Fill(m, f, indices, word(_)) ==
    [m EXCEPT !.memory = [a \in {<<f, i>> : i \in indices} |-> word(a[2])] @@ @]

Mapping(f)  == f * Entries + 3      \* PTE_PRESENT | PTE_WRITE
Unmapped    == 2                    \* PTE_WRITE
Present(w)  == w % 2 = 1
FrameOf(w)  == w \div Entries
=============================================================================
