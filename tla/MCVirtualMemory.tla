--------------------------- MODULE MCVirtualMemory ---------------------------
(***************************************************************************)
(* Two pools, as code_pool and heap_pool of mp4 main().  With pages of     *)
(* eight words, a table maps eight pages; a pool of eight pages is spread  *)
(* over two tables.                                                        *)
(***************************************************************************)
EXTENDS VirtualMemory, TLC

CONSTANTS code_pool, heap_pool

Both       == {code_pool, heap_pool}
BothBase   == (code_pool :> 96) @@ (heap_pool :> 192)
BothLength == [p \in Both |-> 64]
Each(code, heap) == (code_pool :> code) @@ (heap_pool :> heap)
Mixed      == Each({8, 17}, {8})
Even       == Each({2, 4}, {6})

\* Less careful clients, with whom DataKept fails: sizes below a page, words
\* that a page table in a reused frame would take for present entries.
Small      == Each({4, 8}, {8})
Odd        == Each({3, 5}, {7})
=============================================================================
