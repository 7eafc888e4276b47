---------------------------- MODULE VirtualMemory ----------------------------
(***************************************************************************)
(* The virtual memory pools of mp4 on top of its page table.  A pool keeps *)
(* the start and the end of every region it ever allocated in its own      *)
(* first page, so its bookkeeping and its clients' accesses fault and take *)
(* frames as they go.  A client allocates a region, fills it, reads it and *)
(* releases it, as GenerateVMPoolMemoryReferences does, with any number of *)
(* regions at a time.                                                      *)
(***************************************************************************)
EXTENDS Paging

CONSTANTS
    Pools, Base, Length,    \* the pools, their addresses and sizes
    Sizes,                  \* per pool: sizes of the regions clients ask for
    Values,                 \* per pool: words they fill them with
    ReleasesUnfilled,       \* whether they release regions they never used
    MaxAllocations          \* bound: allocations of a pool, 512 fill its first page

ASSUME PoolsAssumption ==
    /\ Base \in [Pools -> Nat] /\ Length \in [Pools -> Nat]
    /\ \A p \in Pools : /\ PDIndex(Base[p]) > 0 /\ Base[p] % PageSize = 0
                        /\ PDIndex(Base[p] + Length[p] - 1) < SelfEntry
    /\ Sizes \in [Pools -> SUBSET (Nat \ {0})]
    /\ Values \in [Pools -> SUBSET Nat]
    /\ ReleasesUnfilled \in BOOLEAN
    /\ MaxAllocations \in Nat /\ 2 * MaxAllocations <= PageSize

VARIABLES
    machine,            \* memory and frames
    vm_mem_pool_cur,    \* per pool: index of its last bookkeeping word
    regions             \* what the clients hold

vars == <<machine, vm_mem_pool_cur, regions>>

Unfilled == -1

Init ==
    /\ machine = Booted
    /\ vm_mem_pool_cur = [p \in Pools |-> -1]
    /\ regions = {}

-----------------------------------------------------------------------------
(***************************************************************************)
(* allocate: the pages of a size, and the next free address.  The modulus  *)
(* is taken of the number of pages, so every size of at least one page     *)
(* gets one page more and a smaller one gets none.                         *)
(***************************************************************************)
NumPages_exact(size) == size \div PageSize
NumPages(size) ==
    LET n == size \div PageSize IN n + (IF n % PageSize > 0 THEN 1 ELSE 0)

CurAddr(p) ==
    IF vm_mem_pool_cur[p] < 0 THEN Base[p] + PageSize + 1
    ELSE Load(machine, Base[p] + vm_mem_pool_cur[p])

AfterEntry_oneWord(i) == i + 1
AfterEntry(i) == i + 2

NextAddr(p, size) == (CurAddr(p) + NumPages(size) * PageSize) % AddressSpace

Allocate(p, size) ==
    LET i == vm_mem_pool_cur[p] + 1
    IN  /\ ~machine.halted /\ vm_mem_pool_cur[p] + 2 < 2 * MaxAllocations
        /\ NextAddr(p, size) < Base[p] + Length[p] /\ NextAddr(p, size) >= Base[p]
        /\ machine' = Stored(Stored(machine, Base[p] + i, CurAddr(p)),
                             Base[p] + i + 1, NextAddr(p, size))
        /\ vm_mem_pool_cur' = [vm_mem_pool_cur EXCEPT ![p] = AfterEntry(@)]
        /\ regions' = regions \cup
              {[pool |-> p, entry |-> i, start |-> CurAddr(p), size |-> size, value |-> Unfilled]}

\* The words of a region, and the client's loop over them.
Cells(r) == r.start .. r.start + r.size - 1

Filled(r, v) ==
    LET m[n \in 0 .. r.size] == IF n = 0 THEN machine ELSE Stored(m[n - 1], r.start + n - 1, v)
    IN  m[r.size]

Fill(r, v) ==
    /\ ~machine.halted /\ r.value = Unfilled
    /\ machine' = Filled(r, v)
    /\ regions' = (regions \ {r}) \cup {[r EXCEPT !.value = v]}
    /\ UNCHANGED vm_mem_pool_cur

(***************************************************************************)
(* release: the first entry with the given start.  Both the count and the  *)
(* start move in the loop over the pages, so it ends half-way.  load()     *)
(* then empties the TLB.                                                   *)
(***************************************************************************)
EntryOf(p, start) ==
    Min({i \in 0 .. vm_mem_pool_cur[p] : i % 2 = 0 /\ Load(machine, Base[p] + i) = start})

FreedPages_inclusive(pages) == pages + 1
FreedPages(pages) == Cardinality({c \in 0 .. pages : c < pages - c})

Freed(m, a) == IF m.halted THEN m ELSE FreePage(m, a)
Released(start, pages) ==
    LET m[n \in 0 .. pages] ==
          IF n = 0 THEN machine ELSE Freed(m[n - 1], start + (n - 1) * PageSize)
    IN  m[pages]

Release(r) ==
    LET i     == EntryOf(r.pool, r.start)
        end   == Load(machine, Base[r.pool] + i + 1)
        freed == FreedPages((end - r.start) \div PageSize)
    IN  /\ ~machine.halted /\ (r.value # Unfilled \/ ReleasesUnfilled)
        /\ machine' = Released(r.start, freed)
        /\ regions' = regions \ {r}
        /\ UNCHANGED vm_mem_pool_cur

Next ==
    \/ \E p \in Pools : \E size \in Sizes[p] : Allocate(p, size)
    \/ \E r \in regions : Release(r) \/ \E v \in Values[r.pool] : Fill(r, v)

Spec == Init /\ [][Next]_vars

-----------------------------------------------------------------------------
(***************************************************************************)
(* Type invariant.                                                         *)
(***************************************************************************)
TypeOK ==
    /\ machine.memory \in [Frames -> [Words -> Nat]]
    /\ machine.free \subseteq Process
    /\ machine.halted \in BOOLEAN
    /\ vm_mem_pool_cur \in [Pools -> {2 * n - 1 : n \in 0 .. MaxAllocations}]
    /\ regions \subseteq [pool : Pools, entry : Words, start : Nat, size : Nat,
                          value : Nat \cup {Unfilled}]

(***************************************************************************)
(* Page tables and frame pool agree: a frame that is not free is one page  *)
(* table or one page, reached from exactly one entry, and no entry leads   *)
(* to a free frame.                                                        *)
(***************************************************************************)
Tables == {d \in 1 .. SelfEntry - 1 : Present(machine.memory[Directory][d])}
TableFrame(d) == FrameIn(machine.memory[Directory][d])
PageEntries == {x \in Tables \X Words : Present(machine.memory[TableFrame(x[1])][x[2]])}
References(f) ==
    {<<0, d>> : d \in {t \in Tables : TableFrame(t) = f}} \cup
    {x \in PageEntries : FrameIn(machine.memory[TableFrame(x[1])][x[2]]) = f}

FramesOnce ==
    \A f \in Process : Cardinality(References(f)) = IF f \in machine.free THEN 0 ELSE 1

(***************************************************************************)
(* kernel.C (the test): a client reads in its region what it wrote there,  *)
(* whatever was allocated, filled and released in between.                 *)
(***************************************************************************)
DataKept ==
    \A r \in regions : r.value # Unfilled =>
        \A a \in Cells(r) : Mapped(machine, a) /\ Load(machine, a) = r.value

(***************************************************************************)
(* handle_fault maps the page that faulted and no other one, and moves no  *)
(* page that is mapped.                                                    *)
(***************************************************************************)
PagesOf(p) == {a \in Base[p] .. Base[p] + Length[p] - 1 : a % PageSize = 0}
AllPages == UNION {PagesOf(p) : p \in Pools}

FaultIsLocal ==
    \A a \in AllPages : ~Mapped(machine, a) =>
        LET m == Fault(machine, a)
        IN  /\ Mapped(m, a)
            /\ \A b \in AllPages \ {a} :
                  /\ Mapped(m, b) = Mapped(machine, b)
                  /\ Mapped(m, b) => FrameAt(m, b) = FrameAt(machine, b)

(***************************************************************************)
(* Releases never hit an assertion of the frame pool, nor walk off the     *)
(* list of the pools.                                                      *)
(***************************************************************************)
NeverHalts == ~machine.halted

(***************************************************************************)
(* vm_pool.H: release() releases the region: a page of a pool, except the  *)
(* bookkeeping page, is mapped only if it belongs to a region that is out. *)
(***************************************************************************)
PageOf(a) == a - (a % PageSize)
ReleasedPagesUnmapped ==
    \A p \in Pools : \A a \in PagesOf(p) \ {Base[p]} :
        Mapped(machine, a) => \E r \in regions : a \in {PageOf(c) : c \in Cells(r)}
=============================================================================
