----------------------------- MODULE BumpPools -----------------------------
(***************************************************************************)
(* FramePool and MemPool of mp5, mp6 and mp7, whose addresses only grow.   *)
(* FramePool counts frames from 2 MB and never looks at how much memory    *)
(* there is.  MemPool begins with the first of its frames and takes the    *)
(* others to follow it; allocate does not look for the end.  The releases  *)
(* do nothing.  objects is a history of what was handed out.               *)
(***************************************************************************)
LOCAL INSTANCE Integers
LOCAL INSTANCE Sequences

PAGE_SIZE == 4096
PoolStart == 2097152

FramePool(m) == [m EXCEPT !.next_free_frame = PoolStart]
get_frame(m) == [m EXCEPT !.next_free_frame = @ + PAGE_SIZE]
release_frame(m, address) == m

-----------------------------------------------------------------------------
MemPool(m, n) ==
    [m EXCEPT !.start_address = m.next_free_frame, !.memory_pool = TRUE,
              !.next_free_frame = @ + n * PAGE_SIZE]      \* n calls of get_frame

allocate(m, size) ==
    [m EXCEPT !.objects = Append(@, [address |-> m.start_address, size |-> size]),
              !.start_address = @ + size]
release(m, address) == m
=============================================================================
