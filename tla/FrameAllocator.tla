--------------------------- MODULE FrameAllocator ---------------------------
(***************************************************************************)
(* What a contiguous frame allocator promises its clients: it hands out    *)
(* runs of frames that lie in one region and touch no run that is out, and *)
(* takes each back as a whole.  It says nothing of bits, counters or lists *)
(* of pools, and it may refuse a request at any time.                      *)
(***************************************************************************)
EXTENDS Integers

CONSTANTS Regions,      \* the frames of each pool
          MaxLen        \* bound: the longest run

VARIABLE owned

Interval(r) == r.first .. r.first + r.len - 1

Init == owned = {}

Acquire(R) ==
    \E s \in R, n \in 1 .. MaxLen :
        LET r == [first |-> s, len |-> n]
        IN  /\ Interval(r) \subseteq R
            /\ \A q \in owned : Interval(q) \cap Interval(r) = {}
            /\ owned' = owned \cup {r}

Release(r) == owned' = owned \ {r}

Next == (\E R \in Regions : Acquire(R)) \/ (\E r \in owned : Release(r))

Spec == Init /\ [][Next]_owned
=============================================================================
