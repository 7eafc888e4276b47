----------------------------- MODULE FramePools -----------------------------
(***************************************************************************)
(* ContFramePool once more, as operators on a machine that a kernel's main *)
(* can call: a pool is where it lies, its count of free frames, and its    *)
(* bits, which the loops go through frame by frame.  ContFramePool_proofs  *)
(* shows that they do what the module ContFramePool says in one step.      *)
(* frame is the number that the last get_frames answered.                  *)
(***************************************************************************)
EXTENDS FrameBits, Sequences

CONSTANTS Say(_, _), _assert(_)
LOCAL INSTANCE Machine

Initialized == <<"f", "newline">>
NotEnough == <<"e", "newline">>
ReleasedFrames == <<"r", "newline">>

FramesIn(p) == p.base .. p.base + p.size - 1

\* The constructor; info = 0 means the first frame of the pool.
ContFramePool(m, name, base, size, info, n) ==
    LET fs == base .. base + size - 1
        infoEnd == IF info = 0 THEN base ELSE info + n - 1
        bits == Constructed([f \in fs |-> ALLOCATED], fs, infoEnd)
        pool == [name |-> name, base |-> base, size |-> size, bits |-> bits,
                 free |-> size - Cardinality(InfoMarked(fs, infoEnd))]
    IN  assert(m, size % 8 = 0, [Say(m, Initialized) EXCEPT !.pools = <<pool>> \o @])

Index(m, name) == CHOOSE i \in DOMAIN m.pools : m.pools[i].name = name

get_frames(m, name, n) ==
    LET i == Index(m, name)
        p == m.pools[i]
        found == Scan(p.bits, p.base, p.size, n)
    IN  IF p.free = 0 \/ found.count # n THEN [Say(m, NotEnough) EXCEPT !.frame = 0]
        ELSE [m EXCEPT !.frame = found.start,
                       !.pools[i] = [p EXCEPT !.bits = MarkRun(@, found.start, n), !.free = @ - n]]

mark_inaccessible(m, name, base, n) ==
    LET i == Index(m, name)
        p == m.pools[i]
    IN  [m EXCEPT !.pools[i] =
            [p EXCEPT !.bits = Marked(@, p.base, FramesIn(p), HoleOf(FramesIn(p), base, n)),
                      !.free = @ - n]]

\* The pool of a frame is the first on the list with base <= f <= base + n.
Matching(m, f) == {k \in DOMAIN m.pools : f - m.pools[k].base \in 0 .. m.pools[k].size}

release_frames(m, f) ==
    LET i == CHOOSE k \in Matching(m, f) : \A j \in Matching(m, f) : k <= j
        p == m.pools[i]
        after == FreeRun(p.bits, p.base, p.size, f)
    IN  assert(m, Matching(m, f) # {} /\ (f \in FramesIn(p) => p.bits[f] = HEAD),
               [Say(m, ReleasedFrames) EXCEPT
                   !.pools[i] = [p EXCEPT !.bits = after.bits, !.free = @ + after.freed]])
=============================================================================
