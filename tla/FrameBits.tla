------------------------------ MODULE FrameBits ------------------------------
(***************************************************************************)
(* The two status bits that ContFramePool (mp2, mp3, mp4) keeps for every  *)
(* physical frame, and what its methods do to them.  The bitmap of a pool  *)
(* is a function from frame numbers to the value of the two bits.  A pool  *)
(* manages the frames base .. base + n - 1.                                *)
(***************************************************************************)
EXTENDS Integers, FiniteSets

ALLOCATED    == 0    \* bits 00
INACCESSIBLE == 1    \* bits 01
HEAD         == 2    \* bits 10, HEAD-OF-SEQUENCE
FREE         == 3    \* bits 11
Status       == 0 .. 3

(***************************************************************************)
(* needed_info_frames: a frame of 4 KB holds the bits of 16384 frames.     *)
(***************************************************************************)
NeededInfoFrames(n) == n \div 16384 + (IF n % 16384 > 0 THEN 1 ELSE 0)

(***************************************************************************)
(* The constructor sets every frame FREE, then clears the bits of the      *)
(* frames from the first frame of the pool to the last info frame.  That   *)
(* is no frame at all when the info frames lie below the pool.             *)
(***************************************************************************)
InfoMarked(fs, infoEnd) == {f \in fs : f <= infoEnd}

Constructed(bits, fs, infoEnd) ==
    [f \in DOMAIN bits |->
        IF f \in InfoMarked(fs, infoEnd) THEN ALLOCATED
        ELSE IF f \in fs THEN FREE ELSE bits[f]]

(***************************************************************************)
(* The scan of get_frames counts consecutive FREE frames and restarts at   *)
(* every other frame, so it stops at the lowest start of n FREE frames.    *)
(***************************************************************************)
RunIsFree_short(bits, fs, s, n) ==
    bits[s] = FREE /\ \A f \in s .. s + n - 2 : f \in fs /\ bits[f] = FREE
RunIsFree(bits, fs, s, n) == \A f \in s .. s + n - 1 : f \in fs /\ bits[f] = FREE

Fits(bits, fs, n) == {s \in fs : RunIsFree(bits, fs, s, n)}

FirstFit(bits, fs, n) ==
    CHOOSE s \in Fits(bits, fs, n) : \A t \in Fits(bits, fs, n) : s <= t

\* The second half of get_frames: the first frame 10, the others 00.
Claimed_noHead(bits, s, n) ==
    [f \in DOMAIN bits |-> IF f \in s .. s + n - 1 THEN ALLOCATED ELSE bits[f]]
Claimed(bits, s, n) ==
    [f \in DOMAIN bits |->
        IF f = s THEN HEAD
        ELSE IF f \in s + 1 .. s + n - 1 THEN ALLOCATED ELSE bits[f]]

(***************************************************************************)
(* release_frames frees frame s, then every frame after it while the bits  *)
(* are 00, up to the end of the pool.                                      *)
(***************************************************************************)
SequenceFrom_anyUsed(bits, fs, s) ==
    {f \in fs : f >= s /\ \A g \in s + 1 .. f : bits[g] # FREE}
SequenceFrom(bits, fs, s) ==
    {f \in fs : f >= s /\ \A g \in s + 1 .. f : bits[g] = ALLOCATED}

Released(bits, S) == [f \in DOMAIN bits |-> IF f \in S THEN FREE ELSE bits[f]]

(***************************************************************************)
(* The same three loops turn by turn, as the code runs them.  Scan is the  *)
(* search: it ends when it has counted n frames, n > 0.  MarkRun inverts   *)
(* the bits of all frames of the run but the first.  FreeRun begins at the *)
(* frame f to be released, which is not tested again.                      *)
(***************************************************************************)
Scan(bits, base, size, n) ==
    LET turn[k \in 0 .. size] ==
            IF k = 0 THEN [count |-> 0, start |-> base]
            ELSE LET before == turn[k - 1]
                     frame  == base + k - 1
                 IN  IF before.count = n THEN before
                     ELSE IF bits[frame] # FREE THEN [before EXCEPT !.count = 0]
                     ELSE [count |-> before.count + 1,
                           start |-> IF before.count = 0 THEN frame ELSE before.start]
    IN  turn[size]

MarkRun(bits, s, n) ==
    LET turn[k \in 0 .. n - 1] ==
            IF k = 0 THEN [bits EXCEPT ![s] = HEAD] ELSE [turn[k - 1] EXCEPT ![s + k] = FREE - @]
    IN  turn[n - 1]

FreeRun(bits, base, size, f) ==
    LET last == base + size - f
        turn[k \in 0 .. last] ==
            IF k = 0 THEN [bits |-> bits, freed |-> 0, is_released |-> FALSE]
            ELSE LET before == turn[k - 1]
                     frame  == f + k - 1
                     ends   == \/ before.is_released
                               \/ frame # f /\ before.bits[frame] # ALLOCATED
                 IN  [bits |-> IF ends THEN before.bits ELSE [before.bits EXCEPT ![frame] = FREE],
                      freed |-> IF ends THEN before.freed ELSE before.freed + 1,
                      is_released |-> ends]
    IN  turn[last]

(***************************************************************************)
(* mark_inaccessible.  Frame f of a pool is frame j == (f - base) % 4 of   *)
(* byte i == (f - base) \div 4, with its bits at the positions 7 - 2j and  *)
(* 6 - 2j.  For a frame of the hole the code clears bit i and sets bit     *)
(* i - 1 of the byte: the shift counts are the INDEX of the byte, reduced  *)
(* modulo 32 by the processor, and a bit above 7 is lost.                  *)
(***************************************************************************)
ByteOf(base, f) == (f - base) \div 4
HighBit(base, f) == 7 - 2 * ((f - base) % 4)
LowBit(base, f)  == 6 - 2 * ((f - base) % 4)
ClearedBit(i) == i % 32
SetBit(i)     == (i + 31) % 32

BitAfter(i, b, old) ==
    IF b = SetBit(i) THEN 1 ELSE IF b = ClearedBit(i) THEN 0 ELSE old

\* The frames of the hole that the loop reaches: it ends with the pool.
HoleOf(fs, holeBase, holeFrames) == {f \in fs : f \in holeBase .. holeBase + holeFrames - 1}

Marked(bits, base, fs, hole) ==
    [f \in DOMAIN bits |->
        IF f \in fs /\ \E h \in hole : ByteOf(base, h) = ByteOf(base, f)
        THEN 2 * BitAfter(ByteOf(base, f), HighBit(base, f), bits[f] \div 2)
               + BitAfter(ByteOf(base, f), LowBit(base, f), bits[f] % 2)
        ELSE bits[f]]
=============================================================================
