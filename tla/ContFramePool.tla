---------------------------- MODULE ContFramePool ----------------------------
(***************************************************************************)
(* The contiguous frame allocator of mp2, mp3 and mp4 in the set-up of     *)
(* mp3/mp4 main(): a kernel pool that keeps its bitmap in its first frame, *)
(* a process pool whose bitmap is in a frame taken from the kernel pool, a *)
(* memory hole that is marked in the process pool, and then any mix of     *)
(* get_frames and release_frames by clients that release what they got.    *)
(***************************************************************************)
EXTENDS FrameBits, Sequences

CONSTANTS
    KernelBase, KernelFrames,       \* KERNEL_POOL_START_FRAME, KERNEL_POOL_SIZE
    ProcessBase, ProcessFrames,     \* PROCESS_POOL_START_FRAME, PROCESS_POOL_SIZE
    HoleBase, HoleFrames,           \* MEM_HOLE_START_FRAME, MEM_HOLE_SIZE
    MaxRun,                         \* largest request of a client
    MaxHeld,                        \* bound: sequences that are out at one time
    UIntMod                         \* 2^w for the unsigned n_free_frames

\* What the #defines of kernel.C satisfy; both constructors assert the size.
ASSUME LayoutAssumption ==
    /\ KernelBase \in Nat /\ KernelBase > 0
    /\ KernelFrames \in Nat /\ KernelFrames > 0 /\ KernelFrames % 8 = 0
    /\ NeededInfoFrames(ProcessFrames) < KernelFrames
    /\ ProcessBase \in Nat /\ KernelBase + KernelFrames <= ProcessBase
    /\ ProcessFrames \in Nat /\ ProcessFrames > 0 /\ ProcessFrames % 8 = 0
    /\ HoleBase \in Nat /\ ProcessBase <= HoleBase
    /\ HoleFrames \in Nat /\ HoleFrames > 0
ASSUME BoundsAssumption ==
    /\ MaxRun \in Nat /\ MaxRun > 0
    /\ MaxHeld \in Nat
    /\ UIntMod \in Nat /\ UIntMod > KernelFrames /\ UIntMod > ProcessFrames

VARIABLES
    phase,          \* how far main() is; "abort" after a failed assertion
    bits,           \* the bitmaps
    n_free_frames,  \* per pool
    info_frame_no,  \* per pool: where its bitmap is, 0 before construction
    poolList,       \* the list that starts at poolListHead
    held            \* the sequences handed out and not yet released

vars == <<phase, bits, n_free_frames, info_frame_no, poolList, held>>

Pools == {"kernel", "process"}
Base == [p \in Pools |-> IF p = "kernel" THEN KernelBase ELSE ProcessBase]
Size == [p \in Pools |-> IF p = "kernel" THEN KernelFrames ELSE ProcessFrames]
Frames(p) == Base[p] .. Base[p] + Size[p] - 1
AllFrames == Frames("kernel") \cup Frames("process")

Run == [first : AllFrames, len : Nat \ {0}]
FramesOf(r) == r.first .. r.first + r.len - 1
Phases == {"kernel_pool", "info_frame", "process_pool", "hole", "up", "abort"}

Init ==
    /\ phase = "kernel_pool"
    /\ bits = [f \in AllFrames |-> ALLOCATED]    \* memory is zero at power-up
    /\ n_free_frames = [p \in Pools |-> 0]
    /\ info_frame_no = [p \in Pools |-> 0]
    /\ poolList = << >>
    /\ held = {}

-----------------------------------------------------------------------------
\* Unsigned arithmetic on n_free_frames.
CountUp(a, n) == (a + n) % UIntMod
CountDown_saturates(a, n) == IF n > a THEN 0 ELSE a - n
CountDown_signed(a, n) == a - n
CountDown(a, n) == (a - n) % UIntMod

\* A new pool becomes the head of the list.
Listed(p) == <<p>> \o poolList

(***************************************************************************)
(* The constructor of a pool with n info frames from info on.              *)
(***************************************************************************)
Construct(p, info, n) ==
    /\ bits' = Constructed(bits, Frames(p), info + n - 1)
    /\ n_free_frames' =
          [n_free_frames EXCEPT ![p] =
             Size[p] - Cardinality(InfoMarked(Frames(p), info + n - 1))]
    /\ info_frame_no' = [info_frame_no EXCEPT ![p] = info]
    /\ poolList' = Listed(p)
    /\ UNCHANGED held

\* ContFramePool kernel_mem_pool(start, size, 0, 0): the info frame is the first.
ConstructKernelPool ==
    /\ phase = "kernel_pool"
    /\ Construct("kernel", KernelBase, 1)
    /\ phase' = "info_frame"

(***************************************************************************)
(* get_frames: no frame is looked at when the counter is zero; the counter *)
(* is unsigned and is decremented whatever its value.                      *)
(***************************************************************************)
Fails(p, n) == n_free_frames[p] = 0 \/ Fits(bits, Frames(p), n) = {}

Hand(p, n) ==
    LET s == FirstFit(bits, Frames(p), n)
    IN  /\ ~Fails(p, n)
        /\ bits' = Claimed(bits, s, n)
        /\ n_free_frames' = [n_free_frames EXCEPT ![p] = CountDown(@, n)]
        /\ held' = held \cup {[first |-> s, len |-> n]}
        /\ UNCHANGED <<info_frame_no, poolList>>

\* The info frames of the process pool come from the kernel pool.
TakeInfoFrame ==
    /\ phase = "info_frame"
    /\ Hand("kernel", NeededInfoFrames(ProcessFrames))
    /\ phase' = "process_pool"

ConstructProcessPool ==
    /\ phase = "process_pool"
    /\ \E r \in held : Construct("process", r.first, r.len)
    /\ phase' = "hole"

MarkInaccessible ==
    LET hole == HoleOf(Frames("process"), HoleBase, HoleFrames)
    IN  /\ phase = "hole"
        /\ bits' = Marked(bits, ProcessBase, Frames("process"), hole)
        /\ n_free_frames' = [n_free_frames EXCEPT !["process"] = CountDown(@, Cardinality(hole))]
        /\ phase' = "up"
        /\ UNCHANGED <<info_frame_no, poolList, held>>

\* A client's call that succeeds; one that fails returns 0 and changes nothing.
GetFrames(p, n) ==
    /\ phase = "up"
    /\ Cardinality(held) < MaxHeld
    /\ Hand(p, n)
    /\ UNCHANGED phase

(***************************************************************************)
(* release_frames is static: it walks the list of the pools and stops at   *)
(* the first one with base <= f <= base + n (one frame too many).          *)
(***************************************************************************)
Matches(p, f) == ~(f < Base[p] \/ f > Base[p] + Size[p])

OwnerIndex(f) == {i \in 1 .. Len(poolList) :
                    /\ Matches(poolList[i], f)
                    /\ \A j \in 1 .. i - 1 : ~Matches(poolList[j], f)}

\* A frame beyond the matched pool is past the end of its loop: nothing is freed.
Owner(f) == poolList[CHOOSE i \in OwnerIndex(f) : TRUE]

Asserts(f) ==
    \/ OwnerIndex(f) = {}
    \/ f \in Frames(Owner(f)) /\ bits[f] # HEAD

Freed(f) ==
    IF f \in Frames(Owner(f)) THEN SequenceFrom(bits, Frames(Owner(f)), f) ELSE {}

ReleaseFrames(r) ==
    /\ phase = "up"
    /\ r.first # info_frame_no["process"]     \* main() keeps these
    /\ held' = held \ {r}
    /\ UNCHANGED <<info_frame_no, poolList>>
    /\ IF Asserts(r.first)
       THEN phase' = "abort" /\ UNCHANGED <<bits, n_free_frames>>
       ELSE /\ bits' = Released(bits, Freed(r.first))
            /\ n_free_frames' = [n_free_frames EXCEPT ![Owner(r.first)] =
                                   CountUp(@, Cardinality(Freed(r.first)))]
            /\ UNCHANGED phase

Next ==
    \/ ConstructKernelPool
    \/ TakeInfoFrame
    \/ ConstructProcessPool
    \/ MarkInaccessible
    \/ \E p \in Pools, n \in 1 .. MaxRun : GetFrames(p, n)
    \/ \E r \in held : ReleaseFrames(r)

Spec == Init /\ [][Next]_vars

-----------------------------------------------------------------------------
(***************************************************************************)
(* Type invariant.                                                         *)
(***************************************************************************)
TypeOK ==
    /\ phase \in Phases
    /\ bits \in [AllFrames -> Status]
    /\ n_free_frames \in [Pools -> 0 .. UIntMod - 1]
    /\ info_frame_no \in [Pools -> Nat]
    /\ poolList \in {<< >>, <<"kernel">>, <<"process", "kernel">>}
    /\ held \subseteq Run

(***************************************************************************)
(* The bitmap describes every sequence that is out: the frames that a      *)
(* release of its first frame would free are exactly the frames that       *)
(* get_frames returned, whatever was allocated and released around it.     *)
(***************************************************************************)
HeldIntact ==
    \A r \in held : \E p \in Pools :
        /\ FramesOf(r) \subseteq Frames(p)
        /\ bits[r.first] = HEAD
        /\ SequenceFrom(bits, Frames(p), r.first) = FramesOf(r)

(***************************************************************************)
(* No frame belongs to two sequences that are out.                         *)
(***************************************************************************)
HeldDisjoint ==
    \A r, q \in held : r # q => FramesOf(r) \cap FramesOf(q) = {}

(***************************************************************************)
(* A client that releases what it got never runs into the assertions of    *)
(* release_frames: the walk of the pool list finds the pool that handed    *)
(* the sequence out, although it accepts one frame beyond every pool.      *)
(***************************************************************************)
NeverAborts == phase # "abort"

(***************************************************************************)
(* The frame that holds the bitmap of a pool is never given to a client.   *)
(***************************************************************************)
BitmapsSafe ==
    \A p \in Pools : info_frame_no[p] # 0 =>
        /\ bits[info_frame_no[p]] # FREE
        /\ \A r \in held : info_frame_no[p] \in FramesOf(r)
               => p = "process" /\ r.first = info_frame_no[p]

(***************************************************************************)
(* Nothing leaks: once main() is done, a frame is not FREE only because it *)
(* is out, holds the kernel pool's bitmap, or was changed by               *)
(* mark_inaccessible; n_free_frames differs from the number of FREE frames *)
(* by the frames of the hole that were counted but left FREE, modulo 2^w.  *)
(***************************************************************************)
Hole == HoleOf(Frames("process"), HoleBase, HoleFrames)
AllFree == [f \in AllFrames |-> FREE]
Spoiled == {f \in Frames("process") :
              Marked(AllFree, ProcessBase, Frames("process"), Hole)[f] # FREE}
Skew == [p \in Pools |->
            IF p = "kernel" THEN 0 ELSE Cardinality(Hole) - Cardinality(Spoiled)]
NotFree == {f \in AllFrames : bits[f] # FREE}

FramesAccounted ==
    phase = "up" => NotFree = (UNION {FramesOf(r) : r \in held}) \cup {KernelBase} \cup Spoiled

FreeCount ==
    phase = "up" => \A p \in Pools :
        (n_free_frames[p] + Skew[p]) % UIntMod = Cardinality(Frames(p) \ NotFree)

(***************************************************************************)
(* The books of a pool are right after any history of get_frames and       *)
(* release_frames: its bitmap is its own, no frame is lost but those that  *)
(* mark_inaccessible spoiled, and the count that get_frames trusts is off  *)
(* the bitmap by the constant Skew and by no more.                         *)
(***************************************************************************)
BooksRight == BitmapsSafe /\ FramesAccounted /\ FreeCount

(***************************************************************************)
(* get_frames refuses a request only when no run of that many frames is    *)
(* free, or, in the process pool, when the only frames left free are as    *)
(* many as mark_inaccessible counted and did not mark: the counter is zero *)
(* then and the bitmap is not looked at.                                   *)
(***************************************************************************)
RunLeft(p, n) == \E s \in Frames(p) : \A f \in s .. s + n - 1 : f \in Frames(p) /\ bits[f] = FREE
RefusalsJustified ==
    phase = "up" => \A p \in Pools, n \in 1 .. MaxRun :
        (Fails(p, n) /\ RunLeft(p, n)) =>
            p = "process" /\ Cardinality(Frames(p) \ NotFree) = Skew[p] % UIntMod

(***************************************************************************)
(* The bitmap implements the abstract allocator: read as HEAD frames with  *)
(* the ALLOCATED frames that follow them, and leaving out the frames that  *)
(* mark_inaccessible turned into HEAD, it only ever gains one run that is  *)
(* disjoint from the others or loses one run as a whole.                   *)
(***************************************************************************)
PoolOf(f) == IF f \in Frames("kernel") THEN "kernel" ELSE "process"
HeadFrames == {f \in AllFrames \ Spoiled : bits[f] = HEAD}
Decoded == {[first |-> f, len |-> Cardinality(SequenceFrom(bits, Frames(PoolOf(f)), f))] :
               f \in HeadFrames}

\* No request is longer: neither a client's nor main()'s for the info frames.
LongestRun == LET n == NeededInfoFrames(ProcessFrames) IN IF n > MaxRun THEN n ELSE MaxRun

Allocator == INSTANCE FrameAllocator WITH
                owned <- Decoded, Regions <- {Frames(p) : p \in Pools}, MaxLen <- LongestRun
ImplementsAllocator == Allocator!Spec

(***************************************************************************)
(* What cont_frame_pool.H says of mark_inaccessible: the frames it is      *)
(* given are inaccessible, so no sequence that is out contains one.        *)
(***************************************************************************)
HoleInaccessible == \A r \in held : FramesOf(r) \cap Hole = {}

=============================================================================
