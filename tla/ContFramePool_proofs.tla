----------------------- MODULE ContFramePool_proofs -----------------------
(***************************************************************************)
(* Theorems about ContFramePool, for pools of any size, any hole, any      *)
(* request size and any width of the counter: types; that the bitmap       *)
(* describes every sequence that is out, so that a release frees exactly   *)
(* what was handed out and never meets an assertion; that no frame leaks   *)
(* and the counter follows the bitmap; that the bitmap implements the      *)
(* abstract allocator; and that the loops over the bits do what            *)
(* ContFramePool says in one step.                                         *)
(***************************************************************************)
EXTENDS ContFramePool, Lemmas, FiniteSetTheorems

-----------------------------------------------------------------------------
(***************************************************************************)
(* The frames of the two pools are disjoint intervals of positive numbers. *)
(***************************************************************************)
LEMMA Layout ==
    /\ \A p \in Pools : /\ Base[p] \in Nat /\ Base[p] > 0
                        /\ Size[p] \in Nat /\ Size[p] > 0 /\ Size[p] < UIntMod
                        /\ Frames(p) = Base[p] .. Base[p] + Size[p] - 1
                        /\ Frames(p) \subseteq AllFrames
    /\ Base["kernel"] = KernelBase /\ Base["process"] = ProcessBase
    /\ Size["kernel"] = KernelFrames /\ Size["process"] = ProcessFrames
    /\ KernelBase + KernelFrames <= ProcessBase
    /\ AllFrames \subseteq Nat
    /\ \A f \in AllFrames : \E p \in Pools : f \in Frames(p)
    /\ \A p, q \in Pools : p # q => Frames(p) \cap Frames(q) = {}
    /\ UIntMod \in Nat /\ UIntMod > 0
<1>1. /\ Base["kernel"] = KernelBase /\ Base["process"] = ProcessBase
      /\ Size["kernel"] = KernelFrames /\ Size["process"] = ProcessFrames
      /\ Pools = {"kernel", "process"}
  BY DEF Base, Size, Pools
<1>2. /\ KernelBase \in Nat /\ KernelBase > 0 /\ KernelFrames \in Nat /\ KernelFrames > 0
      /\ ProcessBase \in Nat /\ ProcessFrames \in Nat /\ ProcessFrames > 0
      /\ KernelBase + KernelFrames <= ProcessBase
      /\ UIntMod \in Nat /\ UIntMod > KernelFrames /\ UIntMod > ProcessFrames
  BY LayoutAssumption, BoundsAssumption
<1>3. /\ Frames("kernel") = KernelBase .. KernelBase + KernelFrames - 1
      /\ Frames("process") = ProcessBase .. ProcessBase + ProcessFrames - 1
  BY <1>1 DEF Frames
<1>4. AllFrames = Frames("kernel") \cup Frames("process")
  BY DEF AllFrames
<1>. QED
  BY <1>1, <1>2, <1>3, <1>4

(***************************************************************************)
(* get_frames returns a start that fits whenever there is one.             *)
(***************************************************************************)
LEMMA FirstFitLemma ==
    ASSUME NEW p \in Pools, NEW n \in Nat, Fits(bits, Frames(p), n) # {}
    PROVE  LET s == FirstFit(bits, Frames(p), n)
           IN  s \in Frames(p) /\ \A f \in s .. s + n - 1 : f \in Frames(p) /\ bits[f] = FREE
<1>. DEFINE T == Fits(bits, Frames(p), n)
<1>1. T \subseteq Nat
  BY Layout DEF Fits
<1>2. \E x \in T : \A y \in T : x <= y
  BY <1>1, LeastElement
<1>3. FirstFit(bits, Frames(p), n) \in T
  BY <1>2 DEF FirstFit
<1>. QED
  BY <1>3 DEF Fits, RunIsFree

-----------------------------------------------------------------------------
(***************************************************************************)
(* Counting: subsets of a pool are finite and no larger than the pool, and *)
(* unsigned arithmetic stays in its range.                                 *)
(***************************************************************************)
LEMMA PoolSize == \A p \in Pools : IsFiniteSet(Frames(p)) /\ Cardinality(Frames(p)) = Size[p]
<1>. SUFFICES ASSUME NEW p \in Pools PROVE IsFiniteSet(Frames(p)) /\ Cardinality(Frames(p)) = Size[p]
  OBVIOUS
<1>. DEFINE a == Base[p]
            b == Base[p] + Size[p] - 1
<1>1. a \in Int /\ b \in Int /\ ~(a > b) /\ b - a + 1 = Size[p] /\ Frames(p) = a .. b
  BY Layout
<1>2. IsFiniteSet(a .. b) /\ Cardinality(a .. b) = IF a > b THEN 0 ELSE b - a + 1
  <2>. HIDE DEF a, b
  <2>. QED
    BY <1>1, FS_Interval
<1>. QED
  BY <1>1, <1>2, Zenon

LEMMA PoolCardinality ==
    ASSUME NEW p \in Pools, NEW S, S \subseteq Frames(p)
    PROVE  IsFiniteSet(S) /\ Cardinality(S) \in 0 .. Size[p]
<1>1. IsFiniteSet(Frames(p)) /\ Cardinality(Frames(p)) = Size[p]
  BY PoolSize
<1>2. IsFiniteSet(S) /\ Cardinality(S) <= Cardinality(Frames(p))
  BY <1>1, FS_Subset
<1>. QED
  BY <1>1, <1>2, FS_CardinalityType, Layout

LEMMA CounterType ==
    \A a, n \in Int : CountUp(a, n) \in 0 .. UIntMod - 1 /\ CountDown(a, n) \in 0 .. UIntMod - 1
<1>1. UIntMod \in Nat /\ UIntMod > 0
  BY Layout
<1>2. \A m \in Int, w \in Nat : w > 0 => m % w \in 0 .. w - 1
  OBVIOUS
<1>. QED
  BY <1>1, <1>2 DEF CountUp, CountDown

-----------------------------------------------------------------------------
(***************************************************************************)
(* Type correctness.                                                       *)
(***************************************************************************)
LEMMA StatusFacts ==
    /\ FREE \in Status /\ HEAD \in Status /\ ALLOCATED \in Status
    /\ FREE # HEAD /\ FREE # ALLOCATED /\ HEAD # ALLOCATED
BY DEF Status, FREE, HEAD, ALLOCATED

LEMMA InitType == Init => TypeOK
<1>. SUFFICES ASSUME Init PROVE TypeOK
  OBVIOUS
<1>1. 0 \in 0 .. UIntMod - 1
  BY Layout
<1>2. bits \in [AllFrames -> Status]
  BY StatusFacts DEF Init
<1>. QED
  BY <1>1, <1>2 DEF Init, TypeOK, Phases

\* A request of a positive number of frames.
LEMMA HandType ==
    ASSUME TypeOK, NEW p \in Pools, NEW n \in Nat, n > 0, Hand(p, n)
    PROVE  /\ bits' \in [AllFrames -> Status]
           /\ n_free_frames' \in [Pools -> 0 .. UIntMod - 1]
           /\ info_frame_no' = info_frame_no
           /\ poolList' = poolList
           /\ held' \subseteq Run
<1>. DEFINE s == FirstFit(bits, Frames(p), n)
<1>1. s \in AllFrames
  BY FirstFitLemma, Layout DEF Hand, Fails
<1>2. [first |-> s, len |-> n] \in Run
  BY <1>1 DEF Run
<1>3. held' \subseteq Run
  BY <1>2 DEF TypeOK, Hand
<1>4. bits' \in [AllFrames -> Status]
  <2>1. bits' = Claimed(bits, s, n)
    BY DEF Hand
  <2>2. \A f \in DOMAIN bits : bits[f] \in Status
    BY DEF TypeOK
  <2>. QED
    BY <2>1, <2>2, StatusFacts DEF TypeOK, Claimed
<1>5. n_free_frames' \in [Pools -> 0 .. UIntMod - 1]
  <2>1. n_free_frames[p] \in Int /\ n \in Int
    BY Layout DEF TypeOK
  <2>2. CountDown(n_free_frames[p], n) \in 0 .. UIntMod - 1
    BY <2>1, CounterType
  <2>3. n_free_frames' = [n_free_frames EXCEPT ![p] = CountDown(n_free_frames[p], n)]
    BY DEF Hand
  <2>. QED
    BY <2>2, <2>3 DEF TypeOK
<1>. QED
  BY <1>3, <1>4, <1>5 DEF Hand

LEMMA ConstructType ==
    ASSUME TypeOK, NEW p \in Pools, NEW info \in Nat, NEW n \in Nat, Construct(p, info, n)
    PROVE  /\ bits' \in [AllFrames -> Status]
           /\ n_free_frames' \in [Pools -> 0 .. UIntMod - 1]
           /\ info_frame_no' \in [Pools -> Nat]
           /\ poolList' = <<p>> \o poolList
           /\ held' = held
<1>1. bits' \in [AllFrames -> Status]
  BY StatusFacts DEF TypeOK, Construct, Constructed
<1>2. n_free_frames' \in [Pools -> 0 .. UIntMod - 1]
  <2>. DEFINE S == InfoMarked(Frames(p), info + n - 1)
  <2>1. Cardinality(S) \in 0 .. Size[p]
    BY PoolCardinality DEF InfoMarked
  <2>2. Size[p] - Cardinality(S) \in 0 .. UIntMod - 1
    <3>. HIDE DEF S
    <3>. QED
      BY <2>1, Layout
  <2>3. n_free_frames' = [n_free_frames EXCEPT ![p] = Size[p] - Cardinality(S)]
    BY DEF Construct
  <2>. QED
    BY <2>2, <2>3 DEF TypeOK
<1>. QED
  BY <1>1, <1>2 DEF TypeOK, Construct, Listed

\* Whatever two shift counts it uses, mark_inaccessible writes two bits.
LEMMA MarkedStatus ==
    ASSUME TypeOK, NEW fs, NEW base, NEW hole
    PROVE  Marked(bits, base, fs, hole) \in [AllFrames -> Status]
<1>1. \A i, b : BitAfter(i, b, 0) \in {0, 1} /\ BitAfter(i, b, 1) \in {0, 1}
  BY DEF BitAfter
<1>2. \A v \in Status : v \div 2 \in {0, 1} /\ v % 2 \in {0, 1}
  BY DEF Status
<1>3. \A u, v \in {0, 1} : 2 * u + v \in Status
  BY DEF Status
<1>4. ASSUME NEW f \in AllFrames
      PROVE  2 * BitAfter(ByteOf(base, f), HighBit(base, f), bits[f] \div 2)
               + BitAfter(ByteOf(base, f), LowBit(base, f), bits[f] % 2) \in Status
  <2>1. bits[f] \div 2 \in {0, 1} /\ bits[f] % 2 \in {0, 1}
    BY <1>2 DEF TypeOK
  <2>2. \A i, b : BitAfter(i, b, bits[f] \div 2) \in {0, 1} /\ BitAfter(i, b, bits[f] % 2) \in {0, 1}
    BY <1>1, <2>1
  <2>. QED
    BY <1>3, <2>2
<1>. QED
  BY <1>4 DEF TypeOK, Marked

(***************************************************************************)
(* release_frames finds the pool of every frame: the process pool, which   *)
(* was constructed last, comes first, so the frame that the kernel pool    *)
(* accepts beyond its end is taken by the process pool before.             *)
(***************************************************************************)
LEMMA OwnerLemma ==
    ASSUME poolList = <<"process", "kernel">>, NEW p \in Pools, NEW f \in Frames(p)
    PROVE  OwnerIndex(f) # {} /\ Owner(f) = p
<1>1. /\ Len(poolList) = 2 /\ poolList[1] = "process" /\ poolList[2] = "kernel"
      /\ Pools = {"kernel", "process"}
  BY DEF Pools
<1>2. CASE p = "process"
  <2>1. Matches("process", f)
    BY <1>2, Layout DEF Matches
  <2>2. OwnerIndex(f) = {1}
    BY <1>1, <2>1 DEF OwnerIndex
  <2>. QED
    BY <1>1, <1>2, <2>2 DEF Owner
<1>3. CASE p = "kernel"
  <2>1. Matches("kernel", f) /\ ~Matches("process", f)
    BY <1>1, <1>3, Layout DEF Matches
  <2>2. OwnerIndex(f) = {2}
    BY <1>1, <2>1 DEF OwnerIndex
  <2>. QED
    BY <1>1, <1>3, <2>2 DEF Owner
<1>. QED
  BY <1>1, <1>2, <1>3

-----------------------------------------------------------------------------
(***************************************************************************)
(* The inductive invariant.  HeldIntact alone is not inductive: get_frames *)
(* could hand out frames right in front of an ALLOCATED frame, and the new *)
(* sequence would then swallow it.  NoOrphan excludes that: an ALLOCATED   *)
(* frame always follows a used one.                                        *)
(***************************************************************************)
HeldBits ==
    \A r \in held : \E p \in Pools :
        /\ FramesOf(r) \subseteq Frames(p)
        /\ bits[r.first] = HEAD
        /\ \A f \in FramesOf(r) : f # r.first => bits[f] = ALLOCATED

RunEnds ==
    \A r \in held, p \in Pools :
        r.first \in Frames(p) /\ r.first + r.len \in Frames(p)
            => bits[r.first + r.len] # ALLOCATED

NoOrphan ==
    \A p \in Pools : \A f \in Frames(p) :
        f + 1 \in Frames(p) /\ bits[f + 1] = ALLOCATED => bits[f] \in {HEAD, ALLOCATED}

BitmapInv == HeldBits /\ RunEnds /\ NoOrphan

PhaseInv ==
    /\ phase # "abort"
    /\ phase = "kernel_pool" => poolList = << >> /\ held = {}
    /\ phase = "info_frame" => poolList = <<"kernel">> /\ held = {}
    /\ phase = "process_pool" =>
          poolList = <<"kernel">> /\ \A r \in held : FramesOf(r) \subseteq Frames("kernel")
    /\ phase = "hole" =>
          /\ poolList = <<"process", "kernel">>
          /\ \A r \in held : FramesOf(r) \subseteq Frames("kernel")
          /\ \A f \in Frames("process") : bits[f] = FREE
    /\ phase = "up" => poolList = <<"process", "kernel">>

PoolInv == TypeOK /\ BitmapInv /\ PhaseInv

LEMMA RunFrames ==
    ASSUME NEW r \in Run
    PROVE  /\ r.first \in Nat /\ r.len \in Nat /\ r.len > 0
           /\ r.first \in FramesOf(r)
           /\ \A x : x \in FramesOf(r) <=> x \in Nat /\ r.first <= x /\ x < r.first + r.len
<1>1. r.first \in Nat /\ r.len \in Nat /\ r.len > 0
  <2>1. AllFrames \subseteq Nat
    BY Layout
  <2>2. r.first \in AllFrames /\ r.len \in Nat \ {0}
    BY DEF Run
  <2>3. \A n \in Nat \ {0} : n \in Nat /\ n > 0
    OBVIOUS
  <2>. QED
    BY <2>1, <2>2, <2>3, Zenon
<1>. QED
  BY <1>1 DEF FramesOf

(***************************************************************************)
(* Sequences that the bitmap describes do not overlap.                     *)
(***************************************************************************)
LEMMA DisjointLemma ==
    ASSUME held \subseteq Run, HeldBits, RunEnds, NEW r \in held, NEW q \in held, r # q
    PROVE  FramesOf(r) \cap FramesOf(q) = {}
<1>. SUFFICES ASSUME NEW x \in FramesOf(r) \cap FramesOf(q) PROVE FALSE
  OBVIOUS
<1>1. ASSUME NEW a \in held, NEW b \in held, a.first # b.first, b.first \in FramesOf(a)
      PROVE  FALSE
  <2>1. bits[b.first] = HEAD
    BY DEF HeldBits
  <2>2. bits[b.first] = ALLOCATED
    BY <1>1 DEF HeldBits
  <2>. QED
    BY <2>1, <2>2, StatusFacts
<1>2. ASSUME NEW a \in held, NEW b \in held, a.first = b.first, a.len < b.len
      PROVE  FALSE
  <2>1. a \in Run /\ b \in Run
    OBVIOUS
  <2>2. PICK p \in Pools : /\ FramesOf(b) \subseteq Frames(p)
                           /\ \A f \in FramesOf(b) : f # b.first => bits[f] = ALLOCATED
    BY DEF HeldBits
  <2>3. a.first + a.len \in FramesOf(b) /\ a.first + a.len # b.first /\ a.first \in FramesOf(b)
    BY <1>2, <2>1, RunFrames
  <2>. QED
    BY <2>2, <2>3 DEF RunEnds
<1>3. r \in Run /\ q \in Run
  OBVIOUS
<1>4. x \in Nat /\ r.first <= x /\ q.first <= x /\ x < r.first + r.len /\ x < q.first + q.len
  BY <1>3, RunFrames
<1>5. CASE r.first < q.first
  <2>1. q.first \in FramesOf(r)
    BY <1>3, <1>4, <1>5, RunFrames
  <2>. QED
    BY <1>1, <1>3, <1>5, <2>1, RunFrames
<1>6. CASE q.first < r.first
  <2>1. r.first \in FramesOf(q)
    BY <1>3, <1>4, <1>6, RunFrames
  <2>. QED
    BY <1>1, <1>3, <1>6, <2>1, RunFrames
<1>7. CASE r.first = q.first
  <2>1. r.len # q.len
    BY <1>3, <1>7 DEF Run
  <2>2. r.len < q.len \/ q.len < r.len
    BY <1>3, <2>1, RunFrames
  <2>. QED
    BY <1>2, <1>7, <2>2
<1>. QED
  BY <1>3, <1>5, <1>6, <1>7, RunFrames

(***************************************************************************)
(* What release_frames would free is exactly the sequence.                 *)
(***************************************************************************)
LEMMA SequenceLemma ==
    ASSUME held \subseteq Run, HeldBits, RunEnds, NEW r \in held,
           NEW p \in Pools, r.first \in Frames(p)
    PROVE  SequenceFrom(bits, Frames(p), r.first) = FramesOf(r) /\ FramesOf(r) \subseteq Frames(p)
<1>. DEFINE S == SequenceFrom(bits, Frames(p), r.first)
<1>1. r \in Run /\ r.first \in FramesOf(r)
  BY RunFrames
<1>2. PICK q \in Pools : /\ FramesOf(r) \subseteq Frames(q)
                         /\ \A f \in FramesOf(r) : f # r.first => bits[f] = ALLOCATED
  BY DEF HeldBits
<1>3. q = p
  BY <1>1, <1>2, Layout
<1>4. Frames(p) = Base[p] .. Base[p] + Size[p] - 1 /\ Base[p] \in Nat /\ Size[p] \in Nat
  BY Layout
<1>5. ASSUME NEW f \in FramesOf(r) PROVE f \in S
  <2>1. \A g \in r.first + 1 .. f : g \in FramesOf(r) /\ g # r.first
    BY <1>1, <1>5, RunFrames
  <2>2. f \in Frames(p) /\ f >= r.first
    BY <1>1, <1>2, <1>3, <1>5, RunFrames
  <2>. QED
    BY <1>2, <2>1, <2>2 DEF SequenceFrom
<1>6. ASSUME NEW f \in S PROVE f \in FramesOf(r)
  <2>1. /\ f \in Frames(p) /\ f \in Nat /\ f >= r.first
        /\ \A g \in r.first + 1 .. f : bits[g] = ALLOCATED
    BY <1>4, <1>6 DEF SequenceFrom
  <2>2. ASSUME f >= r.first + r.len PROVE FALSE
    <3>1. r.first + r.len \in r.first + 1 .. f
      BY <1>1, <2>1, <2>2, RunFrames
    <3>2. r.first + r.len \in Frames(p)
      BY <1>1, <1>4, <2>1, <2>2, RunFrames
    <3>. QED
      BY <2>1, <3>1, <3>2 DEF RunEnds
  <2>. QED
    BY <1>1, <2>1, <2>2, RunFrames
<1>. QED
  BY <1>2, <1>3, <1>5, <1>6

-----------------------------------------------------------------------------
(***************************************************************************)
(* get_frames keeps the bitmap well formed.                                *)
(***************************************************************************)
LEMMA HandBits ==
    ASSUME TypeOK, BitmapInv, NEW p \in Pools, NEW n \in Nat, n > 0, Hand(p, n)
    PROVE  BitmapInv' /\ \A r \in held' \ held : FramesOf(r) \subseteq Frames(p)
<1>. DEFINE s == FirstFit(bits, Frames(p), n)
            new == [first |-> s, len |-> n]
<1>1. /\ s \in Frames(p) /\ s \in AllFrames /\ s \in Nat
      /\ \A f \in s .. s + n - 1 : f \in Frames(p) /\ bits[f] = FREE
  BY FirstFitLemma, Layout DEF Hand, Fails
<1>2. /\ new \in Run /\ new.first = s /\ new.len = n
      /\ FramesOf(new) = s .. s + n - 1
  BY <1>1 DEF Run, FramesOf
<1>. HIDE DEF s, new
<1>3. /\ held' = held \cup {new}
      /\ bits' = [f \in AllFrames |->
                    IF f = s THEN HEAD
                    ELSE IF f \in s + 1 .. s + n - 1 THEN ALLOCATED ELSE bits[f]]
  BY DEF Hand, Claimed, TypeOK, s, new
<1>4. \A r \in held : r \in Run
  BY DEF TypeOK
<1>5. ASSUME NEW f \in AllFrames
      PROVE  /\ f = s => bits'[f] = HEAD
             /\ f \in s + 1 .. s + n - 1 => bits'[f] = ALLOCATED
             /\ f \notin s .. s + n - 1 => bits'[f] = bits[f]
  BY <1>1, <1>3
<1>6. ASSUME NEW r \in held, NEW f \in FramesOf(r)
      PROVE  f \notin s .. s + n - 1 /\ f \in AllFrames
  BY <1>1, StatusFacts, Layout DEF BitmapInv, HeldBits
<1>7. HeldBits'
  <2>1. ASSUME NEW r \in held
        PROVE  \E q \in Pools : /\ FramesOf(r) \subseteq Frames(q)
                                /\ bits'[r.first] = HEAD
                                /\ \A f \in FramesOf(r) : f # r.first => bits'[f] = ALLOCATED
    <3>1. r.first \in FramesOf(r)
      BY <1>4, RunFrames
    <3>. QED
      BY <1>5, <1>6, <3>1 DEF BitmapInv, HeldBits
  <2>2. /\ FramesOf(new) \subseteq Frames(p)
        /\ bits'[new.first] = HEAD
        /\ \A f \in FramesOf(new) : f # new.first => bits'[f] = ALLOCATED
    <3>1. ASSUME NEW f \in s .. s + n - 1, f # s PROVE f \in s + 1 .. s + n - 1
      BY <1>1, <3>1
    <3>. QED
      BY <1>1, <1>2, <1>5, <3>1, Layout
  <2>. QED
    BY <1>3, <2>1, <2>2 DEF HeldBits
<1>8. NoOrphan'
  <2>. SUFFICES ASSUME NEW q \in Pools, NEW f \in Frames(q), f + 1 \in Frames(q),
                       bits'[f + 1] = ALLOCATED
                PROVE  bits'[f] \in {HEAD, ALLOCATED}
    BY DEF NoOrphan
  <2>1. f \in AllFrames /\ f + 1 \in AllFrames /\ f \in Nat
    BY Layout
  <2>2. CASE f + 1 \in s + 1 .. s + n - 1
    <3>1. f = s \/ f \in s + 1 .. s + n - 1
      BY <1>1, <2>1, <2>2
    <3>. QED
      BY <1>5, <2>1, <3>1
  <2>3. CASE f + 1 \notin s + 1 .. s + n - 1
    <3>1. f + 1 # s
      BY <1>5, <2>1, StatusFacts
    <3>2. f + 1 \notin s .. s + n - 1
      BY <1>1, <2>1, <2>3, <3>1
    <3>3. bits[f] \in {HEAD, ALLOCATED}
      BY <1>5, <2>1, <3>2 DEF BitmapInv, NoOrphan
    <3>4. f \notin s .. s + n - 1
      BY <1>1, <3>3, StatusFacts
    <3>. QED
      BY <1>5, <2>1, <3>3, <3>4
  <2>. QED
    BY <2>2, <2>3
<1>9. RunEnds'
  <2>. SUFFICES ASSUME NEW r \in held', NEW q \in Pools,
                       r.first \in Frames(q), r.first + r.len \in Frames(q)
                PROVE  bits'[r.first + r.len] # ALLOCATED
    BY DEF RunEnds
  <2>. DEFINE e == r.first + r.len
  <2>1. e \in AllFrames /\ e \in Nat
    BY Layout
  <2>2. CASE r = new
    <3>1. e = s + n /\ e \notin s .. s + n - 1
      BY <1>1, <1>2, <2>2
    <3>2. s + n - 1 \in s .. s + n - 1 /\ (s + n - 1) + 1 = e
      BY <1>1, <3>1
    <3>3. s + n - 1 \in Frames(q)
      BY <1>1, <1>2, <2>2, <3>2, Layout
    <3>4. bits[s + n - 1] = FREE
      BY <1>1, <3>2
    <3>5. bits[e] # ALLOCATED
      BY <3>2, <3>3, <3>4, StatusFacts DEF BitmapInv, NoOrphan
    <3>. QED
      BY <1>5, <2>1, <3>1, <3>5
  <2>3. CASE r \in held
    <3>1. r \in Run /\ bits[e] # ALLOCATED
      BY <1>4, <2>3 DEF BitmapInv, RunEnds
    <3>2. e - 1 \in FramesOf(r) /\ e - 1 \in Nat
      BY <3>1, RunFrames
    <3>3. e - 1 \notin s .. s + n - 1
      BY <1>6, <2>3, <3>2
    <3>4. e \notin s + 1 .. s + n - 1
      BY <1>1, <2>1, <3>2, <3>3
    <3>5. e = s \/ e \notin s .. s + n - 1
      BY <1>1, <2>1, <3>4
    <3>. QED
      BY <1>5, <2>1, <3>1, <3>5, StatusFacts
  <2>. QED
    BY <1>3, <2>2, <2>3
<1>. QED
  BY <1>1, <1>2, <1>3, <1>7, <1>8, <1>9 DEF BitmapInv

(***************************************************************************)
(* release_frames keeps the bitmap well formed and does not abort.         *)
(***************************************************************************)
LEMMA ReleaseBits ==
    ASSUME TypeOK, BitmapInv, NEW r \in held, ReleaseFrames(r),
           poolList = <<"process", "kernel">>
    PROVE  /\ BitmapInv'
           /\ bits' = Released(bits, FramesOf(r))
           /\ phase' = phase
           /\ \E p \in Pools : /\ FramesOf(r) \subseteq Frames(p)
                               /\ n_free_frames' = [n_free_frames EXCEPT ![p] =
                                     CountUp(n_free_frames[p], Cardinality(FramesOf(r)))]
<1>1. r \in Run /\ r.first \in FramesOf(r) /\ held \subseteq Run
  BY RunFrames DEF TypeOK
<1>2. PICK p \in Pools : r.first \in Frames(p)
  BY <1>1 DEF BitmapInv, HeldBits
<1>3. /\ OwnerIndex(r.first) # {} /\ Owner(r.first) = p
      /\ bits[r.first] = HEAD
  BY <1>2, OwnerLemma DEF BitmapInv, HeldBits
<1>4. ~Asserts(r.first)
  BY <1>3 DEF Asserts
<1>5. Freed(r.first) = FramesOf(r) /\ FramesOf(r) \subseteq Frames(p)
  BY <1>1, <1>2, <1>3, SequenceLemma DEF BitmapInv, Freed
<1>6. /\ bits' = Released(bits, FramesOf(r))
      /\ phase' = phase
      /\ held' = held \ {r}
      /\ n_free_frames' = [n_free_frames EXCEPT ![p] = CountUp(n_free_frames[p], Cardinality(FramesOf(r)))]
  BY <1>3, <1>4, <1>5 DEF ReleaseFrames
<1>7. ASSUME NEW f \in AllFrames
      PROVE  bits'[f] = IF f \in FramesOf(r) THEN FREE ELSE bits[f]
  BY <1>6 DEF Released, TypeOK
<1>8. ASSUME NEW q \in held' PROVE FramesOf(q) \cap FramesOf(r) = {}
  BY <1>1, <1>6, DisjointLemma DEF BitmapInv
<1>9. HeldBits'
  <2>. SUFFICES ASSUME NEW q \in held'
                PROVE  \E o \in Pools :
                          /\ FramesOf(q) \subseteq Frames(o)
                          /\ bits'[q.first] = HEAD
                          /\ \A f \in FramesOf(q) : f # q.first => bits'[f] = ALLOCATED
    BY DEF HeldBits
  <2>1. q \in held /\ q.first \in FramesOf(q)
    BY <1>1, <1>6, RunFrames
  <2>2. \A o \in Pools : Frames(o) \subseteq AllFrames
    BY Layout
  <2>. QED
    BY <1>7, <1>8, <2>1, <2>2 DEF BitmapInv, HeldBits
<1>10. RunEnds'
  <2>. SUFFICES ASSUME NEW q \in held', NEW o \in Pools,
                       q.first \in Frames(o), q.first + q.len \in Frames(o)
                PROVE  bits'[q.first + q.len] # ALLOCATED
    BY DEF RunEnds
  <2>1. q \in held /\ q.first + q.len \in AllFrames
    BY <1>6, Layout
  <2>. QED
    BY <1>7, <2>1, StatusFacts DEF BitmapInv, RunEnds
<1>11. NoOrphan'
  <2>. SUFFICES ASSUME NEW o \in Pools, NEW f \in Frames(o), f + 1 \in Frames(o),
                       bits'[f + 1] = ALLOCATED
                PROVE  bits'[f] \in {HEAD, ALLOCATED}
    BY DEF NoOrphan
  <2>1. f \in AllFrames /\ f + 1 \in AllFrames /\ f \in Nat
    BY Layout
  <2>2. f + 1 \notin FramesOf(r) /\ bits[f + 1] = ALLOCATED
    BY <1>7, <2>1, StatusFacts
  <2>3. bits[f] \in {HEAD, ALLOCATED}
    BY <2>2 DEF BitmapInv, NoOrphan
  <2>4. f \notin FramesOf(r)
    <3>. SUFFICES ASSUME f \in FramesOf(r) PROVE FALSE
      OBVIOUS
    <3>1. r.first + r.len = f + 1
      BY <1>1, <2>1, <2>2, RunFrames
    <3>2. o = p
      BY <1>5, Layout
    <3>. QED
      BY <1>2, <2>2, <3>1, <3>2 DEF BitmapInv, RunEnds
  <2>. QED
    BY <1>7, <2>1, <2>3, <2>4
<1>. QED
  BY <1>5, <1>6, <1>9, <1>10, <1>11 DEF BitmapInv

-----------------------------------------------------------------------------
(***************************************************************************)
(* The boot sequence and the induction.                                    *)
(***************************************************************************)
LEMMA InitPool == Init => PoolInv
<1>. SUFFICES ASSUME Init PROVE PoolInv
  OBVIOUS
<1>1. NoOrphan
  BY Layout DEF Init, NoOrphan
<1>. QED
  BY <1>1, InitType DEF Init, PoolInv, BitmapInv, HeldBits, RunEnds, PhaseInv

\* A constructor marks a prefix of its pool; the other pool is not touched.
LEMMA ConstructBits ==
    ASSUME TypeOK, NEW p \in Pools, NEW info \in Nat, NEW n \in Nat, Construct(p, info, n), BitmapInv
    PROVE  /\ NoOrphan'
           /\ \A f \in AllFrames : f \notin Frames(p) => bits'[f] = bits[f]
           /\ info + n - 1 < Base[p] => \A f \in Frames(p) : bits'[f] = FREE
<1>1. /\ \A f \in AllFrames : f \notin Frames(p) => bits'[f] = bits[f]
      /\ \A f \in Frames(p) : bits'[f] = IF f <= info + n - 1 THEN ALLOCATED ELSE FREE
  <2>1. bits' = [f \in AllFrames |->
                   IF f \in InfoMarked(Frames(p), info + n - 1) THEN ALLOCATED
                   ELSE IF f \in Frames(p) THEN FREE ELSE bits[f]]
    BY DEF Construct, Constructed, TypeOK
  <2>. QED
    BY <2>1, Layout DEF InfoMarked
<1>2. NoOrphan'
  <2>. SUFFICES ASSUME NEW q \in Pools, NEW f \in Frames(q), f + 1 \in Frames(q),
                       bits'[f + 1] = ALLOCATED
                PROVE  bits'[f] \in {HEAD, ALLOCATED}
    BY DEF NoOrphan
  <2>1. f \in AllFrames /\ f + 1 \in AllFrames /\ f \in Nat
    BY Layout
  <2>2. CASE q = p
    <3>1. f + 1 <= info + n - 1
      BY <1>1, <2>2, StatusFacts
    <3>. QED
      BY <1>1, <2>1, <2>2, <3>1
  <2>3. CASE q # p
    <3>1. f \notin Frames(p) /\ f + 1 \notin Frames(p)
      BY <2>3, Layout
    <3>. QED
      BY <1>1, <2>1, <3>1 DEF BitmapInv, NoOrphan
  <2>. QED
    BY <2>2, <2>3
<1>3. ASSUME info + n - 1 < Base[p], NEW f \in Frames(p) PROVE bits'[f] = FREE
  <2>1. ~(f <= info + n - 1)
    BY <1>3, Layout
  <2>. QED
    BY <1>1, <2>1
<1>. QED
  BY <1>1, <1>2, <1>3

LEMMA KernelPoolStep == PoolInv /\ ConstructKernelPool => PoolInv'
<1>. SUFFICES ASSUME PoolInv, ConstructKernelPool PROVE PoolInv'
  OBVIOUS
<1>. USE DEF PoolInv
<1>1. "kernel" \in Pools /\ KernelBase \in Nat /\ Construct("kernel", KernelBase, 1)
  BY LayoutAssumption DEF Pools, ConstructKernelPool
<1>2. poolList = << >> /\ held = {} /\ phase' = "info_frame"
  BY DEF PhaseInv, ConstructKernelPool
<1>3. poolList' = <<"kernel">> /\ held' = {}
  BY <1>1, <1>2, ConstructType
<1>4. TypeOK'
  BY <1>1, <1>2, <1>3, ConstructType DEF TypeOK, Phases
<1>5. BitmapInv'
  BY <1>1, <1>3, ConstructBits DEF BitmapInv, HeldBits, RunEnds
<1>6. PhaseInv'
  BY <1>2, <1>3 DEF PhaseInv
<1>. QED
  BY <1>4, <1>5, <1>6

\* main() asks for at least one frame for the bitmap of the process pool.
LEMMA InfoFrameRequest ==
    NeededInfoFrames(ProcessFrames) \in Nat /\ NeededInfoFrames(ProcessFrames) > 0
<1>1. ProcessFrames \in Nat /\ ProcessFrames > 0
  BY LayoutAssumption
<1>2. \A m \in Nat : m > 0 => /\ m \div 16384 \in Nat /\ m % 16384 \in Nat
                              /\ m % 16384 = 0 => m \div 16384 > 0
  OBVIOUS
<1>. QED
  BY <1>1, <1>2 DEF NeededInfoFrames

LEMMA InfoFrameStep == PoolInv /\ TakeInfoFrame => PoolInv'
<1>. SUFFICES ASSUME PoolInv, TakeInfoFrame PROVE PoolInv'
  OBVIOUS
<1>. USE DEF PoolInv
<1>. DEFINE n == NeededInfoFrames(ProcessFrames)
<1>1. n \in Nat /\ n > 0
  BY InfoFrameRequest
<1>2. "kernel" \in Pools /\ Hand("kernel", n) /\ phase' = "process_pool" /\ phase = "info_frame"
  BY DEF Pools, TakeInfoFrame
<1>. HIDE DEF n
<1>3. poolList = <<"kernel">> /\ held = {}
  BY <1>2 DEF PhaseInv
<1>4. TypeOK' /\ poolList' = <<"kernel">>
  BY <1>1, <1>2, <1>3, HandType DEF TypeOK, Phases
<1>5. BitmapInv' /\ \A r \in held' : FramesOf(r) \subseteq Frames("kernel")
  BY <1>1, <1>2, <1>3, HandBits
<1>. QED
  BY <1>2, <1>4, <1>5 DEF PhaseInv

LEMMA ProcessPoolStep == PoolInv /\ ConstructProcessPool => PoolInv'
<1>. SUFFICES ASSUME PoolInv, ConstructProcessPool PROVE PoolInv'
  OBVIOUS
<1>. USE DEF PoolInv
<1>1. /\ phase = "process_pool" /\ phase' = "hole"
      /\ poolList = <<"kernel">>
      /\ \A r \in held : r \in Run /\ FramesOf(r) \subseteq Frames("kernel")
      /\ "process" \in Pools /\ "kernel" \in Pools
  BY DEF PhaseInv, ConstructProcessPool, TypeOK, Pools
<1>2. PICK r \in held : Construct("process", r.first, r.len)
  BY DEF ConstructProcessPool
<1>3. r.first \in Nat /\ r.len \in Nat /\ r.first + r.len - 1 \in FramesOf(r)
  BY <1>1, RunFrames
<1>4. r.first + r.len - 1 < Base["process"]
  BY <1>1, <1>3, Layout
<1>5. held' = held /\ poolList' = <<"process", "kernel">> /\ TypeOK'
  <2>1. poolList' = <<"process">> \o poolList /\ held' = held
    BY <1>1, <1>2, <1>3, ConstructType
  <2>2. <<"process">> \o <<"kernel">> = <<"process", "kernel">>
    BY <1>1, PairLemma
  <2>. QED
    BY <1>1, <1>2, <1>3, <2>1, <2>2, ConstructType DEF TypeOK, Phases
<1>6. /\ NoOrphan'
      /\ \A f \in Frames("kernel") : bits'[f] = bits[f]
      /\ \A f \in Frames("process") : bits'[f] = FREE
  BY <1>1, <1>2, <1>3, <1>4, ConstructBits, Layout
<1>7. HeldBits'
  <2>. SUFFICES ASSUME NEW q \in held
                PROVE  /\ FramesOf(q) \subseteq Frames("kernel")
                       /\ bits'[q.first] = HEAD
                       /\ \A f \in FramesOf(q) : f # q.first => bits'[f] = ALLOCATED
    BY <1>1, <1>5 DEF HeldBits
  <2>1. q.first \in FramesOf(q) /\ FramesOf(q) \subseteq Frames("kernel")
    BY <1>1, RunFrames
  <2>. QED
    BY <1>6, <2>1 DEF BitmapInv, HeldBits
<1>8. RunEnds'
  <2>. SUFFICES ASSUME NEW q \in held, NEW o \in Pools,
                       q.first \in Frames(o), q.first + q.len \in Frames(o)
                PROVE  bits'[q.first + q.len] # ALLOCATED
    BY <1>5 DEF RunEnds
  <2>1. q.first \in Frames("kernel")
    BY <1>1, RunFrames
  <2>2. o = "kernel"
    BY <1>1, <2>1, Layout
  <2>. QED
    BY <1>6, <2>2 DEF BitmapInv, RunEnds
<1>. QED
  BY <1>1, <1>5, <1>6, <1>7, <1>8 DEF BitmapInv, PhaseInv

(***************************************************************************)
(* mark_inaccessible writes to wrong frames, but it finds every frame of   *)
(* the pool FREE and clears at most one bit of it: none becomes ALLOCATED. *)
(***************************************************************************)
LEMMA MarkStep == PoolInv /\ MarkInaccessible => PoolInv'
<1>. SUFFICES ASSUME PoolInv, MarkInaccessible PROVE PoolInv'
  OBVIOUS
<1>. USE DEF PoolInv
<1>. DEFINE hole == HoleOf(Frames("process"), HoleBase, HoleFrames)
<1>1. /\ phase = "hole" /\ phase' = "up"
      /\ poolList = <<"process", "kernel">> /\ poolList' = poolList /\ held' = held
      /\ info_frame_no' = info_frame_no
      /\ bits' = Marked(bits, ProcessBase, Frames("process"), hole)
      /\ \A r \in held : r \in Run /\ FramesOf(r) \subseteq Frames("kernel")
      /\ \A f \in Frames("process") : bits[f] = FREE
      /\ Pools = {"kernel", "process"}
  BY DEF PhaseInv, MarkInaccessible, TypeOK, Pools
<1>2. bits' \in [AllFrames -> Status]
  BY <1>1, MarkedStatus
<1>3. n_free_frames' \in [Pools -> 0 .. UIntMod - 1]
  <2>1. Cardinality(hole) \in Int /\ n_free_frames["process"] \in Int
    BY <1>1, PoolCardinality, Layout DEF HoleOf, TypeOK
  <2>2. n_free_frames' = [n_free_frames EXCEPT !["process"] =
                            CountDown(n_free_frames["process"], Cardinality(hole))]
    BY DEF MarkInaccessible
  <2>3. CountDown(n_free_frames["process"], Cardinality(hole)) \in 0 .. UIntMod - 1
    BY <2>1, CounterType
  <2>. QED
    BY <2>2, <2>3 DEF TypeOK
<1>4. TypeOK'
  BY <1>1, <1>2, <1>3 DEF TypeOK, Phases
<1>5. \A f \in Frames("kernel") : bits'[f] = bits[f]
  BY <1>1, Layout DEF Marked, TypeOK
<1>6. \A f \in Frames("process") : bits'[f] # ALLOCATED
  <2>. SUFFICES ASSUME NEW f \in Frames("process") PROVE bits'[f] # ALLOCATED
    OBVIOUS
  <2>. DEFINE i == ByteOf(ProcessBase, f)
              h == BitAfter(i, HighBit(ProcessBase, f), 1)
              l == BitAfter(i, LowBit(ProcessBase, f), 1)
  <2>1. f \in AllFrames /\ bits[f] = 3 /\ 3 \div 2 = 1 /\ 3 % 2 = 1
    BY <1>1, Layout DEF FREE
  <2>2. bits'[f] = 3 \/ bits'[f] = 2 * h + l
    BY <1>1, <2>1 DEF Marked, TypeOK
  <2>3. HighBit(ProcessBase, f) # LowBit(ProcessBase, f)
    <3>1. (f - ProcessBase) % 4 \in Int
      BY <1>1, Layout
    <3>. QED
      BY <3>1 DEF HighBit, LowBit
  <2>4. h \in {0, 1} /\ l \in {0, 1} /\ (h = 1 \/ l = 1)
    BY <2>3 DEF BitAfter
  <2>. QED
    BY <2>2, <2>4 DEF ALLOCATED
<1>7. HeldBits'
  <2>. SUFFICES ASSUME NEW q \in held
                PROVE  /\ FramesOf(q) \subseteq Frames("kernel")
                       /\ bits'[q.first] = HEAD
                       /\ \A f \in FramesOf(q) : f # q.first => bits'[f] = ALLOCATED
    BY <1>1 DEF HeldBits
  <2>1. q.first \in FramesOf(q) /\ FramesOf(q) \subseteq Frames("kernel")
    BY <1>1, RunFrames
  <2>. QED
    BY <1>5, <2>1 DEF BitmapInv, HeldBits
<1>8. RunEnds' /\ NoOrphan'
  <2>1. \A p \in Pools : \A f \in Frames(p) :
          bits'[f] = ALLOCATED => p = "kernel" /\ bits[f] = ALLOCATED
    BY <1>1, <1>5, <1>6
  <2>2. RunEnds'
    BY <1>1, <2>1 DEF BitmapInv, RunEnds
  <2>3. NoOrphan'
    BY <1>5, <2>1 DEF BitmapInv, NoOrphan
  <2>. QED
    BY <2>2, <2>3
<1>. QED
  BY <1>1, <1>4, <1>7, <1>8 DEF BitmapInv, PhaseInv

LEMMA NextPool == PoolInv /\ [Next]_vars => PoolInv'
<1>. SUFFICES ASSUME PoolInv, [Next]_vars PROVE PoolInv'
  OBVIOUS
<1>1. ASSUME NEW p \in Pools, NEW n \in 1 .. MaxRun, GetFrames(p, n) PROVE PoolInv'
  <2>1. Hand(p, n) /\ n \in Nat /\ n > 0 /\ phase = "up" /\ phase' = "up"
    BY <1>1, BoundsAssumption DEF GetFrames
  <2>2. TypeOK'
    BY <2>1, HandType DEF PoolInv, TypeOK
  <2>3. BitmapInv'
    BY <2>1, HandBits DEF PoolInv
  <2>4. PhaseInv'
    BY <2>1, HandType DEF PoolInv, PhaseInv
  <2>. QED
    BY <2>2, <2>3, <2>4 DEF PoolInv
<1>2. ASSUME NEW r \in held, ReleaseFrames(r) PROVE PoolInv'
  <2>1. /\ phase = "up" /\ poolList = <<"process", "kernel">>
        /\ poolList' = poolList /\ info_frame_no' = info_frame_no
        /\ held' \subseteq held
    BY <1>2 DEF ReleaseFrames, PoolInv, PhaseInv
  <2>2. /\ BitmapInv' /\ phase' = phase
        /\ bits' = Released(bits, FramesOf(r))
    BY <1>2, <2>1, ReleaseBits DEF PoolInv
  <2>3. PICK p \in Pools : /\ FramesOf(r) \subseteq Frames(p)
                           /\ n_free_frames' = [n_free_frames EXCEPT ![p] =
                                 CountUp(n_free_frames[p], Cardinality(FramesOf(r)))]
    BY <1>2, <2>1, ReleaseBits DEF PoolInv
  <2>4. CountUp(n_free_frames[p], Cardinality(FramesOf(r))) \in 0 .. UIntMod - 1
    <3>1. Cardinality(FramesOf(r)) \in Int /\ n_free_frames[p] \in Int
      BY <2>3, PoolCardinality, Layout DEF PoolInv, TypeOK
    <3>. QED
      BY <3>1, CounterType
  <2>5. n_free_frames' \in [Pools -> 0 .. UIntMod - 1]
    BY <2>3, <2>4 DEF PoolInv, TypeOK
  <2>6. bits' \in [AllFrames -> Status]
    BY <2>2, StatusFacts DEF PoolInv, TypeOK, Released
  <2>7. TypeOK'
    BY <2>1, <2>2, <2>5, <2>6 DEF PoolInv, TypeOK
  <2>8. PhaseInv'
    BY <2>1, <2>2 DEF PoolInv, PhaseInv
  <2>. QED
    BY <2>2, <2>7, <2>8 DEF PoolInv
<1>3. CASE UNCHANGED vars
  BY <1>3 DEF vars, PoolInv, TypeOK, BitmapInv, HeldBits, RunEnds, NoOrphan, PhaseInv
<1>. QED
  BY <1>1, <1>2, <1>3, KernelPoolStep, InfoFrameStep, ProcessPoolStep, MarkStep DEF Next

LEMMA PoolInvariant == Spec => []PoolInv
BY InitPool, NextPool, PTL DEF Spec

-----------------------------------------------------------------------------
(***************************************************************************)
(* Every variable keeps its type; in particular the pool list is what the  *)
(* two constructors made it.                                               *)
(***************************************************************************)
THEOREM TypeCorrect == Spec => []TypeOK
<1>1. PoolInv => TypeOK
  BY DEF PoolInv
<1>. QED
  BY <1>1, PoolInvariant, PTL

(***************************************************************************)
(* The bitmap describes every sequence that is out.                        *)
(***************************************************************************)
THEOREM BitmapDescribesHeld == Spec => []HeldIntact
<1>1. PoolInv => HeldIntact
  <2>. SUFFICES ASSUME PoolInv, NEW r \in held
                PROVE  \E p \in Pools :
                          /\ FramesOf(r) \subseteq Frames(p)
                          /\ bits[r.first] = HEAD
                          /\ SequenceFrom(bits, Frames(p), r.first) = FramesOf(r)
    BY DEF HeldIntact
  <2>1. held \subseteq Run /\ r.first \in FramesOf(r)
    BY RunFrames DEF PoolInv, TypeOK
  <2>2. PICK p \in Pools : FramesOf(r) \subseteq Frames(p) /\ bits[r.first] = HEAD
    BY DEF PoolInv, BitmapInv, HeldBits
  <2>. QED
    BY <2>1, <2>2, SequenceLemma DEF PoolInv, BitmapInv
<1>. QED
  BY <1>1, PoolInvariant, PTL

(***************************************************************************)
(* No frame is in two sequences that are out.                              *)
(***************************************************************************)
THEOREM NoFrameTwice == Spec => []HeldDisjoint
<1>1. PoolInv => HeldDisjoint
  BY DisjointLemma DEF PoolInv, BitmapInv, TypeOK, HeldDisjoint
<1>. QED
  BY <1>1, PoolInvariant, PTL

(***************************************************************************)
(* A release of a sequence that is out never meets an assertion.           *)
(***************************************************************************)
THEOREM ReleaseNeverAborts == Spec => []NeverAborts
<1>1. PoolInv => NeverAborts
  BY DEF PoolInv, PhaseInv, NeverAborts
<1>. QED
  BY <1>1, PoolInvariant, PTL

-----------------------------------------------------------------------------
(***************************************************************************)
(* The books.  Once a pool's bitmap is in use, a frame of it is not FREE   *)
(* exactly when it is out, holds the kernel pool's bitmap or was changed   *)
(* by mark_inaccessible; no client's sequence contains a frame of the last *)
(* two kinds; every other HEAD frame heads a sequence that is out; and the *)
(* counter follows the bitmap modulo 2^w.                                  *)
(***************************************************************************)
InUse(p) == IF p = "kernel" THEN phase # "kernel_pool" ELSE phase = "up"
Kept(p) == IF p = "kernel" THEN {KernelBase} ELSE Spoiled

FramesInv == \A p \in Pools : InUse(p) =>
    \A f \in Frames(p) : bits[f] # FREE <=> f \in Kept(p) \/ \E r \in held : f \in FramesOf(r)

HeldClean == \A r \in held, p \in Pools : FramesOf(r) \cap Kept(p) = {}

HeadsHeld == \A f \in HeadFrames : \E r \in held : r.first = f

InfoInv ==
    /\ info_frame_no["kernel"] = IF phase = "kernel_pool" THEN 0 ELSE KernelBase
    /\ IF phase \in {"hole", "up"} THEN \E r \in held : r.first = info_frame_no["process"]
       ELSE info_frame_no["process"] = 0

CountRight(p) == (n_free_frames[p] + Skew[p]) % UIntMod = Cardinality(Frames(p) \ NotFree)

CountInv ==
    /\ \A p \in Pools : InUse(p) => CountRight(p)
    /\ phase = "hole" => n_free_frames["process"] = Size["process"]

BooksInv == FramesInv /\ HeldClean /\ HeadsHeld /\ InfoInv /\ CountInv

\* The count of free frames after n of them were taken or given back.
LEMMA CountStep ==
    ASSUME NEW a \in Int, NEW k \in Int, NEW c \in Nat, NEW n \in Nat,
           (a + k) % UIntMod = c
    PROVE  /\ c - n >= 0 => (CountDown(a, n) + k) % UIntMod = c - n
           /\ c + n < UIntMod => (CountUp(a, n) + k) % UIntMod = c + n
<1>1. UIntMod \in Nat /\ UIntMod > 0
  BY Layout
<1>2. PICK q \in Int : a + k = (UIntMod * q) + c /\ c \in 0 .. UIntMod - 1
  BY <1>1, DivMod
<1>3. UIntMod * q \in Int /\ (a - n) + k \in Int /\ (a + n) + k \in Int
  BY <1>1
<1>4. ASSUME c - n >= 0 PROVE (CountDown(a, n) + k) % UIntMod = c - n
  <2>1. (a - n) + k = (UIntMod * q) + (c - n) /\ c - n \in 0 .. UIntMod - 1
    BY <1>1, <1>2, <1>3, <1>4
  <2>2. ((a - n) + k) % UIntMod = c - n
    BY <1>1, <1>3, <2>1, ModUnique
  <2>3. (((a - n) % UIntMod) + k) % UIntMod = ((a - n) + k) % UIntMod
    <3>1. a - n \in Int /\ a + n \in Int
      OBVIOUS
    <3>. QED
      BY <1>1, <3>1, ModAdd
  <2>. QED
    BY <2>2, <2>3 DEF CountDown
<1>5. ASSUME c + n < UIntMod PROVE (CountUp(a, n) + k) % UIntMod = c + n
  <2>1. (a + n) + k = (UIntMod * q) + (c + n) /\ c + n \in 0 .. UIntMod - 1
    BY <1>1, <1>2, <1>3, <1>5
  <2>2. ((a + n) + k) % UIntMod = c + n
    BY <1>1, <1>3, <2>1, ModUnique
  <2>3. (((a + n) % UIntMod) + k) % UIntMod = ((a + n) + k) % UIntMod
    <3>1. a - n \in Int /\ a + n \in Int
      OBVIOUS
    <3>. QED
      BY <1>1, <3>1, ModAdd
  <2>. QED
    BY <2>2, <2>3 DEF CountUp
<1>. QED
  BY <1>4, <1>5

-----------------------------------------------------------------------------
(***************************************************************************)
(* Counting runs and what is left of a pool without one.                   *)
(***************************************************************************)
LEMMA RunCardinality ==
    ASSUME NEW r \in Run
    PROVE  Cardinality(FramesOf(r)) = r.len
<1>. DEFINE a == r.first
            b == r.first + r.len - 1
<1>1. a \in Int /\ b \in Int /\ ~(a > b) /\ b - a + 1 = r.len /\ FramesOf(r) = a .. b
  BY RunFrames DEF FramesOf
<1>2. Cardinality(a .. b) = IF a > b THEN 0 ELSE b - a + 1
  <2>. HIDE DEF a, b
  <2>. QED
    BY <1>1, FS_Interval
<1>. QED
  BY <1>1, <1>2, Zenon

LEMMA PartCardinality ==
    ASSUME NEW p \in Pools, NEW T, T \subseteq Frames(p), NEW S, S \subseteq T
    PROVE  /\ Cardinality(T \ S) = Cardinality(T) - Cardinality(S)
           /\ Cardinality(T) \in Nat /\ Cardinality(T) <= Size[p]
           /\ Cardinality(S) \in Nat /\ Cardinality(T) - Cardinality(S) >= 0
<1>1. /\ IsFiniteSet(T) /\ Cardinality(T) \in 0 .. Size[p]
      /\ IsFiniteSet(S) /\ Cardinality(S) \in 0 .. Size[p]
      /\ Size[p] \in Nat
  BY PoolCardinality, Layout
<1>2. Cardinality(S) <= Cardinality(T)
  BY <1>1, FS_Subset
<1>3. T \cap S = S
  OBVIOUS
<1>4. Cardinality(T \ S) = Cardinality(T) - Cardinality(S)
  BY <1>1, <1>3, FS_Difference
<1>5. \A x, y, z \in Int : x \in 0 .. z /\ y \in 0 .. z /\ y <= x =>
                             x \in Nat /\ x <= z /\ y \in Nat /\ x - y >= 0
  OBVIOUS
<1>. QED
  BY <1>1, <1>2, <1>4, <1>5

LEMMA SkewType == \A p \in Pools : Skew[p] \in Int
<1>1. "process" \in Pools /\ Hole \subseteq Frames("process") /\ Spoiled \subseteq Frames("process")
  BY DEF Pools, Hole, HoleOf, Spoiled
<1>2. Cardinality(Hole) \in Int /\ Cardinality(Spoiled) \in Int
  BY <1>1, PoolCardinality, Layout
<1>. QED
  BY <1>2 DEF Skew

(***************************************************************************)
(* get_frames hands out one new run of FREE frames of the pool.            *)
(***************************************************************************)
LEMMA HandFacts ==
    ASSUME TypeOK, NEW p \in Pools, NEW n \in Nat, n > 0, Hand(p, n)
    PROVE  \E r \in Run :
              /\ r.len = n
              /\ FramesOf(r) \subseteq Frames(p)
              /\ \A f \in FramesOf(r) : bits[f] = FREE
              /\ held' = held \cup {r}
              /\ \A f \in AllFrames :
                    bits'[f] = IF f = r.first THEN HEAD
                               ELSE IF f \in FramesOf(r) THEN ALLOCATED ELSE bits[f]
              /\ n_free_frames' = [n_free_frames EXCEPT ![p] = CountDown(n_free_frames[p], n)]
              /\ info_frame_no' = info_frame_no
<1>. DEFINE s == FirstFit(bits, Frames(p), n)
            r == [first |-> s, len |-> n]
<1>1. /\ s \in AllFrames /\ s \in Nat
      /\ \A f \in s .. s + n - 1 : f \in Frames(p) /\ bits[f] = FREE
  BY FirstFitLemma, Layout DEF Hand, Fails
<1>2. r \in Run /\ r.first = s /\ r.len = n /\ FramesOf(r) = s .. s + n - 1
  BY <1>1 DEF Run, FramesOf
<1>3. /\ held' = held \cup {r}
      /\ bits' = Claimed(bits, s, n)
      /\ n_free_frames' = [n_free_frames EXCEPT ![p] = CountDown(n_free_frames[p], n)]
      /\ info_frame_no' = info_frame_no
  BY DEF Hand
<1>. HIDE DEF s
<1>4. ASSUME NEW f \in AllFrames
      PROVE  bits'[f] = IF f = r.first THEN HEAD
                        ELSE IF f \in FramesOf(r) THEN ALLOCATED ELSE bits[f]
  <2>1. bits'[f] = IF f = s THEN HEAD
                   ELSE IF f \in s + 1 .. s + n - 1 THEN ALLOCATED ELSE bits[f]
    BY <1>3 DEF Claimed, TypeOK
  <2>2. f # s => (f \in s + 1 .. s + n - 1 <=> f \in s .. s + n - 1)
    BY <1>1
  <2>. QED
    BY <1>2, <2>1, <2>2
<1>. HIDE DEF r
<1>. QED
  BY <1>1, <1>2, <1>3, <1>4

(***************************************************************************)
(* get_frames keeps the books: on the kernel pool for main(), and on both  *)
(* pools for the clients.                                                  *)
(***************************************************************************)
LEMMA HandBooks ==
    ASSUME PoolInv, BooksInv, NEW p \in Pools, NEW n \in Nat, n > 0, Hand(p, n),
           InUse(p), phase \in {"info_frame", "up"},
           phase' = IF phase = "up" THEN "up" ELSE "process_pool"
    PROVE  BooksInv'
<1>1. PICK r \in Run :
          /\ r.len = n
          /\ FramesOf(r) \subseteq Frames(p)
          /\ \A f \in FramesOf(r) : bits[f] = FREE
          /\ held' = held \cup {r}
          /\ \A f \in AllFrames :
                bits'[f] = IF f = r.first THEN HEAD
                           ELSE IF f \in FramesOf(r) THEN ALLOCATED ELSE bits[f]
          /\ n_free_frames' = [n_free_frames EXCEPT ![p] = CountDown(n_free_frames[p], n)]
          /\ info_frame_no' = info_frame_no
  BY HandFacts DEF PoolInv
<1>2. \A q \in Pools : InUse(q)' <=> InUse(q)
  BY DEF InUse
<1>3. \A q \in Pools : Frames(q) \subseteq AllFrames /\ (q # p => Frames(q) \cap Frames(p) = {})
  BY Layout
<1>4. r.first \in FramesOf(r)
  BY RunFrames
<1>5. ASSUME NEW f \in AllFrames
      PROVE  /\ bits'[f] # FREE <=> bits[f] # FREE \/ f \in FramesOf(r)
             /\ f \notin FramesOf(r) => bits'[f] = bits[f]
  BY <1>1, <1>4, StatusFacts
<1>6. FramesInv'
  BY <1>1, <1>2, <1>3, <1>5 DEF BooksInv, FramesInv, Kept
<1>7. HeldClean'
  <2>1. ASSUME NEW q \in Pools PROVE FramesOf(r) \cap Kept(q) = {}
    <3>1. CASE q = p
      <4>1. \A f \in Kept(p) : f \in Frames(p) => bits[f] # FREE
        BY DEF BooksInv, FramesInv
      <4>. QED
        BY <1>1, <3>1, <4>1
    <3>2. CASE q # p
      <4>1. Kept(q) \subseteq Frames(q)
        BY Layout DEF Kept, Spoiled, Pools
      <4>. QED
        BY <1>1, <1>3, <3>2, <4>1
    <3>. QED
      BY <3>1, <3>2
  <2>. QED
    BY <1>1, <2>1 DEF BooksInv, HeldClean, Kept
<1>8. HeadsHeld'
  BY <1>1, <1>5, StatusFacts DEF BooksInv, HeadsHeld, HeadFrames
<1>9. InfoInv'
  BY <1>1 DEF BooksInv, InfoInv
<1>10. CountInv'
  <2>. SUFFICES ASSUME NEW q \in Pools, InUse(q)
                PROVE  (n_free_frames'[q] + Skew[q]) % UIntMod = Cardinality(Frames(q) \ NotFree')
    BY <1>2 DEF CountInv, CountRight
  <2>. DEFINE F == Frames(q) \ NotFree
  <2>1. (n_free_frames[q] + Skew[q]) % UIntMod = Cardinality(F)
    BY DEF BooksInv, CountInv, CountRight
  <2>2. \A f \in AllFrames : f \in NotFree' <=> f \in NotFree \/ f \in FramesOf(r)
    BY <1>5 DEF NotFree
  <2>3. CASE q # p
    <3>1. Frames(q) \ NotFree' = F
      BY <1>1, <1>3, <2>2, <2>3
    <3>2. n_free_frames'[q] = n_free_frames[q]
      BY <1>1, <2>3 DEF PoolInv, TypeOK
    <3>. QED
      BY <2>1, <3>1, <3>2
  <2>4. CASE q = p
    <3>1. Frames(q) \ NotFree' = F \ FramesOf(r)
      BY <1>1, <1>3, <2>2
    <3>2. FramesOf(r) \subseteq F
      BY <1>1, <2>4 DEF NotFree
    <3>3. /\ Cardinality(F \ FramesOf(r)) = Cardinality(F) - Cardinality(FramesOf(r))
          /\ Cardinality(F) \in Nat /\ Cardinality(F) - Cardinality(FramesOf(r)) >= 0
      BY <3>2, PartCardinality
    <3>4. Cardinality(FramesOf(r)) = n
      BY <1>1, RunCardinality
    <3>5. n_free_frames'[q] = CountDown(n_free_frames[q], n)
      BY <1>1, <2>4 DEF PoolInv, TypeOK
    <3>6. n_free_frames[q] \in Int /\ Skew[q] \in Int
      BY Layout, SkewType DEF PoolInv, TypeOK
    <3>. HIDE DEF F
    <3>7. (CountDown(n_free_frames[q], n) + Skew[q]) % UIntMod = Cardinality(F) - n
      BY <2>1, <3>3, <3>4, <3>6, CountStep
    <3>. QED
      BY <3>1, <3>3, <3>4, <3>5, <3>7
  <2>. QED
    BY <2>3, <2>4
<1>. QED
  BY <1>6, <1>7, <1>8, <1>9, <1>10 DEF BooksInv

-----------------------------------------------------------------------------
LEMMA InitBooks == Init => BooksInv
<1>. SUFFICES ASSUME Init PROVE BooksInv
  OBVIOUS
<1>1. FramesInv /\ CountInv
  BY DEF Init, FramesInv, CountInv, InUse
<1>2. HeldClean
  BY DEF Init, HeldClean
<1>3. HeadsHeld
  BY StatusFacts DEF Init, HeadsHeld, HeadFrames
<1>4. InfoInv
  BY DEF Init, InfoInv, Pools
<1>. QED
  BY <1>1, <1>2, <1>3, <1>4 DEF BooksInv

\* The kernel pool's bitmap is its first frame, and the count leaves it out.
LEMMA KernelPoolBooks == PoolInv /\ BooksInv /\ ConstructKernelPool => BooksInv'
<1>. SUFFICES ASSUME PoolInv, BooksInv, ConstructKernelPool PROVE BooksInv'
  OBVIOUS
<1>. DEFINE K == Frames("kernel")
            k == KernelBase
<1>1. /\ phase = "kernel_pool" /\ phase' = "info_frame" /\ held = {} /\ held' = {}
      /\ Construct("kernel", KernelBase, 1)
      /\ Pools = {"kernel", "process"}
  BY DEF ConstructKernelPool, Construct, PoolInv, PhaseInv, Pools
<1>. DEFINE marked == InfoMarked(K, KernelBase + 1 - 1)
<1>2. marked = {KernelBase} /\ KernelBase \in K
  BY <1>1, Layout DEF InfoMarked
<1>3. /\ \A f \in K : bits'[f] = IF f = KernelBase THEN ALLOCATED ELSE FREE
      /\ \A f \in AllFrames : f \notin K => bits'[f] = bits[f]
      /\ K \subseteq AllFrames
  <2>1. /\ \A f \in AllFrames :
              bits'[f] = IF f \in marked THEN ALLOCATED
                         ELSE IF f \in K THEN FREE ELSE bits[f]
        /\ K \subseteq AllFrames
    BY <1>1, Layout DEF Construct, Constructed, PoolInv, TypeOK
  <2>. HIDE DEF K, marked
  <2>. QED
    BY <1>2, <2>1
<1>4. FramesInv'
  BY <1>1, <1>3, StatusFacts DEF FramesInv, InUse, Kept
<1>5. HeldClean'
  BY <1>1 DEF HeldClean
<1>6. HeadsHeld'
  BY <1>1, <1>3, StatusFacts DEF BooksInv, HeadsHeld, HeadFrames
<1>7. InfoInv'
  BY <1>1 DEF Construct, BooksInv, InfoInv, PoolInv, TypeOK
<1>8. CountInv'
  <2>. SUFFICES (n_free_frames'["kernel"] + Skew["kernel"]) % UIntMod
                   = Cardinality(K \ NotFree')
    BY <1>1 DEF CountInv, CountRight, InUse
  <2>1. {KernelBase} \subseteq K /\ K \subseteq K
    BY <1>1, Layout
  <2>2. K \ NotFree' = K \ {KernelBase}
    BY <1>3, StatusFacts DEF NotFree
  <2>3. /\ Cardinality({KernelBase}) = 1
        /\ Cardinality(K) = Size["kernel"]
    BY <1>1, FS_Singleton, PoolSize
  <2>4. Cardinality(K \ {KernelBase}) = Size["kernel"] - 1
    BY <1>1, <2>1, <2>3, PartCardinality
  <2>5. n_free_frames'["kernel"] = Size["kernel"] - 1 /\ Skew["kernel"] = 0
    BY <1>1, <1>2, <2>3 DEF Construct, PoolInv, TypeOK, Skew
  <2>6. /\ Size["kernel"] - 1 \in Nat /\ Size["kernel"] - 1 < UIntMod
        /\ (Size["kernel"] - 1) + 0 = Size["kernel"] - 1 /\ UIntMod \in Nat
    BY <1>1, Layout
  <2>7. (Size["kernel"] - 1) % UIntMod = Size["kernel"] - 1
    BY <2>6, ModSmall
  <2>. QED
    BY <2>2, <2>4, <2>5, <2>6, <2>7
<1>. QED
  BY <1>4, <1>5, <1>6, <1>7, <1>8 DEF BooksInv

\* The process pool's bitmap lies in the kernel pool: all its frames are free.
LEMMA ProcessPoolBooks == PoolInv /\ BooksInv /\ ConstructProcessPool => BooksInv'
<1>. SUFFICES ASSUME PoolInv, BooksInv, ConstructProcessPool PROVE BooksInv'
  OBVIOUS
<1>1. /\ phase = "process_pool" /\ phase' = "hole"
      /\ Pools = {"kernel", "process"}
      /\ \A r \in held : r \in Run /\ FramesOf(r) \subseteq Frames("kernel")
  BY DEF ConstructProcessPool, PoolInv, PhaseInv, TypeOK, Pools
<1>2. PICK r \in held : Construct("process", r.first, r.len)
  BY DEF ConstructProcessPool
<1>3. r.first \in Nat /\ r.len \in Nat /\ r.first + r.len - 1 \in FramesOf(r)
  BY <1>1, RunFrames
<1>4. InfoMarked(Frames("process"), r.first + r.len - 1) = {}
  BY <1>1, <1>3, Layout DEF InfoMarked
<1>5. /\ \A f \in Frames("process") : bits'[f] = FREE
      /\ \A f \in AllFrames : f \notin Frames("process") => bits'[f] = bits[f]
      /\ held' = held
  <2>1. \A f \in AllFrames :
              bits'[f] = IF f \in InfoMarked(Frames("process"), r.first + r.len - 1)
                         THEN ALLOCATED
                         ELSE IF f \in Frames("process") THEN FREE ELSE bits[f]
    BY <1>2 DEF Construct, Constructed, PoolInv, TypeOK
  <2>2. Frames("process") \subseteq AllFrames /\ held' = held
    BY <1>1, <1>2, Layout DEF Construct
  <2>. QED
    BY <1>4, <2>1, <2>2
<1>6. \A f \in Frames("kernel") : bits'[f] = bits[f]
  BY <1>1, <1>5, Layout
<1>7. FramesInv'
  BY <1>1, <1>5, <1>6 DEF BooksInv, FramesInv, InUse, Kept
<1>8. HeldClean'
  BY <1>5 DEF BooksInv, HeldClean, Kept
<1>9. HeadsHeld'
  BY <1>5, StatusFacts DEF BooksInv, HeadsHeld, HeadFrames
<1>10. /\ info_frame_no' = [info_frame_no EXCEPT !["process"] = r.first]
       /\ n_free_frames' = [n_free_frames EXCEPT !["process"] = Size["process"] - Cardinality({})]
  BY <1>2, <1>4 DEF Construct
<1>11. InfoInv'
  BY <1>1, <1>5, <1>10 DEF BooksInv, InfoInv, PoolInv, TypeOK
<1>12. CountInv'
  <2>1. n_free_frames'["process"] = Size["process"] /\ n_free_frames'["kernel"] = n_free_frames["kernel"]
    BY <1>1, <1>10, FS_EmptySet, Layout DEF PoolInv, TypeOK
  <2>2. Frames("kernel") \ NotFree' = Frames("kernel") \ NotFree
    BY <1>1, <1>6, Layout DEF NotFree
  <2>. QED
    BY <1>1, <2>1, <2>2 DEF BooksInv, CountInv, CountRight, InUse
<1>. QED
  BY <1>7, <1>8, <1>9, <1>11, <1>12 DEF BooksInv

(***************************************************************************)
(* mark_inaccessible finds every frame of the pool FREE, so the frames it  *)
(* changes are those it changes in a pool that is all FREE.                *)
(***************************************************************************)
LEMMA MarkBooks == PoolInv /\ BooksInv /\ MarkInaccessible => BooksInv'
<1>. SUFFICES ASSUME PoolInv, BooksInv, MarkInaccessible PROVE BooksInv'
  OBVIOUS
<1>. DEFINE P == Frames("process")
<1>1. /\ phase = "hole" /\ phase' = "up" /\ held' = held
      /\ info_frame_no' = info_frame_no
      /\ bits' = Marked(bits, ProcessBase, P, Hole)
      /\ n_free_frames' = [n_free_frames EXCEPT !["process"] =
                             CountDown(n_free_frames["process"], Cardinality(Hole))]
      /\ Pools = {"kernel", "process"}
      /\ \A f \in P : bits[f] = FREE
      /\ \A r \in held : r \in Run /\ FramesOf(r) \subseteq Frames("kernel")
      /\ P \subseteq AllFrames
  BY Layout DEF MarkInaccessible, PoolInv, PhaseInv, TypeOK, Pools, Hole
<1>2. /\ \A f \in AllFrames : f \notin P => bits'[f] = bits[f]
      /\ \A f \in P : bits'[f] = Marked(AllFree, ProcessBase, P, Hole)[f]
  BY <1>1 DEF Marked, PoolInv, TypeOK, AllFree
<1>3. \A f \in P : bits'[f] # FREE <=> f \in Spoiled
  BY <1>2 DEF Spoiled
<1>4. \A f \in Frames("kernel") : bits'[f] = bits[f] /\ f \in AllFrames /\ f \notin P
  BY <1>1, <1>2, Layout
<1>5. \A f \in P : ~ \E r \in held : f \in FramesOf(r)
  BY <1>1, <1>4
<1>6. FramesInv'
  BY <1>1, <1>3, <1>4, <1>5 DEF BooksInv, FramesInv, InUse, Kept
<1>7. HeldClean'
  BY <1>1 DEF BooksInv, HeldClean, Kept
<1>8. HeadsHeld'
  BY <1>1, <1>2, <1>3, StatusFacts DEF BooksInv, HeadsHeld, HeadFrames
<1>9. InfoInv'
  BY <1>1 DEF BooksInv, InfoInv
<1>10. CountInv'
  <2>1. Frames("kernel") \ NotFree' = Frames("kernel") \ NotFree
    BY <1>4 DEF NotFree
  <2>2. n_free_frames'["kernel"] = n_free_frames["kernel"]
    BY <1>1 DEF PoolInv, TypeOK
  <2>3. CountRight("kernel")'
    BY <1>1, <2>1, <2>2 DEF BooksInv, CountInv, CountRight, InUse
  <2>4. P \ NotFree' = P \ Spoiled
    BY <1>1, <1>3 DEF NotFree
  <2>5. Spoiled \subseteq P /\ Hole \subseteq P
    BY DEF Spoiled, Hole, HoleOf
  <2>6. Cardinality(P) = Size["process"]
    BY <1>1, PoolSize
  <2>7. Cardinality(P \ Spoiled) = Size["process"] - Cardinality(Spoiled)
    BY <1>1, <2>5, <2>6, PartCardinality
  <2>. DEFINE h == Cardinality(Hole)
              c == Cardinality(Spoiled)
  <2>8. h \in Nat /\ c \in Nat /\ c <= Size["process"]
    BY <1>1, <2>5, <2>6, PartCardinality, PoolCardinality, Layout
  <2>9. n_free_frames'["process"] = (Size["process"] - h) % UIntMod /\ Skew["process"] = h - c
    BY <1>1 DEF BooksInv, CountInv, PoolInv, TypeOK, CountDown, Skew
  <2>. HIDE DEF h, c
  <2>11. Size["process"] \in Nat /\ Size["process"] < UIntMod /\ UIntMod \in Nat /\ UIntMod > 0
    BY <1>1, Layout
  <2>12. (((Size["process"] - h) % UIntMod) + (h - c)) % UIntMod
            = ((Size["process"] - h) + (h - c)) % UIntMod
    <3>1. Size["process"] - h \in Int /\ h - c \in Int
      BY <2>8, <2>11
    <3>. QED
      BY <2>11, <3>1, ModAdd
  <2>13. (Size["process"] - h) + (h - c) = Size["process"] - c
    BY <2>8, <2>11
  <2>14. (Size["process"] - c) % UIntMod = Size["process"] - c
    <3>1. Size["process"] - c \in Nat /\ Size["process"] - c < UIntMod
      BY <2>8, <2>11
    <3>. QED
      BY <2>11, <3>1, ModSmall
  <2>15. CountRight("process")'
    BY <2>4, <2>7, <2>9, <2>12, <2>13, <2>14 DEF CountRight, c
  <2>. QED
    BY <1>1, <2>3, <2>15 DEF CountInv
<1>. QED
  BY <1>6, <1>7, <1>8, <1>9, <1>10 DEF BooksInv

(***************************************************************************)
(* release_frames gives back the frames of one sequence and no other.      *)
(***************************************************************************)
LEMMA ReleaseBooks ==
    ASSUME PoolInv, BooksInv, NEW r \in held, ReleaseFrames(r)
    PROVE  BooksInv'
<1>1. /\ phase = "up" /\ poolList = <<"process", "kernel">>
      /\ held' = held \ {r} /\ info_frame_no' = info_frame_no
      /\ r.first # info_frame_no["process"]
      /\ r \in Run /\ held \subseteq Run
  BY DEF ReleaseFrames, PoolInv, PhaseInv, TypeOK
<1>2. /\ phase' = phase
      /\ bits' = Released(bits, FramesOf(r))
      /\ \E p \in Pools : /\ FramesOf(r) \subseteq Frames(p)
                          /\ n_free_frames' = [n_free_frames EXCEPT ![p] =
                                CountUp(n_free_frames[p], Cardinality(FramesOf(r)))]
  BY <1>1, ReleaseBits DEF PoolInv
<1>3. PICK p \in Pools : /\ FramesOf(r) \subseteq Frames(p)
                         /\ n_free_frames' = [n_free_frames EXCEPT ![p] =
                               CountUp(n_free_frames[p], Cardinality(FramesOf(r)))]
  BY <1>2
<1>4. \A f \in AllFrames : bits'[f] = IF f \in FramesOf(r) THEN FREE ELSE bits[f]
  BY <1>2 DEF Released, PoolInv, TypeOK
<1>5. \A q \in held : q # r => FramesOf(q) \cap FramesOf(r) = {}
  BY <1>1, DisjointLemma DEF PoolInv, BitmapInv
<1>6. \A q \in Pools : Frames(q) \subseteq AllFrames /\ (q # p => Frames(q) \cap Frames(p) = {})
  BY Layout
<1>7. \A q \in Pools : FramesOf(r) \cap Kept(q) = {}
  BY DEF BooksInv, HeldClean
<1>8. FramesInv'
  BY <1>1, <1>2, <1>4, <1>5, <1>6, <1>7 DEF BooksInv, FramesInv, InUse, Kept
<1>9. HeldClean'
  BY <1>1 DEF BooksInv, HeldClean, Kept
<1>10. HeadsHeld'
  <2>1. r.first \in FramesOf(r)
    BY <1>1, RunFrames
  <2>. QED
    BY <1>1, <1>4, <2>1, StatusFacts DEF BooksInv, HeadsHeld, HeadFrames
<1>11. InfoInv'
  BY <1>1, <1>2 DEF BooksInv, InfoInv
<1>12. CountInv'
  <2>. SUFFICES ASSUME NEW q \in Pools
                PROVE  (n_free_frames'[q] + Skew[q]) % UIntMod = Cardinality(Frames(q) \ NotFree')
    BY <1>1, <1>2 DEF CountInv, CountRight
  <2>. DEFINE F == Frames(q) \ NotFree
              G == Frames(q) \ NotFree'
  <2>1. (n_free_frames[q] + Skew[q]) % UIntMod = Cardinality(F)
    BY <1>1 DEF BooksInv, CountInv, CountRight, InUse
  <2>2. \A f \in AllFrames : f \in NotFree' <=> f \in NotFree /\ f \notin FramesOf(r)
    BY <1>4 DEF NotFree
  <2>3. CASE q # p
    <3>1. G = F
      BY <1>3, <1>6, <2>2, <2>3
    <3>2. n_free_frames'[q] = n_free_frames[q]
      BY <1>3, <2>3 DEF PoolInv, TypeOK
    <3>. QED
      BY <2>1, <3>1, <3>2
  <2>4. CASE q = p
    <3>1. \A f \in FramesOf(r) : f \in NotFree
      BY <1>1, <1>3, <1>6 DEF BooksInv, FramesInv, NotFree, InUse
    <3>2. F = G \ FramesOf(r)
      BY <1>3, <1>6, <2>2, <2>4, <3>1
    <3>3. FramesOf(r) \subseteq G
      BY <1>3, <1>6, <2>2, <2>4
    <3>4. /\ Cardinality(F) = Cardinality(G) - Cardinality(FramesOf(r))
          /\ Cardinality(G) \in Nat /\ Cardinality(G) <= Size[q]
          /\ Cardinality(FramesOf(r)) \in Nat
      BY <3>2, <3>3, PartCardinality
    <3>5. n_free_frames'[q] = CountUp(n_free_frames[q], Cardinality(FramesOf(r)))
      BY <1>3, <2>4 DEF PoolInv, TypeOK
    <3>6. n_free_frames[q] \in Int /\ Skew[q] \in Int /\ Size[q] < UIntMod
          /\ Size[q] \in Nat /\ UIntMod \in Nat
      BY Layout, SkewType DEF PoolInv, TypeOK
    <3>7. Cardinality(F) \in Nat
      BY PoolCardinality, Layout
    <3>. DEFINE n == Cardinality(FramesOf(r))
    <3>. HIDE DEF F, G, n
    <3>8. n \in Nat /\ Cardinality(F) + n = Cardinality(G) /\ Cardinality(F) + n < UIntMod
      BY <3>4, <3>6, <3>7 DEF n
    <3>9. (CountUp(n_free_frames[q], n) + Skew[q]) % UIntMod = Cardinality(F) + n
      BY <2>1, <3>6, <3>7, <3>8, CountStep
    <3>. QED
      BY <3>5, <3>8, <3>9 DEF n, G
  <2>. QED
    BY <2>3, <2>4
<1>. QED
  BY <1>8, <1>9, <1>10, <1>11, <1>12 DEF BooksInv

LEMMA NextBooks == PoolInv /\ BooksInv /\ [Next]_vars => BooksInv'
<1>. SUFFICES ASSUME PoolInv, BooksInv, [Next]_vars PROVE BooksInv'
  OBVIOUS
<1>1. ASSUME NEW p \in Pools, NEW n \in 1 .. MaxRun, GetFrames(p, n) PROVE BooksInv'
  <2>1. Hand(p, n) /\ n \in Nat /\ n > 0 /\ phase = "up" /\ phase' = "up" /\ InUse(p)
    BY <1>1, BoundsAssumption DEF GetFrames, InUse
  <2>. QED
    BY <2>1, HandBooks
<1>2. ASSUME TakeInfoFrame PROVE BooksInv'
  <2>1. /\ "kernel" \in Pools /\ InUse("kernel")
        /\ Hand("kernel", NeededInfoFrames(ProcessFrames))
        /\ phase = "info_frame" /\ phase' = "process_pool"
    BY <1>2 DEF TakeInfoFrame, Pools, InUse
  <2>. QED
    BY <2>1, InfoFrameRequest, HandBooks
<1>3. CASE UNCHANGED vars
  BY <1>3 DEF vars, BooksInv, FramesInv, InUse, Kept, HeldClean, HeadsHeld, HeadFrames,
              InfoInv, CountInv, CountRight, NotFree
<1>. QED
  BY <1>1, <1>2, <1>3, KernelPoolBooks, ProcessPoolBooks, MarkBooks, ReleaseBooks DEF Next

LEMMA BooksInvariant == Spec => []BooksInv
BY InitBooks, NextBooks, PoolInvariant, PTL DEF Spec

(***************************************************************************)
(* The books of a pool are right after any history of calls: the bitmaps   *)
(* are in nobody's hands, no frame leaks, and n_free_frames is off by the  *)
(* frames that mark_inaccessible counted and left FREE, and by no more.    *)
(***************************************************************************)
THEOREM BooksAlwaysRight == Spec => []BooksRight
<1>1. PoolInv /\ BooksInv => BitmapsSafe
  <2>. SUFFICES ASSUME PoolInv, BooksInv, NEW p \in Pools, info_frame_no[p] # 0
                PROVE  /\ bits[info_frame_no[p]] # FREE
                       /\ \A r \in held : info_frame_no[p] \in FramesOf(r)
                             => p = "process" /\ r.first = info_frame_no[p]
    BY DEF BitmapsSafe
  <2>1. CASE p = "kernel"
    <3>1. info_frame_no[p] = KernelBase /\ phase # "kernel_pool"
      BY <2>1 DEF BooksInv, InfoInv
    <3>2. KernelBase \in Frames("kernel") /\ "kernel" \in Pools
      BY <2>1, Layout
    <3>3. bits[KernelBase] # FREE
      BY <3>1, <3>2 DEF BooksInv, FramesInv, InUse, Kept
    <3>4. \A r \in held : KernelBase \notin FramesOf(r)
      BY <3>2 DEF BooksInv, HeldClean, Kept
    <3>. QED
      BY <3>1, <3>3, <3>4
  <2>2. CASE p = "process"
    <3>1. PICK q \in held : q.first = info_frame_no["process"]
      BY <2>2 DEF BooksInv, InfoInv
    <3>2. bits[q.first] = HEAD /\ held \subseteq Run /\ q.first \in FramesOf(q)
      BY RunFrames DEF PoolInv, BitmapInv, HeldBits, TypeOK
    <3>3. \A r \in held : q.first \in FramesOf(r) => r = q
      BY <3>2, DisjointLemma DEF PoolInv, BitmapInv
    <3>. QED
      BY <2>2, <3>1, <3>2, <3>3, StatusFacts
  <2>. QED
    BY <2>1, <2>2 DEF Pools
<1>2. PoolInv /\ BooksInv => FramesAccounted
  <2>. SUFFICES ASSUME PoolInv, BooksInv, phase = "up"
                PROVE  NotFree = (UNION {FramesOf(r) : r \in held}) \cup {KernelBase} \cup Spoiled
    BY DEF FramesAccounted
  <2>1. \A p \in Pools : \A f \in Frames(p) :
            bits[f] # FREE <=> f \in Kept(p) \/ \E r \in held : f \in FramesOf(r)
    BY DEF BooksInv, FramesInv, InUse
  <2>2. /\ Pools = {"kernel", "process"}
        /\ AllFrames = Frames("kernel") \cup Frames("process")
        /\ Frames("kernel") \cap Frames("process") = {}
        /\ KernelBase \in Frames("kernel") /\ Spoiled \subseteq Frames("process")
    BY Layout DEF Pools, AllFrames, Spoiled
  <2>3. \A r \in held : FramesOf(r) \subseteq AllFrames
    BY <2>2 DEF PoolInv, BitmapInv, HeldBits
  <2>4. \A f \in AllFrames : f \in NotFree <=>
            f \in {KernelBase} \cup Spoiled \/ \E r \in held : f \in FramesOf(r)
    BY <2>1, <2>2 DEF Kept, NotFree
  <2>. QED
    BY <2>2, <2>3, <2>4 DEF NotFree
<1>3. BooksInv => FreeCount
  BY DEF BooksInv, CountInv, CountRight, InUse, FreeCount
<1>. QED
  BY <1>1, <1>2, <1>3, PoolInvariant, BooksInvariant, PTL DEF BooksRight

(***************************************************************************)
(* When a request succeeds.  The kernel pool serves every request for      *)
(* which a run is free; the process pool does so as well, but for the one  *)
(* number of free frames at which its counter, skewed by                   *)
(* mark_inaccessible, is zero.                                             *)
(***************************************************************************)
THEOREM RequestsSucceed == Spec => []RefusalsJustified
<1>1. ASSUME TypeOK, BooksInv, phase = "up", NEW p \in Pools, NEW n \in 1 .. MaxRun,
             Fails(p, n), RunLeft(p, n)
      PROVE  p = "process" /\ Cardinality(Frames(p) \ NotFree) = Skew[p] % UIntMod
  <2>1. PICK s \in Frames(p) : \A f \in s .. s + n - 1 : f \in Frames(p) /\ bits[f] = FREE
    BY <1>1 DEF RunLeft
  <2>2. s \in Fits(bits, Frames(p), n)
    BY <2>1 DEF Fits, RunIsFree
  <2>3. n_free_frames[p] = 0
    BY <1>1, <2>2 DEF Fails
  <2>4. (n_free_frames[p] + Skew[p]) % UIntMod = Cardinality(Frames(p) \ NotFree)
    BY <1>1 DEF BooksInv, CountInv, CountRight, InUse
  <2>5. Skew[p] \in Int /\ UIntMod \in Nat \ {0}
    BY SkewType, BoundsAssumption, Layout
  <2>6. Cardinality(Frames(p) \ NotFree) = Skew[p] % UIntMod
    BY <2>3, <2>4, <2>5
  <2>7. p # "kernel"
    <3>. SUFFICES ASSUME p = "kernel" PROVE FALSE
      OBVIOUS
    <3>1. Cardinality(Frames(p) \ NotFree) = 0
      BY <2>5, <2>6 DEF Skew
    <3>2. IsFiniteSet(Frames(p) \ NotFree)
      BY PoolSize, FS_Subset
    <3>3. Frames(p) \ NotFree = {}
      BY <3>1, <3>2, FS_EmptySet
    <3>4. s \in s .. s + n - 1
      BY <1>1, <2>1, Layout, BoundsAssumption DEF Frames
    <3>. QED
      BY <2>1, <3>3, <3>4 DEF NotFree
  <2>. QED
    BY <2>6, <2>7 DEF Pools
<1>2. PoolInv /\ BooksInv => RefusalsJustified
  BY <1>1 DEF PoolInv, RefusalsJustified
<1>. QED
  BY <1>2, PoolInvariant, BooksInvariant, PTL

-----------------------------------------------------------------------------
(***************************************************************************)
(* The refinement of the abstract allocator.  Decoding the bitmap gives    *)
(* the set of the sequences that are out.                                  *)
(***************************************************************************)
LEMMA DecodedLemma == PoolInv /\ BooksInv => Decoded = held
<1>. SUFFICES ASSUME PoolInv, BooksInv PROVE Decoded = held
  OBVIOUS
<1>. DEFINE d(f) == [first |-> f, len |-> Cardinality(SequenceFrom(bits, Frames(PoolOf(f)), f))]
<1>1. ASSUME NEW r \in held PROVE r.first \in HeadFrames /\ d(r.first) = r
  <2>1. /\ r \in Run /\ r.first \in FramesOf(r) /\ held \subseteq Run
        /\ r.first \in AllFrames /\ bits[r.first] = HEAD
    BY RunFrames DEF PoolInv, TypeOK, BitmapInv, HeldBits, Run
  <2>2. r.first \notin Spoiled
    BY <2>1 DEF BooksInv, HeldClean, Kept, Pools
  <2>3. PoolOf(r.first) \in Pools /\ r.first \in Frames(PoolOf(r.first))
    BY <2>1 DEF PoolOf, Pools, AllFrames
  <2>4. SequenceFrom(bits, Frames(PoolOf(r.first)), r.first) = FramesOf(r)
    BY <2>1, <2>3, SequenceLemma DEF PoolInv, BitmapInv
  <2>5. d(r.first) = [first |-> r.first, len |-> r.len]
    BY <2>1, <2>4, RunCardinality
  <2>. QED
    BY <2>1, <2>2, <2>5 DEF HeadFrames, Run
<1>2. Decoded = {d(f) : f \in HeadFrames}
  BY DEF Decoded
<1>3. \A f \in HeadFrames : \E r \in held : r.first = f
  BY DEF BooksInv, HeadsHeld
<1>. HIDE DEF d
<1>. QED
  BY <1>1, <1>2, <1>3

LEMMA DecodedNext == PoolInv' /\ BooksInv' => Decoded' = held'
<1>1. (PoolInv /\ BooksInv => Decoded = held)'
  BY DecodedLemma, PTL
<1>. QED
  BY <1>1

\* A call of get_frames that succeeds is an Acquire.
LEMMA HandAcquires ==
    ASSUME PoolInv, PoolInv', BooksInv, BooksInv', NEW p \in Pools, NEW n \in 1 .. LongestRun,
           Hand(p, n)
    PROVE  Allocator!Acquire(Frames(p))
<1>1. n \in Nat /\ n > 0
  BY InfoFrameRequest, BoundsAssumption DEF LongestRun
<1>2. PICK r \in Run :
          /\ r.len = n
          /\ FramesOf(r) \subseteq Frames(p)
          /\ \A f \in FramesOf(r) : bits[f] = FREE
          /\ held' = held \cup {r}
  BY <1>1, HandFacts DEF PoolInv
<1>3. \A q \in held : \A f \in FramesOf(q) : bits[f] \in {HEAD, ALLOCATED}
  BY DEF PoolInv, BitmapInv, HeldBits
<1>4. \A q \in held : FramesOf(q) \cap FramesOf(r) = {}
  BY <1>2, <1>3, StatusFacts
<1>5. Decoded = held /\ Decoded' = held'
  BY DecodedLemma, DecodedNext
<1>6. r = [first |-> r.first, len |-> n] /\ r.first \in Frames(p)
  BY <1>2, RunFrames DEF Run
<1>. QED
  BY <1>2, <1>4, <1>5, <1>6 DEF Allocator!Acquire, Allocator!Interval, FramesOf

(***************************************************************************)
(* The bitmap implements the abstract allocator: every step of the code,   *)
(* read through Decoded, hands out one run that is disjoint from the       *)
(* others, takes one back as a whole, or changes nothing.  The abstract    *)
(* allocator may refuse whenever it likes, so this is safety only: of when *)
(* a request succeeds, RequestsSucceed speaks.                             *)
(***************************************************************************)
THEOREM BitmapImplementsAllocator == Spec => ImplementsAllocator
<1>1. Init => Allocator!Init
  BY InitPool, InitBooks, DecodedLemma DEF Init, Allocator!Init
<1>2. PoolInv /\ PoolInv' /\ BooksInv /\ BooksInv' /\ [Next]_vars => [Allocator!Next]_Decoded
  <2>. SUFFICES ASSUME PoolInv, PoolInv', BooksInv, BooksInv', [Next]_vars
                PROVE  Allocator!Next \/ Decoded' = Decoded
    OBVIOUS
  <2>1. Decoded = held /\ Decoded' = held'
    BY DecodedLemma, DecodedNext
  <2>2. ASSUME NEW p \in Pools, NEW n \in 1 .. MaxRun, GetFrames(p, n) PROVE Allocator!Next
    <3>1. n \in 1 .. LongestRun
      BY InfoFrameRequest, BoundsAssumption DEF LongestRun
    <3>. QED
      BY <2>2, <3>1, HandAcquires DEF GetFrames, Allocator!Next
  <2>3. ASSUME TakeInfoFrame PROVE Allocator!Next
    <3>1. NeededInfoFrames(ProcessFrames) \in 1 .. LongestRun /\ "kernel" \in Pools
      BY InfoFrameRequest, BoundsAssumption DEF LongestRun, Pools
    <3>. QED
      BY <2>3, <3>1, HandAcquires DEF TakeInfoFrame, Allocator!Next
  <2>4. ASSUME NEW r \in held, ReleaseFrames(r) PROVE Allocator!Next
    BY <2>1, <2>4 DEF ReleaseFrames, Allocator!Next, Allocator!Release
  <2>5. ASSUME ConstructKernelPool \/ ConstructProcessPool \/ MarkInaccessible \/ UNCHANGED vars
        PROVE  Decoded' = Decoded
    BY <2>1, <2>5 DEF ConstructKernelPool, ConstructProcessPool, Construct, MarkInaccessible, vars
  <2>. QED
    BY <2>2, <2>3, <2>4, <2>5 DEF Next
<1>. QED
  BY <1>1, <1>2, PoolInvariant, BooksInvariant, PTL DEF Spec, ImplementsAllocator, Allocator!Spec

-----------------------------------------------------------------------------
(***************************************************************************)
(* The loops of get_frames and release_frames, which FrameBits has turn by *)
(* turn, for any bitmap b.  m stands for the request, or for the frame to  *)
(* be released.                                                            *)
(***************************************************************************)
ScanTurn(b, base, n, before, k) ==
    IF before.count = n THEN before
    ELSE IF b[base + k - 1] # FREE THEN [before EXCEPT !.count = 0]
    ELSE [count |-> before.count + 1,
          start |-> IF before.count = 0 THEN base + k - 1 ELSE before.start]
MarkTurn(before, s, k) == [before EXCEPT ![s + k] = FREE - @]
FreeTurn(before, f, k) ==
    LET ends == before.is_released \/ (f + k - 1 # f /\ before.bits[f + k - 1] # ALLOCATED)
    IN  [bits |-> IF ends THEN before.bits ELSE [before.bits EXCEPT ![f + k - 1] = FREE],
         freed |-> IF ends THEN before.freed ELSE before.freed + 1,
         is_released |-> ends]

Loops == {"scan", "mark", "free"}
LoopStart(loop, b, base) ==
    IF loop = "scan" THEN [count |-> 0, start |-> base]
    ELSE IF loop = "mark" THEN [b EXCEPT ![base] = HEAD]
    ELSE [bits |-> b, freed |-> 0, is_released |-> FALSE]
LoopTurn(loop, b, base, n, before, k) ==
    IF loop = "scan" THEN ScanTurn(b, base, n, before, k)
    ELSE IF loop = "mark" THEN MarkTurn(before, base, k)
    ELSE FreeTurn(before, base, k)
LoopTurns(g, size, loop, b, base, n) ==
    [k \in 0 .. size |-> IF k = 0 THEN LoopStart(loop, b, base)
                         ELSE LoopTurn(loop, b, base, n, g[k - 1], k)]

LEMMA LoopRuns ==
    ASSUME NEW loop, NEW b, NEW base, NEW n, NEW size \in Nat
    PROVE  \E g : g = LoopTurns(g, size, loop, b, base, n)
<1>. DEFINE T == {k \in Nat : ~\E g : g = LoopTurns(g, k, loop, b, base, n)}
<1>. SUFFICES ASSUME T # {} PROVE FALSE
  OBVIOUS
<1>1. PICK x \in T : \A y \in T : x <= y
  <2>1. T \subseteq Nat
    OBVIOUS
  <2>. QED
    BY <2>1, LeastElement
<1>2. CASE x = 0
  <2>. DEFINE h == [k \in 0 .. 0 |-> LoopStart(loop, b, base)]
  <2>1. h = LoopTurns(h, 0, loop, b, base, n)
    BY DEF LoopTurns
  <2>. QED
    BY <1>1, <1>2, <2>1
<1>3. CASE x # 0
  <2>1. x - 1 \in Nat /\ x \in Nat /\ x - 1 \notin T
    BY <1>1, <1>3
  <2>2. PICK g : g = LoopTurns(g, x - 1, loop, b, base, n)
    BY <2>1
  <2>. DEFINE h == [k \in 0 .. x |-> IF k < x THEN g[k] ELSE LoopTurn(loop, b, base, n, g[x - 1], x)]
  <2>3. ASSUME NEW k \in 0 .. x
        PROVE  h[k] = IF k = 0 THEN LoopStart(loop, b, base)
                      ELSE LoopTurn(loop, b, base, n, h[k - 1], k)
    <3>1. CASE k = 0
      BY <2>1, <2>2, <3>1, <1>3 DEF LoopTurns
    <3>2. CASE k # 0 /\ k < x
      <4>1. k \in 0 .. x - 1 /\ k - 1 \in 0 .. x /\ k - 1 < x
        BY <2>1, <3>2
      <4>2. h[k] = g[k] /\ h[k - 1] = g[k - 1]
        BY <3>2, <4>1
      <4>3. g[k] = LoopTurn(loop, b, base, n, g[k - 1], k)
        BY <2>2, <3>2, <4>1 DEF LoopTurns
      <4>. QED
        BY <3>2, <4>2, <4>3
    <3>3. CASE k = x
      <4>1. x \in 0 .. x /\ x - 1 \in 0 .. x /\ x - 1 < x /\ ~(x < x)
        BY <2>1
      <4>2. h[x] = LoopTurn(loop, b, base, n, g[x - 1], x) /\ h[x - 1] = g[x - 1]
        BY <4>1
      <4>. QED
        BY <1>3, <3>3, <4>2
    <3>. QED
      BY <2>1, <3>1, <3>2, <3>3
  <2>4. h = LoopTurns(h, x, loop, b, base, n)
    <3>. DEFINE E(k) == IF k = 0 THEN LoopStart(loop, b, base)
                        ELSE LoopTurn(loop, b, base, n, h[k - 1], k)
    <3>1. \A k \in 0 .. x : h[k] = E(k)
      BY <2>3
    <3>2. h = [k \in 0 .. x |-> h[k]]
      OBVIOUS
    <3>. HIDE DEF h
    <3>. QED
      BY <3>1, <3>2 DEF LoopTurns
  <2>. HIDE DEF h
  <2>. QED
    BY <1>1, <2>4
<1>. QED
  BY <1>2, <1>3

\* Such a function, and what the loops of FrameBits make of it.
ChosenTurns(size, loop, b, base, n) == CHOOSE g : g = LoopTurns(g, size, loop, b, base, n)

LEMMA ChosenLoop ==
    ASSUME NEW loop, NEW b, NEW base, NEW n, NEW size \in Nat
    PROVE  LET g == ChosenTurns(size, loop, b, base, n)
           IN  /\ g[0] = LoopStart(loop, b, base)
               /\ \A k \in 1 .. size : g[k] = LoopTurn(loop, b, base, n, g[k - 1], k)
<1>. DEFINE g == ChosenTurns(size, loop, b, base, n)
<1>1. g = LoopTurns(g, size, loop, b, base, n)
  BY LoopRuns DEF ChosenTurns
<1>. HIDE DEF g
<1>2. 0 \in 0 .. size /\ \A k \in 1 .. size : k \in 0 .. size /\ k # 0
  OBVIOUS
<1>3. \A k \in 0 .. size : g[k] = IF k = 0 THEN LoopStart(loop, b, base)
                                  ELSE LoopTurn(loop, b, base, n, g[k - 1], k)
  BY <1>1 DEF LoopTurns
<1>4. g[0] = LoopStart(loop, b, base)
      /\ \A k \in 1 .. size : g[k] = LoopTurn(loop, b, base, n, g[k - 1], k)
  BY <1>2, <1>3
<1>. QED
  BY <1>4 DEF g

LEMMA ScanTurns ==
    ASSUME NEW b, NEW base, NEW size \in Nat, NEW n
    PROVE  \E g : /\ Scan(b, base, size, n) = g[size]
                  /\ g[0] = [count |-> 0, start |-> base]
                  /\ \A k \in 1 .. size : g[k] = ScanTurn(b, base, n, g[k - 1], k)
<1>. DEFINE g == ChosenTurns(size, "scan", b, base, n)
<1>1. Scan(b, base, size, n) = g[size]
  BY DEF Scan, ChosenTurns, LoopTurns, LoopStart, LoopTurn, ScanTurn
<1>2. g[0] = LoopStart("scan", b, base)
      /\ \A k \in 1 .. size : g[k] = LoopTurn("scan", b, base, n, g[k - 1], k)
  BY ChosenLoop
<1>. HIDE DEF g
<1>3. g[0] = [count |-> 0, start |-> base]
      /\ \A k \in 1 .. size : g[k] = ScanTurn(b, base, n, g[k - 1], k)
  BY <1>2 DEF LoopStart, LoopTurn
<1>. QED
  BY <1>1, <1>3

MarkedBy(g, b, s, n) == /\ MarkRun(b, s, n) = g[n - 1]
                        /\ g[0] = [b EXCEPT ![s] = HEAD]
                        /\ \A k \in 1 .. n - 1 : g[k] = MarkTurn(g[k - 1], s, k)

LEMMA MarkTurns ==
    ASSUME NEW b, NEW s, NEW n \in Nat, n > 0
    PROVE  \E g : MarkedBy(g, b, s, n)
<1>. DEFINE g == ChosenTurns(n - 1, "mark", b, s, n)
<1>1. MarkRun(b, s, n) = g[n - 1]
  BY DEF MarkRun, ChosenTurns, LoopTurns, LoopStart, LoopTurn, MarkTurn
<1>2. n - 1 \in Nat
  OBVIOUS
<1>3. g[0] = LoopStart("mark", b, s)
      /\ \A k \in 1 .. n - 1 : g[k] = LoopTurn("mark", b, s, n, g[k - 1], k)
  BY <1>2, ChosenLoop
<1>. HIDE DEF g
<1>4. g[0] = [b EXCEPT ![s] = HEAD] /\ \A k \in 1 .. n - 1 : g[k] = MarkTurn(g[k - 1], s, k)
  BY <1>3 DEF LoopStart, LoopTurn
<1>. QED
  BY <1>1, <1>4 DEF MarkedBy

FreeLoop(g, last, b, f) ==
    [k \in 0 .. last |-> IF k = 0 THEN [bits |-> b, freed |-> 0, is_released |-> FALSE]
                         ELSE FreeTurn(g[k - 1], f, k)]

LEMMA FreeTurns ==
    ASSUME NEW b, NEW base, NEW size, NEW f, base + size - f \in Nat
    PROVE  \E g : /\ FreeRun(b, base, size, f) = g[base + size - f]
                  /\ g[0] = [bits |-> b, freed |-> 0, is_released |-> FALSE]
                  /\ \A k \in 1 .. base + size - f : g[k] = FreeTurn(g[k - 1], f, k)
<1>. DEFINE last == base + size - f
            g == CHOOSE h : h = FreeLoop(h, last, b, f)
<1>1. FreeRun(b, base, size, f) = g[last]
  BY Zenon DEF FreeRun, FreeLoop, FreeTurn
<1>. HIDE DEF last
<1>2. last \in Nat
  BY DEF last
<1>3. \E h : h = FreeLoop(h, last, b, f)
  <2>1. \A h : LoopTurns(h, last, "free", b, f, 0) = FreeLoop(h, last, b, f)
    BY DEF LoopTurns, LoopStart, LoopTurn, FreeLoop
  <2>. QED
    BY <1>2, <2>1, LoopRuns
<1>4. g = FreeLoop(g, last, b, f)
  BY <1>3
<1>. HIDE DEF g
<1>5. g[0] = [bits |-> b, freed |-> 0, is_released |-> FALSE]
      /\ \A k \in 1 .. last : g[k] = FreeTurn(g[k - 1], f, k)
  <2>1. 0 \in 0 .. last /\ \A k \in 1 .. last : k \in 0 .. last /\ k # 0
    BY <1>2
  <2>2. \A k \in 0 .. last :
           g[k] = IF k = 0 THEN [bits |-> b, freed |-> 0, is_released |-> FALSE]
                  ELSE FreeTurn(g[k - 1], f, k)
    BY <1>4 DEF FreeLoop
  <2>. QED
    BY <2>1, <2>2
<1>. QED
  BY <1>1, <1>5 DEF last

-----------------------------------------------------------------------------
LEMMA MarkStepTurn ==
    ASSUME NEW b, NEW s \in Int, NEW k \in Nat, k > 0,
           s + k \in DOMAIN b, b[s + k] = FREE
    PROVE  MarkTurn(Claimed(b, s, k), s, k) = Claimed(b, s, k + 1)
<1>. DEFINE before == Claimed(b, s, k)
            after  == Claimed(b, s, k + 1)
<1>1. DOMAIN before = DOMAIN b /\ before[s + k] = FREE
  BY DEF Claimed
<1>2. \A f \in DOMAIN b : f # s + k => after[f] = before[f]
  <2>. TAKE f \in DOMAIN b
  <2>1. f # s + k => (f \in s + 1 .. s + (k + 1) - 1 <=> f \in s + 1 .. s + k - 1)
    OBVIOUS
  <2>. QED
    BY <2>1 DEF Claimed
<1>3. after[s + k] = ALLOCATED
  BY DEF Claimed
<1>4. MarkTurn(before, s, k) = [before EXCEPT ![s + k] = ALLOCATED]
  BY <1>1 DEF MarkTurn, FREE, ALLOCATED
<1>5. after = [f \in DOMAIN b |-> after[f]]
  BY DEF Claimed
<1>. HIDE DEF before, after
<1>6. [before EXCEPT ![s + k] = ALLOCATED] = after
  BY <1>1, <1>2, <1>3, <1>5
<1>. QED
  BY <1>4, <1>6 DEF before, after

(***************************************************************************)
(* The second half of get_frames (cont_frame_pool.C, lines 264 to 281): to *)
(* set the first frame of a free run 10 and to invert the bits of the      *)
(* others one after the other is to claim the run, as ContFramePool says   *)
(* in one step.                                                            *)
(***************************************************************************)
THEOREM MarkingClaimsTheRun ==
    ASSUME NEW b, NEW s \in Int, NEW n \in Nat, n > 0, RunIsFree(b, DOMAIN b, s, n)
    PROVE  MarkRun(b, s, n) = Claimed(b, s, n)
<1>1. PICK g : MarkedBy(g, b, s, n)
  BY MarkTurns
<1>. DEFINE Right(k) == g[k] = Claimed(b, s, k + 1)
            T == {k \in 0 .. n - 1 : ~Right(k)}
<1>2. SUFFICES ASSUME T # {} PROVE FALSE
  <2>1. n - 1 \in 0 .. n - 1 /\ (n - 1) + 1 = n
    OBVIOUS
  <2>. QED
    BY <1>1, <2>1 DEF MarkedBy
<1>3. PICK x \in T : \A y \in T : x <= y
  <2>1. T \subseteq Nat
    OBVIOUS
  <2>. QED
    BY <1>2, <2>1, LeastElement
<1>4. x # 0
  <2>1. s + 1 .. s + 1 - 1 = {}
    OBVIOUS
  <2>2. [b EXCEPT ![s] = HEAD] = Claimed(b, s, 1)
    BY <2>1 DEF Claimed
  <2>3. Right(0)
    BY <1>1, <2>2 DEF MarkedBy
  <2>. QED
    BY <1>3, <2>3
<1>5. x \in Nat /\ x > 0 /\ x \in 1 .. n - 1 /\ x - 1 \in 0 .. n - 1 /\ x - 1 \notin T
  BY <1>3, <1>4
<1>6. g[x - 1] = Claimed(b, s, x) /\ g[x] = MarkTurn(g[x - 1], s, x)
  <2>1. (x - 1) + 1 = x
    BY <1>5
  <2>. QED
    BY <1>1, <1>5, <2>1 DEF MarkedBy
<1>7. s + x \in DOMAIN b /\ b[s + x] = FREE
  BY <1>5 DEF RunIsFree
<1>8. Right(x)
  BY <1>5, <1>6, <1>7, MarkStepTurn
<1>. QED
  BY <1>3, <1>8

-----------------------------------------------------------------------------
(***************************************************************************)
(* Before turn k + 1 the search has count free frames behind it, fewer     *)
(* than n, and no run begins below them; or it has found the first run.    *)
(***************************************************************************)
NoRunIn(b, fs, T, n) == \A t \in T : ~RunIsFree(b, fs, t, n)
Searching(b, base, size, n, count, start, k) ==
    /\ count \in 0 .. n - 1 /\ count <= k
    /\ count > 0 => start = base + k - count
    /\ \A f \in base + k - count .. base + k - 1 : b[f] = FREE
    /\ NoRunIn(b, base .. base + size - 1, base .. base + k - count - 1, n)
Finished(b, base, size, n, count, start) ==
    /\ count = n /\ start \in base .. base + size - 1
    /\ RunIsFree(b, base .. base + size - 1, start, n)
    /\ NoRunIn(b, base .. base + size - 1, base .. start - 1, n)

\* A frame that is not free ends every run that would reach over it.
LEMMA ScanRestarts ==
    ASSUME NEW b, NEW base \in Nat, NEW size \in Nat, NEW n \in Nat, NEW count, NEW start,
           NEW k \in 1 .. size, Searching(b, base, size, n, count, start, k - 1),
           b[base + k - 1] # FREE
    PROVE  Searching(b, base, size, n, 0, start, k)
<1>. DEFINE fs == base .. base + size - 1
<1>1. count \in 0 .. n - 1 /\ NoRunIn(b, fs, base .. base + (k - 1) - count - 1, n)
  BY DEF Searching
<1>2. ASSUME NEW t \in base .. base + k - 0 - 1 PROVE ~RunIsFree(b, fs, t, n)
  <2>1. CASE t <= base + (k - 1) - count - 1
    <3>1. t \in base .. base + (k - 1) - count - 1
      BY <1>1, <2>1
    <3>. QED
      BY <1>1, <3>1 DEF NoRunIn
  <2>2. CASE t > base + (k - 1) - count - 1
    <3>1. base + k - 1 \in t .. t + n - 1
      BY <1>1, <2>2
    <3>. QED
      BY <3>1 DEF RunIsFree
  <2>. QED
    BY <1>1, <2>1, <2>2
<1>3. NoRunIn(b, fs, base .. base + k - 0 - 1, n)
  BY <1>2 DEF NoRunIn
<1>4. 0 \in 0 .. n - 1 /\ 0 <= k /\ base + k - 0 .. base + k - 1 = {}
  BY <1>1
<1>. QED
  BY <1>3, <1>4 DEF Searching

LEMMA ScanCounts ==
    ASSUME NEW b, NEW base \in Nat, NEW size \in Nat, NEW n \in Nat, NEW count, NEW start,
           NEW k \in 1 .. size, Searching(b, base, size, n, count, start, k - 1),
           b[base + k - 1] = FREE
    PROVE  LET first == IF count = 0 THEN base + k - 1 ELSE start
           IN  \/ Searching(b, base, size, n, count + 1, first, k)
               \/ Finished(b, base, size, n, count + 1, first)
<1>. DEFINE fs == base .. base + size - 1
            first == IF count = 0 THEN base + k - 1 ELSE start
<1>1. /\ count \in 0 .. n - 1 /\ count <= k - 1
      /\ count > 0 => start = base + (k - 1) - count
      /\ \A f \in base + (k - 1) - count .. base + (k - 1) - 1 : b[f] = FREE
      /\ NoRunIn(b, fs, base .. base + (k - 1) - count - 1, n)
  BY DEF Searching
<1>2. count + 1 <= k /\ first = base + k - (count + 1)
  <2>1. CASE count = 0
    BY <1>1, <2>1
  <2>2. CASE count # 0
    <3>1. count > 0 /\ start = base + (k - 1) - count /\ first = start
      BY <1>1, <2>2
    <3>2. base + (k - 1) - count = base + k - (count + 1) /\ count + 1 <= k
      BY <1>1
    <3>. QED
      BY <3>1, <3>2
  <2>. QED
    BY <2>1, <2>2
<1>3. \A f \in base + k - (count + 1) .. base + k - 1 : b[f] = FREE
  <2>1. \A f \in base + k - (count + 1) .. base + k - 1 :
           f = base + k - 1 \/ f \in base + (k - 1) - count .. base + (k - 1) - 1
    BY <1>1
  <2>. QED
    BY <1>1, <2>1
<1>4. NoRunIn(b, fs, base .. base + k - (count + 1) - 1, n)
  <2>1. base + k - (count + 1) - 1 = base + (k - 1) - count - 1
    BY <1>1
  <2>. QED
    BY <1>1, <2>1
<1>. HIDE DEF first
<1>5. CASE count + 1 < n
  <2>1. count + 1 \in 0 .. n - 1
    BY <1>1, <1>5
  <2>2. Searching(b, base, size, n, count + 1, first, k)
    BY <1>2, <1>3, <1>4, <2>1 DEF Searching
  <2>. QED
    BY <2>2 DEF first
<1>6. CASE count + 1 = n
  <2>1. first = base + k - n /\ first \in fs /\ NoRunIn(b, fs, base .. first - 1, n)
    BY <1>1, <1>2, <1>4, <1>6
  <2>2. RunIsFree(b, fs, first, n)
    <3>1. \A f \in first .. first + n - 1 : f \in fs /\ f \in base + k - (count + 1) .. base + k - 1
      BY <1>1, <1>6, <2>1
    <3>. QED
      BY <1>3, <3>1 DEF RunIsFree
  <2>3. Finished(b, base, size, n, count + 1, first)
    BY <1>6, <2>1, <2>2 DEF Finished
  <2>. QED
    BY <2>3 DEF first
<1>. QED
  BY <1>1, <1>5, <1>6

ScanAt(r, b, base, size, n, k) ==
    \E c, s : /\ r = [count |-> c, start |-> s]
              /\ \/ Searching(b, base, size, n, c, s, k)
                 \/ Finished(b, base, size, n, c, s)

LEMMA ScanProgress ==
    ASSUME NEW b, NEW base \in Nat, NEW size \in Nat, NEW n \in Nat, NEW r,
           NEW k \in 1 .. size, ScanAt(r, b, base, size, n, k - 1)
    PROVE  ScanAt(ScanTurn(b, base, n, r, k), b, base, size, n, k)
<1>0. PICK count, start : /\ r = [count |-> count, start |-> start]
                          /\ \/ Searching(b, base, size, n, count, start, k - 1)
                             \/ Finished(b, base, size, n, count, start)
  BY DEF ScanAt
<1>1. CASE count = n
  <2>1. ~Searching(b, base, size, n, count, start, k - 1)
    BY <1>1 DEF Searching
  <2>2. Finished(b, base, size, n, count, start)
    BY <1>0, <2>1
  <2>3. ScanTurn(b, base, n, [count |-> count, start |-> start], k) = [count |-> count, start |-> start]
    BY <1>1 DEF ScanTurn
  <2>. QED
    BY <1>0, <2>2, <2>3 DEF ScanAt
<1>2. CASE count # n /\ b[base + k - 1] # FREE
  <2>1. Searching(b, base, size, n, count, start, k - 1)
    BY <1>0, <1>2 DEF Finished
  <2>2. Searching(b, base, size, n, 0, start, k)
    BY <1>2, <2>1, ScanRestarts
  <2>3. ScanTurn(b, base, n, [count |-> count, start |-> start], k) = [count |-> 0, start |-> start]
    BY <1>2 DEF ScanTurn
  <2>. QED
    BY <1>0, <2>2, <2>3 DEF ScanAt
<1>3. CASE count # n /\ b[base + k - 1] = FREE
  <2>. DEFINE first == IF count = 0 THEN base + k - 1 ELSE start
  <2>1. Searching(b, base, size, n, count, start, k - 1)
    BY <1>0, <1>3 DEF Finished
  <2>2. \/ Searching(b, base, size, n, count + 1, first, k)
        \/ Finished(b, base, size, n, count + 1, first)
    BY <1>3, <2>1, ScanCounts
  <2>3. ScanTurn(b, base, n, [count |-> count, start |-> start], k)
          = [count |-> count + 1, start |-> first]
    BY <1>3 DEF ScanTurn
  <2>. HIDE DEF first
  <2>. QED
    BY <1>0, <2>2, <2>3 DEF ScanAt
<1>. QED
  BY <1>1, <1>2, <1>3

LEMMA ScanEnds ==
    ASSUME NEW b, NEW base \in Nat, NEW size \in Nat, NEW n \in Nat, n > 0
    PROVE  ScanAt(Scan(b, base, size, n), b, base, size, n, size)
<1>1. PICK g : /\ Scan(b, base, size, n) = g[size]
               /\ g[0] = [count |-> 0, start |-> base]
               /\ \A k \in 1 .. size : g[k] = ScanTurn(b, base, n, g[k - 1], k)
  BY ScanTurns
<1>. DEFINE Right(k) == ScanAt(g[k], b, base, size, n, k)
            T == {k \in 0 .. size : ~Right(k)}
<1>2. SUFFICES ASSUME T # {} PROVE FALSE
  <2>1. size \in 0 .. size
    OBVIOUS
  <2>2. T = {} => Right(size)
    BY <2>1
  <2>. QED
    BY <1>1, <2>2
<1>3. PICK x \in T : \A y \in T : x <= y
  <2>1. T \subseteq Nat
    OBVIOUS
  <2>. QED
    BY <1>2, <2>1, LeastElement
<1>4. x # 0
  <2>1. /\ 0 \in 0 .. n - 1 /\ 0 <= 0 /\ base + 0 - 0 .. base + 0 - 1 = {}
        /\ base .. base + 0 - 0 - 1 = {}
    OBVIOUS
  <2>2. Searching(b, base, size, n, 0, base, 0)
    BY <2>1 DEF Searching, NoRunIn
  <2>3. Right(0)
    BY <1>1, <2>2 DEF ScanAt
  <2>. QED
    BY <1>3, <2>3
<1>5. x \in 1 .. size /\ x - 1 \in 0 .. size /\ x - 1 \notin T
  BY <1>3, <1>4
<1>6. Right(x - 1) /\ g[x] = ScanTurn(b, base, n, g[x - 1], x)
  BY <1>1, <1>5
<1>7. Right(x)
  BY <1>5, <1>6, ScanProgress
<1>. QED
  BY <1>3, <1>7

ScanAnswers(b, base, size, n) ==
    LET fs    == base .. base + size - 1
        found == Scan(b, base, size, n)
    IN  /\ found.count = n <=> Fits(b, fs, n) # {}
        /\ found.count = n => found.start = FirstFit(b, fs, n)

(***************************************************************************)
(* The search of get_frames (cont_frame_pool.C, lines 224 to 262): it      *)
(* counts n frames if and only if the pool has n consecutive free frames   *)
(* somewhere, and then it has stopped at the lowest place where it has.    *)
(***************************************************************************)
THEOREM ScanFindsTheFirstFit ==
    ASSUME NEW b, NEW base \in Nat, NEW size \in Nat, NEW n \in Nat, n > 0
    PROVE  ScanAnswers(b, base, size, n)
<1>. DEFINE fs    == base .. base + size - 1
            found == Scan(b, base, size, n)
<1>1. PICK c, s : /\ found = [count |-> c, start |-> s]
                  /\ \/ Searching(b, base, size, n, c, s, size)
                     \/ Finished(b, base, size, n, c, s)
  BY ScanEnds DEF ScanAt
<1>2. found.count = c /\ found.start = s
  BY <1>1
<1>. HIDE DEF found
<1>3. CASE Searching(b, base, size, n, c, s, size)
  <2>1. c \in 0 .. n - 1 /\ NoRunIn(b, fs, base .. base + size - c - 1, n)
    BY <1>3 DEF Searching
  <2>2. ASSUME NEW t \in fs PROVE ~RunIsFree(b, fs, t, n)
    <3>1. CASE t <= base + size - c - 1
      <4>1. t \in base .. base + size - c - 1
        BY <2>1, <3>1
      <4>. QED
        BY <2>1, <4>1 DEF NoRunIn
    <3>2. CASE t > base + size - c - 1
      <4>1. t + n - 1 \in t .. t + n - 1 /\ t + n - 1 \notin fs
        BY <2>1, <3>2
      <4>. QED
        BY <4>1 DEF RunIsFree
    <3>. QED
      BY <2>1, <3>1, <3>2
  <2>3. Fits(b, fs, n) = {} /\ c # n
    BY <2>1, <2>2 DEF Fits
  <2>. QED
    BY <1>2, <2>3 DEF found, ScanAnswers
<1>4. CASE Finished(b, base, size, n, c, s)
  <2>1. c = n /\ s \in fs /\ RunIsFree(b, fs, s, n) /\ NoRunIn(b, fs, base .. s - 1, n)
    BY <1>4 DEF Finished
  <2>2. s \in Fits(b, fs, n)
    BY <2>1 DEF Fits
  <2>3. \A t \in Fits(b, fs, n) : t \in fs /\ s <= t
    <3>. TAKE t \in Fits(b, fs, n)
    <3>1. t \in fs /\ RunIsFree(b, fs, t, n)
      BY DEF Fits
    <3>2. t \notin base .. s - 1
      BY <2>1, <3>1 DEF NoRunIn
    <3>. QED
      BY <2>1, <3>1, <3>2
  <2>4. FirstFit(b, fs, n) = s
    <3>1. FirstFit(b, fs, n) \in Fits(b, fs, n) /\ \A t \in Fits(b, fs, n) : FirstFit(b, fs, n) <= t
      BY <2>2, <2>3 DEF FirstFit
    <3>2. FirstFit(b, fs, n) \in fs /\ FirstFit(b, fs, n) <= s /\ s <= FirstFit(b, fs, n)
      BY <2>2, <2>3, <3>1
    <3>. DEFINE t == FirstFit(b, fs, n)
    <3>3. t \in fs /\ t <= s /\ s <= t
      BY <3>2
    <3>. HIDE DEF t
    <3>4. t = s
      BY <2>1, <3>3
    <3>. QED
      BY <3>4 DEF t
  <2>. QED
    BY <1>2, <2>1, <2>2, <2>4 DEF found, ScanAnswers
<1>. QED
  BY <1>1, <1>3, <1>4

-----------------------------------------------------------------------------
\* After l frames from f on were freed.
FreedUpTo(b, f, l, stop) ==
    [bits |-> Released(b, f .. f + l - 1), freed |-> l, is_released |-> stop]

LEMMA FreeFirst ==
    ASSUME NEW b, NEW f \in Int
    PROVE  FreeTurn([bits |-> b, freed |-> 0, is_released |-> FALSE], f, 1) = FreedUpTo(b, f, 1, FALSE)
<1>1. [b EXCEPT ![f] = FREE] = Released(b, f .. f + 1 - 1)
  BY DEF Released
<1>2. f + 1 - 1 = f
  OBVIOUS
<1>3. FreeTurn([bits |-> b, freed |-> 0, is_released |-> FALSE], f, 1)
        = [bits |-> [b EXCEPT ![f] = FREE], freed |-> 1, is_released |-> FALSE]
  <2>1. FreeTurn([bits |-> b, freed |-> 0, is_released |-> FALSE], f, 1)
          = [bits |-> [b EXCEPT ![f + 1 - 1] = FREE], freed |-> 0 + 1, is_released |-> FALSE]
    BY <1>2, Zenon DEF FreeTurn
  <2>. QED
    BY <1>2, <2>1
<1>. QED
  BY <1>1, <1>3 DEF FreedUpTo

LEMMA FreeNext ==
    ASSUME NEW b, NEW f \in Int, NEW l \in Nat, l > 0, f + l \in DOMAIN b
    PROVE  FreeTurn(FreedUpTo(b, f, l, FALSE), f, l + 1) =
             IF b[f + l] = ALLOCATED THEN FreedUpTo(b, f, l + 1, FALSE) ELSE FreedUpTo(b, f, l, TRUE)
<1>. DEFINE r == Released(b, f .. f + l - 1)
<1>1. r[f + l] = b[f + l] /\ DOMAIN r = DOMAIN b
  BY DEF Released
<1>2. f + (l + 1) - 1 = f + l /\ f + l # f
  OBVIOUS
<1>3. [r EXCEPT ![f + l] = FREE] = Released(b, f .. f + (l + 1) - 1)
  <2>1. \A a \in DOMAIN b : a \in f .. f + (l + 1) - 1 <=> a = f + l \/ a \in f .. f + l - 1
    <3>1. \A a : a \in f .. f + (l + 1) - 1 <=> a = f + l \/ a \in f .. f + l - 1
      OBVIOUS
    <3>. QED
      BY <3>1
  <2>. QED
    BY <2>1 DEF Released
<1>4. FreedUpTo(b, f, l, FALSE) = [bits |-> r, freed |-> l, is_released |-> FALSE]
  BY DEF FreedUpTo
<1>. HIDE DEF r
<1>5. FreeTurn([bits |-> r, freed |-> l, is_released |-> FALSE], f, l + 1) =
        IF b[f + l] = ALLOCATED
        THEN [bits |-> [r EXCEPT ![f + l] = FREE], freed |-> l + 1, is_released |-> FALSE]
        ELSE [bits |-> r, freed |-> l, is_released |-> TRUE]
  BY <1>1, <1>2 DEF FreeTurn
<1>. QED
  BY <1>3, <1>4, <1>5 DEF FreedUpTo, r

\* The sequence that begins at f has l frames.
Ends(b, fs, f, l) == /\ \A j \in f + 1 .. f + l - 1 : b[j] = ALLOCATED
                     /\ f + l \in fs => b[f + l] # ALLOCATED

LEMMA SequenceEnds ==
    ASSUME NEW b, NEW low \in Int, NEW high \in Int, NEW f \in low .. high,
           NEW l \in 1 .. high + 1 - f, Ends(b, low .. high, f, l)
    PROVE  SequenceFrom(b, low .. high, f) = f .. f + l - 1
<1>. DEFINE fs == low .. high
<1>1. ASSUME NEW j \in f .. f + l - 1 PROVE j \in SequenceFrom(b, fs, f)
  <2>1. j \in fs /\ j >= f /\ \A i \in f + 1 .. j : i \in f + 1 .. f + l - 1
    OBVIOUS
  <2>. QED
    BY <2>1 DEF SequenceFrom, Ends
<1>2. ASSUME NEW j \in SequenceFrom(b, fs, f) PROVE j \in f .. f + l - 1
  <2>1. j \in fs /\ j >= f /\ \A i \in f + 1 .. j : b[i] = ALLOCATED
    BY DEF SequenceFrom
  <2>2. CASE j >= f + l
    <3>1. f + l \in fs /\ f + l \in f + 1 .. j
      BY <2>1, <2>2
    <3>. QED
      BY <2>1, <3>1 DEF Ends
  <2>. QED
    BY <2>1, <2>2
<1>. QED
  BY <1>1, <1>2

(***************************************************************************)
(* release_frames (cont_frame_pool.C, lines 330 to 368): to free the first *)
(* frame and then every frame whose bits are 00 until one is not, or the   *)
(* bitmap ends, frees exactly the sequence that begins there, and          *)
(* n_free_frames grows by its length.                                      *)
(***************************************************************************)
THEOREM FreeingReleasesTheSequence ==
    ASSUME NEW b, NEW base \in Nat, NEW size \in Nat, NEW f \in base .. base + size - 1,
           base .. base + size - 1 \subseteq DOMAIN b
    PROVE  LET S == SequenceFrom(b, base .. base + size - 1, f)
           IN  /\ FreeRun(b, base, size, f).bits = Released(b, S)
               /\ FreeRun(b, base, size, f).freed = Cardinality(S)
<1>. DEFINE fs == base .. base + size - 1
            last == base + size - f
<1>1. last \in Nat /\ last > 0
  OBVIOUS
<1>2. PICK g : /\ FreeRun(b, base, size, f) = g[last]
               /\ g[0] = [bits |-> b, freed |-> 0, is_released |-> FALSE]
               /\ \A k \in 1 .. last : g[k] = FreeTurn(g[k - 1], f, k)
  BY <1>1, FreeTurns
<1>. DEFINE Going(k) == g[k] = FreedUpTo(b, f, k, FALSE) /\ \A j \in f + 1 .. f + k - 1 : b[j] = ALLOCATED
            Over(k)  == \E l \in 1 .. last : g[k] = FreedUpTo(b, f, l, TRUE) /\ Ends(b, fs, f, l)
            T == {k \in 1 .. last : ~(Going(k) \/ Over(k))}
<1>3. ASSUME NEW k \in 1 .. last PROVE Going(k) \/ Over(k)
  <2>1. SUFFICES ASSUME T # {} PROVE FALSE
    BY <1>1
  <2>2. PICK x \in T : \A y \in T : x <= y
    <3>1. T \subseteq Nat
      <4>1. T \subseteq 1 .. last
        OBVIOUS
      <4>2. 1 .. last \subseteq Nat
        BY <1>1
      <4>. HIDE DEF T
      <4>. QED
        BY <4>1, <4>2
    <3>. QED
      BY <2>1, <3>1, LeastElement
  <2>3. x # 1
    <3>1. 1 \in 1 .. last /\ 1 - 1 = 0 /\ f \in Int /\ f + 1 .. f + 1 - 1 = {}
      BY <1>1
    <3>2. g[1] = FreeTurn(g[0], f, 1)
      BY <1>2, <3>1
    <3>3. g[1] = FreedUpTo(b, f, 1, FALSE)
      BY <1>2, <3>1, <3>2, FreeFirst
    <3>4. Going(1)
      BY <3>1, <3>3
    <3>. QED
      BY <2>2, <3>4
  <2>. DEFINE l == x - 1
  <2>4. /\ l \in Nat /\ l > 0 /\ l \in 1 .. last /\ x = l + 1 /\ f + l \in fs /\ f \in Int
        /\ x \in 1 .. last
    BY <1>1, <2>2, <2>3
  <2>5. l \notin T
    <3>1. ~(x <= l)
      BY <2>4
    <3>. QED
      BY <2>2, <3>1
  <2>6. g[x] = FreeTurn(g[l], f, l + 1)
    BY <1>2, <2>4
  <2>. HIDE DEF l, last
  <2>7. CASE Going(l)
    <3>1. g[x] = IF b[f + l] = ALLOCATED THEN FreedUpTo(b, f, l + 1, FALSE) ELSE FreedUpTo(b, f, l, TRUE)
      BY <2>4, <2>6, <2>7, FreeNext
    <3>2. CASE b[f + l] = ALLOCATED
      <4>1. \A j \in f + 1 .. f + x - 1 : j = f + l \/ j \in f + 1 .. f + l - 1
        BY <2>4
      <4>2. Going(x)
        BY <2>4, <2>7, <3>1, <3>2, <4>1
      <4>. QED
        BY <2>2, <4>2
    <3>3. CASE b[f + l] # ALLOCATED
      <4>1. Ends(b, fs, f, l)
        BY <2>7, <3>3 DEF Ends
      <4>2. Over(x)
        BY <2>4, <3>1, <3>3, <4>1
      <4>. QED
        BY <2>2, <4>2
    <3>. QED
      BY <3>2, <3>3
  <2>8. CASE Over(l)
    <3>1. PICK e \in 1 .. last : g[l] = FreedUpTo(b, f, e, TRUE) /\ Ends(b, fs, f, e)
      BY <2>8
    <3>2. FreeTurn(FreedUpTo(b, f, e, TRUE), f, l + 1) = FreedUpTo(b, f, e, TRUE)
      BY DEF FreeTurn, FreedUpTo
    <3>3. g[x] = FreedUpTo(b, f, e, TRUE)
      BY <2>6, <3>1, <3>2
    <3>4. Over(x)
      BY <3>1, <3>3
    <3>. QED
      BY <2>2, <3>4
  <2>. QED
    BY <2>4, <2>5, <2>7, <2>8
<1>4. \E l \in 1 .. last, stop \in BOOLEAN : g[last] = FreedUpTo(b, f, l, stop) /\ Ends(b, fs, f, l)
  <2>1. last \in 1 .. last /\ f + last \notin fs
    BY <1>1
  <2>2. Going(last) => Ends(b, fs, f, last)
    BY <2>1 DEF Ends
  <2>. HIDE DEF last
  <2>. QED
    BY <1>3, <2>1, <2>2
<1>5. PICK l \in 1 .. last, stop \in BOOLEAN : g[last] = FreedUpTo(b, f, l, stop) /\ Ends(b, fs, f, l)
  BY <1>4
<1>6. SequenceFrom(b, fs, f) = f .. f + l - 1
  <2>. DEFINE top == base + size - 1
  <2>1. /\ Ends(b, base .. top, f, l) /\ base \in Int /\ top \in Int
        /\ l \in 1 .. top + 1 - f /\ f \in base .. top
    BY <1>5
  <2>. HIDE DEF top
  <2>2. SequenceFrom(b, base .. top, f) = f .. f + l - 1
    BY <2>1, SequenceEnds
  <2>. QED
    BY <2>2 DEF top
<1>7. Cardinality(f .. f + l - 1) = l
  BY FS_Interval
<1>8. FreeRun(b, base, size, f).bits = Released(b, f .. f + l - 1) /\ FreeRun(b, base, size, f).freed = l
  BY <1>2, <1>5 DEF FreedUpTo
<1>. QED
  BY <1>6, <1>7, <1>8

-----------------------------------------------------------------------------
(***************************************************************************)
(* The steps of ContFramePool with the loops in place of what they come    *)
(* to.                                                                     *)
(***************************************************************************)
HandInTurns(p, n) ==
    LET found == Scan(bits, Base[p], Size[p], n)
    IN  /\ n_free_frames[p] # 0 /\ found.count = n
        /\ bits' = MarkRun(bits, found.start, n)
        /\ n_free_frames' = [n_free_frames EXCEPT ![p] = CountDown(@, n)]
        /\ held' = held \cup {[first |-> found.start, len |-> n]}
        /\ UNCHANGED <<info_frame_no, poolList>>

ReleaseInTurns(r) ==
    LET p     == Owner(r.first)
        after == FreeRun(bits, Base[p], Size[p], r.first)
    IN  /\ phase = "up" /\ r.first # info_frame_no["process"]
        /\ OwnerIndex(r.first) # {} /\ bits[r.first] = HEAD
        /\ bits' = after.bits
        /\ n_free_frames' = [n_free_frames EXCEPT ![p] = CountUp(@, after.freed)]
        /\ held' = held \ {r}
        /\ UNCHANGED <<phase, info_frame_no, poolList>>

NextInTurns ==
    \/ ConstructKernelPool
    \/ /\ phase = "info_frame" /\ phase' = "process_pool"
       /\ HandInTurns("kernel", NeededInfoFrames(ProcessFrames))
    \/ ConstructProcessPool
    \/ MarkInaccessible
    \/ \E p \in Pools, n \in 1 .. MaxRun :
          phase = "up" /\ Cardinality(held) < MaxHeld /\ HandInTurns(p, n) /\ UNCHANGED phase
    \/ \E r \in held : ReleaseInTurns(r)

LEMMA HandByLoops ==
    ASSUME TypeOK, NEW p \in Pools, NEW n \in Nat, n > 0
    PROVE  Hand(p, n) <=> HandInTurns(p, n)
<1>. DEFINE s     == FirstFit(bits, Frames(p), n)
            found == Scan(bits, Base[p], Size[p], n)
<1>1. /\ found.count = n <=> Fits(bits, Frames(p), n) # {}
      /\ found.count = n => found.start = s
  <2>1. Base[p] \in Nat /\ Size[p] \in Nat /\ Frames(p) = Base[p] .. Base[p] + Size[p] - 1
    BY Layout
  <2>. DEFINE low  == Base[p]
              size == Size[p]
  <2>. HIDE DEF low, size
  <2>2. low \in Nat /\ size \in Nat
    BY <2>1 DEF low, size
  <2>3. ScanAnswers(bits, low, size, n)
    BY <2>2, ScanFindsTheFirstFit
  <2>4. Frames(p) = low .. low + size - 1 /\ found = Scan(bits, low, size, n)
    BY <2>1 DEF low, size
  <2>. QED
    BY <2>3, <2>4, Zenon DEF ScanAnswers
<1>2. ASSUME Fits(bits, Frames(p), n) # {} PROVE MarkRun(bits, s, n) = Claimed(bits, s, n)
  <2>1. s \in Frames(p) /\ \A f \in s .. s + n - 1 : f \in Frames(p) /\ bits[f] = FREE
    BY <1>2, FirstFitLemma
  <2>. HIDE DEF s
  <2>2. Frames(p) \subseteq DOMAIN bits /\ s \in Int
    <3>1. DOMAIN bits = AllFrames
      BY DEF TypeOK
    <3>2. Frames(p) \subseteq AllFrames /\ AllFrames \subseteq Nat
      BY Layout
    <3>3. s \in Nat
      BY <2>1, <3>2
    <3>. QED
      BY <3>1, <3>2, <3>3
  <2>3. RunIsFree(bits, DOMAIN bits, s, n)
    BY <2>1, <2>2 DEF RunIsFree
  <2>. QED
    BY <2>2, <2>3, MarkingClaimsTheRun
<1>. HIDE DEF s, found
<1>3. Hand(p, n) <=> /\ n_free_frames[p] # 0 /\ Fits(bits, Frames(p), n) # {}
                     /\ bits' = Claimed(bits, s, n)
                     /\ n_free_frames' = [n_free_frames EXCEPT ![p] = CountDown(@, n)]
                     /\ held' = held \cup {[first |-> s, len |-> n]}
                     /\ UNCHANGED <<info_frame_no, poolList>>
  BY Zenon DEF Hand, Fails, s
<1>4. HandInTurns(p, n) <=> /\ n_free_frames[p] # 0 /\ found.count = n
                            /\ bits' = MarkRun(bits, found.start, n)
                            /\ n_free_frames' = [n_free_frames EXCEPT ![p] = CountDown(@, n)]
                            /\ held' = held \cup {[first |-> found.start, len |-> n]}
                            /\ UNCHANGED <<info_frame_no, poolList>>
  BY Zenon DEF HandInTurns, found
<1>5. CASE found.count = n
  BY <1>1, <1>2, <1>3, <1>4, <1>5, Zenon
<1>6. CASE found.count # n
  BY <1>1, <1>3, <1>4, <1>6, Zenon
<1>. QED
  BY <1>5, <1>6

LEMMA ReleaseByLoops ==
    ASSUME PoolInv, NEW r \in held, ReleaseFrames(r)
    PROVE  ReleaseInTurns(r)
<1>1. /\ phase = "up" /\ r.first # info_frame_no["process"]
      /\ held' = held \ {r} /\ UNCHANGED <<info_frame_no, poolList>>
  BY DEF ReleaseFrames
<1>2. TypeOK /\ BitmapInv /\ poolList = <<"process", "kernel">>
  BY <1>1 DEF PoolInv, PhaseInv
<1>3. r.first \in FramesOf(r)
  BY <1>2, RunFrames DEF TypeOK
<1>4. PICK p \in Pools : r.first \in Frames(p) /\ bits[r.first] = HEAD
  BY <1>2, <1>3 DEF BitmapInv, HeldBits
<1>5. OwnerIndex(r.first) # {} /\ Owner(r.first) = p
  BY <1>2, <1>4, OwnerLemma
<1>6. ~Asserts(r.first)
  BY <1>4, <1>5 DEF Asserts
<1>. DEFINE S     == SequenceFrom(bits, Frames(p), r.first)
            after == FreeRun(bits, Base[p], Size[p], r.first)
<1>7. after.bits = Released(bits, S) /\ after.freed = Cardinality(S)
  <2>1. /\ Base[p] \in Nat /\ Size[p] \in Nat /\ Frames(p) = Base[p] .. Base[p] + Size[p] - 1
        /\ Frames(p) \subseteq AllFrames
    BY Layout
  <2>2. DOMAIN bits = AllFrames
    BY <1>2 DEF TypeOK
  <2>. DEFINE low  == Base[p]
              size == Size[p]
              f    == r.first
  <2>. HIDE DEF low, size, f
  <2>3. /\ low \in Nat /\ size \in Nat /\ f \in low .. low + size - 1
        /\ low .. low + size - 1 \subseteq DOMAIN bits
    BY <1>4, <2>1, <2>2 DEF low, size, f
  <2>4. LET T == SequenceFrom(bits, low .. low + size - 1, f)
        IN  /\ FreeRun(bits, low, size, f).bits = Released(bits, T)
            /\ FreeRun(bits, low, size, f).freed = Cardinality(T)
    BY <2>3, FreeingReleasesTheSequence
  <2>5. S = SequenceFrom(bits, low .. low + size - 1, f) /\ after = FreeRun(bits, low, size, f)
    BY <2>1 DEF low, size, f
  <2>. QED
    BY <2>4, <2>5, Zenon
<1>8. Freed(r.first) = S
  BY <1>4, <1>5 DEF Freed
<1>. HIDE DEF S, after
<1>9. /\ bits' = Released(bits, S) /\ UNCHANGED phase
      /\ n_free_frames' = [n_free_frames EXCEPT ![p] = CountUp(@, Cardinality(S))]
  BY <1>5, <1>6, <1>8, Zenon DEF ReleaseFrames
<1>10. /\ bits' = after.bits
       /\ n_free_frames' = [n_free_frames EXCEPT ![p] = CountUp(@, after.freed)]
  BY <1>7, <1>9, Zenon
<1>. QED
  BY <1>1, <1>4, <1>5, <1>9, <1>10, Zenon DEF ReleaseInTurns, after

(***************************************************************************)
(* Every step of ContFramePool is a step of the code's loops: get_frames   *)
(* as its search and its marking frame by frame, release_frames as its     *)
(* loop over the bits, each with the arguments that the program can pass.  *)
(***************************************************************************)
THEOREM StepsRunTheLoops == Spec => [][NextInTurns]_vars
<1>1. PoolInv /\ [Next]_vars => [NextInTurns]_vars
  <2>. SUFFICES ASSUME PoolInv, Next PROVE NextInTurns
    OBVIOUS
  <2>1. TypeOK
    BY DEF PoolInv
  <2>2. CASE TakeInfoFrame
    <3>1. NeededInfoFrames(ProcessFrames) \in Nat /\ NeededInfoFrames(ProcessFrames) > 0
          /\ "kernel" \in Pools
      BY InfoFrameRequest DEF Pools
    <3>2. HandInTurns("kernel", NeededInfoFrames(ProcessFrames))
      BY <2>1, <2>2, <3>1, HandByLoops DEF TakeInfoFrame
    <3>. QED
      BY <2>2, <3>2 DEF TakeInfoFrame, NextInTurns
  <2>3. ASSUME NEW p \in Pools, NEW n \in 1 .. MaxRun, GetFrames(p, n) PROVE NextInTurns
    <3>1. n \in Nat /\ n > 0
      BY BoundsAssumption
    <3>2. HandInTurns(p, n)
      BY <2>1, <2>3, <3>1, HandByLoops DEF GetFrames
    <3>. QED
      BY <2>3, <3>2 DEF GetFrames, NextInTurns
  <2>4. ASSUME NEW r \in held, ReleaseFrames(r) PROVE NextInTurns
    BY <2>4, ReleaseByLoops DEF NextInTurns
  <2>5. CASE ConstructKernelPool \/ ConstructProcessPool \/ MarkInaccessible
    BY <2>5 DEF NextInTurns
  <2>. QED
    BY <2>2, <2>3, <2>4, <2>5 DEF Next
<1>. QED
  BY <1>1, PoolInvariant, PTL DEF Spec
=============================================================================
