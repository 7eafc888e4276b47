-------------------------- MODULE Scheduler_proofs --------------------------
(***************************************************************************)
(* Theorems about Scheduler, for any threads, start order and number of    *)
(* bursts, and whichever threads pass the CPU on: what the two versions of *)
(* terminate() do to any queue, that no thread is queued or dispatched     *)
(* after its shutdown, and that interrupts never hit a thread.             *)
(***************************************************************************)
EXTENDS Scheduler, Lemmas

-----------------------------------------------------------------------------
(***************************************************************************)
(* terminate() of mp5 with a thread t that is not in the queue.  After i   *)
(* turns the thread in hand is the i-th after the head, cyclically, and    *)
(* the queue holds the others in their cyclic order.                       *)
(***************************************************************************)
InHand(q, i) == IF i < Len(q) THEN q[i + 1] ELSE q[1]
OthersAt(q, i) ==
    [j \in 1 .. Len(q) - 1 |-> IF i + j < Len(q) THEN q[i + j + 1] ELSE q[i + j - Len(q) + 1]]
State5(q, i) == [queue |-> OthersAt(q, i), rm |-> InHand(q, i)]

LEMMA Turn5Lemma ==
    ASSUME NEW S, NEW q \in Seq(S), q # << >>, NEW t, \A j \in 1 .. Len(q) : q[j] # t,
           NEW i \in 0 .. Len(q) - 1
    PROVE  Turn5(State5(q, i), t) = State5(q, i + 1)
<1>. DEFINE n == Len(q)
            o == OthersAt(q, i)
            h == InHand(q, i)
            b == Append(o, h)
<1>1. n \in Nat /\ n > 0 /\ i \in Nat /\ i < n /\ \A j \in 1 .. n : q[j] \in S
  OBVIOUS
<1>2. h = q[i + 1] /\ h # t /\ h \in S
  BY <1>1 DEF InHand
<1>3. /\ o \in Seq(S) /\ Len(o) = n - 1
      /\ \A j \in 1 .. n - 1 : o[j] = IF i + j < n THEN q[i + j + 1] ELSE q[i + j - n + 1]
  <2>1. \A j \in 1 .. n - 1 : (IF i + j < n THEN q[i + j + 1] ELSE q[i + j - n + 1]) \in S
    BY <1>1
  <2>2. n - 1 \in Nat /\ o \in [1 .. n - 1 -> S]
    BY <1>1, <2>1 DEF OthersAt
  <2>. QED
    BY <2>2 DEF OthersAt
<1>. HIDE DEF o, h
<1>4. /\ b \in Seq(S) /\ Len(b) = n /\ b # << >>
      /\ \A j \in 1 .. n : b[j] = IF j < n THEN o[j] ELSE h
  BY <1>1, <1>2, <1>3
<1>. HIDE DEF b
<1>5. Turn5(State5(q, i), t) = [queue |-> Tail(b), rm |-> Head(b)]
  BY <1>2, <1>4 DEF Turn5, State5, Remaining, Dequeued, o, h, b
<1>6. Head(b) = InHand(q, i + 1)
  <2>1. Head(b) = b[1]
    BY <1>4
  <2>. QED
    BY <1>1, <1>2, <1>3, <1>4, <2>1 DEF InHand
<1>7. Tail(b) = OthersAt(q, i + 1)
  <2>1. Tail(b) = [j \in 1 .. n - 1 |-> b[j + 1]]
    BY <1>4, TailFunction
  <2>2. ASSUME NEW j \in 1 .. n - 1
        PROVE  b[j + 1] = IF (i + 1) + j < n THEN q[(i + 1) + j + 1] ELSE q[(i + 1) + j - n + 1]
    BY <1>1, <1>2, <1>3, <1>4
  <2>. QED
    BY <2>1, <2>2 DEF OthersAt
<1>. QED
  BY <1>5, <1>6, <1>7 DEF State5

LEMMA Terminate5Lemma ==
    ASSUME NEW S, NEW q \in Seq(S), q # << >>, NEW t, \A j \in 1 .. Len(q) : q[j] # t
    PROVE  Terminated5(q, t) = Tail(q)
<1>. DEFINE n == Len(q)
            body(f) == [i \in 0 .. n |->
                          IF i = 0 THEN [queue |-> Tail(q), rm |-> Head(q)] ELSE Turn5(f[i - 1], t)]
            w == [i \in 0 .. n |-> State5(q, i)]
            f == CHOOSE g : g = body(g)
<1>1. n \in Nat /\ n > 0
  OBVIOUS
<1>2. State5(q, 0) = [queue |-> Tail(q), rm |-> Head(q)] /\ State5(q, n).queue = Tail(q)
  <2>1. Tail(q) = [j \in 1 .. n - 1 |-> q[j + 1]] /\ Head(q) = q[1]
    BY TailFunction
  <2>2. OthersAt(q, 0) = Tail(q) /\ OthersAt(q, n) = Tail(q) /\ InHand(q, 0) = Head(q)
    BY <1>1, <2>1 DEF OthersAt, InHand
  <2>. QED
    BY <2>2 DEF State5
<1>3. \A i \in 0 .. n - 1 : Turn5(State5(q, i), t) = State5(q, i + 1)
  BY Turn5Lemma
<1>4. w = body(w)
  <2>1. ASSUME NEW i \in 0 .. n
        PROVE  w[i] = IF i = 0 THEN [queue |-> Tail(q), rm |-> Head(q)] ELSE Turn5(w[i - 1], t)
    <3>1. CASE i = 0
      BY <1>2, <3>1
    <3>2. CASE i # 0
      <4>1. i - 1 \in 0 .. n - 1 /\ i - 1 \in 0 .. n /\ (i - 1) + 1 = i
        BY <1>1, <3>2
      <4>. QED
        BY <1>3, <3>2, <4>1
    <3>. QED
      BY <3>1, <3>2
  <2>. QED
    BY <2>1
<1>. HIDE DEF w
<1>5. f = body(f)
  BY <1>4
<1>. HIDE DEF f
<1>6. \A i \in 0 .. n : f[i] = State5(q, i)
  <2>. DEFINE T == {i \in 0 .. n : f[i] # State5(q, i)}
  <2>. SUFFICES ASSUME T # {} PROVE FALSE
    OBVIOUS
  <2>1. T \subseteq Nat
    BY <1>1
  <2>2. PICK x \in T : \A y \in T : x <= y
    BY <2>1, LeastElement
  <2>3. x # 0
    BY <1>1, <1>2, <1>5
  <2>4. x - 1 \in 0 .. n - 1 /\ x - 1 \in 0 .. n /\ x - 1 \notin T /\ (x - 1) + 1 = x
    BY <1>1, <2>2, <2>3
  <2>5. f[x] = Turn5(f[x - 1], t)
    BY <1>1, <1>5, <2>3
  <2>. QED
    BY <1>3, <2>4, <2>5
<1>7. Terminated5(q, t) = f[n].queue
  BY DEF Terminated5, f
<1>. QED
  BY <1>1, <1>2, <1>6, <1>7

(***************************************************************************)
(* terminate() of mp6.  k is the place of the given thread in the queue,   *)
(* or Len(q) + 1 when it is not there.  After i turns the threads that     *)
(* were not looked at are in front, followed by those that were put back.  *)
(***************************************************************************)
Left(q, k) == [j \in 1 .. (IF k <= Len(q) THEN Len(q) - 1 ELSE Len(q)) |->
                  IF j < k THEN q[j] ELSE q[j + 1]]
State6(q, k, i) ==
    [j \in 1 .. (IF k <= i THEN Len(q) - 1 ELSE Len(q)) |->
        IF j <= Len(q) - i THEN q[i + j]
        ELSE IF j - (Len(q) - i) < k THEN q[j - (Len(q) - i)] ELSE q[j - (Len(q) - i) + 1]]

LEMMA Turn6Lemma ==
    ASSUME NEW S, NEW q \in Seq(S), NEW t, NEW k \in 1 .. Len(q) + 1,
           \A j \in 1 .. Len(q) : q[j] = t <=> j = k,
           NEW i \in 0 .. Len(q) - 1
    PROVE  Rotate(State6(q, k, i), t) = State6(q, k, i + 1)
<1>. DEFINE n == Len(q)
            a == State6(q, k, i)
            m == IF k <= i THEN n - 1 ELSE n
<1>1. /\ n \in Nat /\ n > 0 /\ i \in Nat /\ i < n /\ \A j \in 1 .. n : q[j] \in S
      /\ k \in Nat /\ k > 0 /\ m \in Nat /\ (k <= i => m = n - 1) /\ (k > i => m = n)
  OBVIOUS
<1>. HIDE DEF m
<1>2. /\ a \in Seq(S) /\ Len(a) = m /\ a # << >>
      /\ \A j \in 1 .. m : a[j] = IF j <= n - i THEN q[i + j]
                                  ELSE IF j - (n - i) < k THEN q[j - (n - i)]
                                  ELSE q[j - (n - i) + 1]
  <2>1. \A j \in 1 .. m : (IF j <= n - i THEN q[i + j]
                           ELSE IF j - (n - i) < k THEN q[j - (n - i)]
                           ELSE q[j - (n - i) + 1]) \in S
    BY <1>1
  <2>2. a = [j \in 1 .. m |-> IF j <= n - i THEN q[i + j]
                              ELSE IF j - (n - i) < k THEN q[j - (n - i)]
                              ELSE q[j - (n - i) + 1]]
    BY DEF State6, m
  <2>3. a \in [1 .. m -> S] /\ m > 0
    BY <1>1, <2>1, <2>2
  <2>4. a \in Seq(S) /\ Len(a) = m /\ a # << >>
    <3>. HIDE DEF a
    <3>. QED
      BY <1>1, <2>3
  <2>. QED
    BY <2>2, <2>4
<1>. HIDE DEF a
<1>3. Head(a) = q[i + 1] /\ Head(a) \in S /\ (Head(a) = t <=> k = i + 1)
  BY <1>1, <1>2, TailFunction
<1>4. /\ Tail(a) \in Seq(S) /\ Len(Tail(a)) = m - 1
      /\ Tail(a) = [j \in 1 .. m - 1 |-> a[j + 1]]
  BY <1>2, TailFunction, HeadTailProperties
<1>5. CASE k = i + 1
  <2>1. Rotate(a, t) = Tail(a) /\ m = n
    BY <1>1, <1>3, <1>5 DEF Rotate
  <2>2. \A j \in 1 .. n - 1 :
           a[j + 1] = IF j <= n - (i + 1) THEN q[(i + 1) + j]
                      ELSE IF j - (n - (i + 1)) < k THEN q[j - (n - (i + 1))]
                      ELSE q[j - (n - (i + 1)) + 1]
    BY <1>1, <1>2, <1>5, <2>1
  <2>3. (IF k <= i + 1 THEN n - 1 ELSE n) = n - 1
    BY <1>5
  <2>4. State6(q, k, i + 1) = [j \in 1 .. n - 1 |-> a[j + 1]]
    BY <2>2, <2>3 DEF State6
  <2>. QED
    BY <1>4, <2>1, <2>4 DEF a
<1>6. CASE k # i + 1
  <2>. DEFINE b == Append(Tail(a), Head(a))
  <2>1. Rotate(a, t) = b
    BY <1>3, <1>6 DEF Rotate
  <2>2. /\ b \in Seq(S) /\ Len(b) = m
        /\ \A j \in 1 .. m : b[j] = IF j < m THEN a[j + 1] ELSE q[i + 1]
    BY <1>1, <1>2, <1>3, <1>4, AppendProperties
  <2>3. b \in [1 .. m -> S]
    BY <2>2, LenProperties
  <2>. HIDE DEF b
  <2>4. \A j \in 1 .. m :
           b[j] = IF j <= n - (i + 1) THEN q[(i + 1) + j]
                  ELSE IF j - (n - (i + 1)) < k THEN q[j - (n - (i + 1))]
                  ELSE q[j - (n - (i + 1)) + 1]
    <3>. SUFFICES ASSUME NEW j \in 1 .. m
                  PROVE  b[j] = IF j <= n - (i + 1) THEN q[(i + 1) + j]
                                ELSE IF j - (n - (i + 1)) < k THEN q[j - (n - (i + 1))]
                                ELSE q[j - (n - (i + 1)) + 1]
      OBVIOUS
    <3>1. CASE j = m
      <4>1. b[j] = q[i + 1]
        BY <1>1, <2>2, <3>1
      <4>2. CASE k <= i
        BY <1>1, <3>1, <4>1, <4>2
      <4>3. CASE k > i
        BY <1>1, <1>6, <3>1, <4>1, <4>3
      <4>. QED
        BY <1>1, <4>2, <4>3
    <3>2. CASE j # m
      <4>1. b[j] = a[j + 1] /\ j + 1 \in 1 .. m /\ j \in Nat /\ j > 0
        BY <1>1, <2>2, <3>2
      <4>2. (j + 1) - (n - i) = j - (n - (i + 1)) /\ i + (j + 1) = (i + 1) + j
            /\ (j + 1 <= n - i <=> j <= n - (i + 1))
        BY <1>1, <4>1
      <4>. QED
        BY <1>2, <4>1, <4>2
    <3>. QED
      BY <3>1, <3>2
  <2>5. (IF k <= i + 1 THEN n - 1 ELSE n) = m
    BY <1>1, <1>6
  <2>6. b = [j \in 1 .. m |-> IF j <= n - (i + 1) THEN q[(i + 1) + j]
                  ELSE IF j - (n - (i + 1)) < k THEN q[j - (n - (i + 1))]
                  ELSE q[j - (n - (i + 1)) + 1]]
    BY <2>3, <2>4
  <2>. QED
    BY <2>1, <2>5, <2>6 DEF State6, a
<1>. QED
  BY <1>5, <1>6

LEMMA Terminate6Lemma ==
    ASSUME NEW S, NEW q \in Seq(S), NEW t, NEW k \in 1 .. Len(q) + 1,
           \A j \in 1 .. Len(q) : q[j] = t <=> j = k
    PROVE  Terminated6(q, t) = Left(q, k)
<1>. DEFINE n == Len(q)
            body(f) == [i \in 0 .. n |-> IF i = 0 THEN q ELSE Rotate(f[i - 1], t)]
            w == [i \in 0 .. n |-> State6(q, k, i)]
            f == CHOOSE g : g = body(g)
<1>1. n \in Nat
  OBVIOUS
<1>2. State6(q, k, 0) = q /\ State6(q, k, n) = Left(q, k)
  <2>1. q \in [1 .. n -> S]
    BY LenProperties
  <2>2. State6(q, k, 0) = q
    <3>1. ~(k <= 0) /\ \A j \in 1 .. n : j <= n - 0 /\ 0 + j = j
      BY <1>1
    <3>2. State6(q, k, 0) = [j \in 1 .. n |-> q[j]]
      BY <3>1 DEF State6
    <3>. QED
      BY <2>1, <3>2, Zenon
  <2>3. State6(q, k, n) = Left(q, k)
    <3>1. \A j \in 1 .. n : ~(j <= n - n) /\ j - (n - n) = j
      BY <1>1
    <3>. QED
      BY <1>1, <3>1 DEF State6, Left
  <2>. QED
    BY <2>2, <2>3
<1>3. \A i \in 0 .. n - 1 : Rotate(State6(q, k, i), t) = State6(q, k, i + 1)
  BY Turn6Lemma
<1>4. w = body(w)
  <2>1. ASSUME NEW i \in 0 .. n
        PROVE  w[i] = IF i = 0 THEN q ELSE Rotate(w[i - 1], t)
    <3>1. CASE i = 0
      BY <1>2, <3>1
    <3>2. CASE i # 0
      <4>1. i - 1 \in 0 .. n - 1 /\ i - 1 \in 0 .. n /\ (i - 1) + 1 = i
        BY <1>1, <3>2
      <4>. QED
        BY <1>3, <3>2, <4>1
    <3>. QED
      BY <3>1, <3>2
  <2>. QED
    BY <2>1
<1>. HIDE DEF w
<1>5. f = body(f)
  BY <1>4
<1>. HIDE DEF f
<1>6. \A i \in 0 .. n : f[i] = State6(q, k, i)
  <2>. DEFINE T == {i \in 0 .. n : f[i] # State6(q, k, i)}
  <2>. SUFFICES ASSUME T # {} PROVE FALSE
    OBVIOUS
  <2>1. T \subseteq Nat
    BY <1>1
  <2>2. PICK x \in T : \A y \in T : x <= y
    BY <2>1, LeastElement
  <2>3. x # 0
    BY <1>1, <1>2, <1>5
  <2>4. x - 1 \in 0 .. n - 1 /\ x - 1 \in 0 .. n /\ x - 1 \notin T /\ (x - 1) + 1 = x
    BY <1>1, <2>2, <2>3
  <2>5. f[x] = Rotate(f[x - 1], t)
    BY <1>1, <1>5, <2>3
  <2>. QED
    BY <1>3, <2>4, <2>5
<1>7. Terminated6(q, t) = f[n]
  BY DEF Terminated6, f
<1>. QED
  BY <1>1, <1>2, <1>6, <1>7

\* What remains is the queue without the place of the thread.
LEMMA LeftIsRemoveAt ==
    ASSUME NEW S, NEW q \in Seq(S), NEW i \in 1 .. Len(q)
    PROVE  Left(q, i) = RemoveAt(q, i)
<1>. DEFINE n == Len(q)
            u == SubSeq(q, 1, i - 1)
            v == SubSeq(q, i + 1, n)
            l == Left(q, i)
<1>1. n \in Nat /\ i \in Nat /\ i > 0 /\ i <= n /\ \A j \in 1 .. n : q[j] \in S
  OBVIOUS
<1>2. /\ u \in Seq(S) /\ Len(u) = i - 1
      /\ \A j \in 1 .. i - 1 : u[j] = q[j]
  BY <1>1, SubSeqProperties
<1>3. /\ v \in Seq(S) /\ Len(v) = n - i
      /\ \A j \in 1 .. n - i : v[j] = q[i + j]
  BY <1>1, SubSeqProperties
<1>. HIDE DEF u, v
<1>4. /\ u \o v \in Seq(S) /\ Len(u \o v) = n - 1
      /\ \A j \in 1 .. n - 1 : (u \o v)[j] = IF j < i THEN q[j] ELSE q[j + 1]
  <2>0. /\ u \o v \in Seq(S) /\ Len(u \o v) = Len(u) + Len(v)
        /\ \A j \in 1 .. Len(u) + Len(v) :
              (u \o v)[j] = IF j <= Len(u) THEN u[j] ELSE v[j - Len(u)]
    BY <1>2, <1>3, ConcatProperties
  <2>1. /\ u \o v \in Seq(S) /\ Len(u \o v) = (i - 1) + (n - i)
        /\ \A j \in 1 .. (i - 1) + (n - i) :
              (u \o v)[j] = IF j <= i - 1 THEN u[j] ELSE v[j - (i - 1)]
    BY <1>2, <1>3, <2>0
  <2>2. (i - 1) + (n - i) = n - 1
    BY <1>1
  <2>3. ASSUME NEW j \in 1 .. n - 1
        PROVE  (u \o v)[j] = IF j < i THEN q[j] ELSE q[j + 1]
    <3>1. (u \o v)[j] = IF j <= i - 1 THEN u[j] ELSE v[j - (i - 1)]
      BY <2>1, <2>2
    <3>2. CASE j < i
      BY <1>1, <1>2, <3>1, <3>2
    <3>3. CASE ~(j < i)
      <4>1. j - (i - 1) \in 1 .. n - i /\ i + (j - (i - 1)) = j + 1 /\ ~(j <= i - 1)
        BY <1>1, <3>3
      <4>. QED
        BY <1>3, <3>1, <3>3, <4>1
    <3>. QED
      BY <3>2, <3>3
  <2>. QED
    BY <2>1, <2>2, <2>3
<1>5. u \o v \in [1 .. n - 1 -> S]
  BY <1>4, LenProperties
<1>6. u \o v = [j \in 1 .. n - 1 |-> IF j < i THEN q[j] ELSE q[j + 1]]
  BY <1>4, <1>5
<1>7. l = [j \in 1 .. n - 1 |-> IF j < i THEN q[j] ELSE q[j + 1]]
  BY <1>1 DEF Left
<1>. QED
  BY <1>6, <1>7 DEF RemoveAt, u, v

LEMMA Terminate6Removes ==
    ASSUME NEW S, NEW q \in Seq(S), IsInjective(q)
    PROVE  /\ \A i \in 1 .. Len(q) : Terminated6(q, q[i]) = RemoveAt(q, i)
           /\ \A t : t \notin Range(q) => Terminated6(q, t) = q
<1>1. Len(q) \in Nat /\ DOMAIN q = 1 .. Len(q) /\ q \in [1 .. Len(q) -> S]
  BY LenProperties
<1>2. ASSUME NEW i \in 1 .. Len(q) PROVE Terminated6(q, q[i]) = RemoveAt(q, i)
  <2>1. \A j \in 1 .. Len(q) : q[j] = q[i] <=> j = i
    BY <1>1 DEF IsInjective
  <2>2. i \in 1 .. Len(q) + 1
    BY <1>1
  <2>3. Terminated6(q, q[i]) = Left(q, i)
    BY <2>1, <2>2, Terminate6Lemma
  <2>. QED
    BY <2>3, LeftIsRemoveAt
<1>3. ASSUME NEW t, t \notin Range(q) PROVE Terminated6(q, t) = q
  <2>. DEFINE k == Len(q) + 1
  <2>1. k \in 1 .. Len(q) + 1 /\ ~(k <= Len(q)) /\ \A j \in 1 .. Len(q) : j < k /\ j # k
    BY <1>1
  <2>2. \A j \in 1 .. Len(q) : q[j] = t <=> j = k
    BY <1>1, <1>3, <2>1 DEF Range
  <2>. HIDE DEF k
  <2>3. Terminated6(q, t) = Left(q, k)
    BY <2>1, <2>2, Terminate6Lemma
  <2>4. Left(q, k) = [j \in 1 .. Len(q) |-> q[j]]
    BY <2>1 DEF Left
  <2>. QED
    BY <1>1, <2>3, <2>4
<1>. QED
  BY <1>2, <1>3

-----------------------------------------------------------------------------
(***************************************************************************)
(* The invariant of the scheduler: types, every thread at one place, and   *)
(* EFLAGS that are clear from the first dispatch on, which is where they   *)
(* come from: setup_context clears them, and a switch saves what the CPU   *)
(* has.  Before the first dispatch no thread has ended.                    *)
(***************************************************************************)
FlagsInv == eflags = [t \in Threads |-> FALSE] /\ (started => ~interrupts)

BeforeStart ==
    ~started => current = Null /\ shut = {} /\ ready_queue = Tail(StartOrder)

SchedulerInv == TypeOK /\ ShutdownIsFinal /\ FlagsInv /\ BeforeStart

LEMMA StartFacts ==
    /\ Head(StartOrder) \in Threads
    /\ Tail(StartOrder) \in Seq(Threads)
    /\ IsInjective(Tail(StartOrder))
    /\ Range(Tail(StartOrder)) = Threads \ {Head(StartOrder)}
BY SchedulerAssumption, DequeueLemma

LEMMA InitScheduler == Init => SchedulerInv
<1>. SUFFICES ASSUME Init PROVE SchedulerInv
  OBVIOUS
<1>1. TypeOK
  <2>1. 0 \in 0 .. Bursts
    BY SchedulerAssumption
  <2>2. burst \in [Threads -> 0 .. Bursts] /\ eflags \in [Threads -> BOOLEAN]
    BY <2>1 DEF Init, InitialFlag
  <2>3. current \in Threads \cup {Null} /\ ready_queue \in Seq(Threads) /\ shut \subseteq Threads
        /\ started \in BOOLEAN /\ interrupts \in BOOLEAN
    BY StartFacts DEF Init
  <2>4. passing \subseteq Threads /\ astray \in BOOLEAN
    BY DEF Init
  <2>. QED
    BY <2>2, <2>3, <2>4 DEF TypeOK
<1>2. ShutdownIsFinal
  BY StartFacts, SchedulerAssumption DEF Init, ShutdownIsFinal
<1>3. FlagsInv /\ BeforeStart
  BY DEF Init, FlagsInv, BeforeStart, InitialFlag
<1>. QED
  BY <1>1, <1>2, <1>3 DEF SchedulerInv

\* main() dispatches the first thread, which was not added to the queue.
LEMMA StartStep == SchedulerInv /\ Start => SchedulerInv'
<1>. SUFFICES ASSUME SchedulerInv, Start PROVE SchedulerInv'
  OBVIOUS
<1>. DEFINE h == Head(StartOrder)
<1>1. /\ ~started /\ current = Null /\ shut = {} /\ ready_queue = Tail(StartOrder)
      /\ passing' = passing /\ astray' = astray
      /\ started' = TRUE /\ current' = h /\ shut' = shut
      /\ ready_queue' = ready_queue /\ burst' = burst
      /\ eflags' = eflags /\ interrupts' = eflags[h]
  BY DEF SchedulerInv, BeforeStart, Start, DispatchTo, SavedEflags
<1>2. interrupts' = FALSE
  BY <1>1, StartFacts DEF SchedulerInv, FlagsInv
<1>3. TypeOK'
  BY <1>1, <1>2, StartFacts DEF SchedulerInv, TypeOK
<1>4. ShutdownIsFinal'
  BY <1>1, StartFacts DEF SchedulerInv, ShutdownIsFinal
<1>. QED
  BY <1>1, <1>2, <1>3, <1>4 DEF SchedulerInv, FlagsInv, BeforeStart

\* A thread that runs is not queued, did not end, and came after the start.
LEMMA RunningFacts ==
    ASSUME SchedulerInv, NEW t \in Threads, Runs(t)
    PROVE  /\ current = t /\ started /\ t # Null /\ ~astray
           /\ t \notin Range(ready_queue) /\ t \notin shut
           /\ ~interrupts
BY SchedulerAssumption DEF SchedulerInv, Runs, ShutdownIsFinal, BeforeStart, FlagsInv

LEMMA BurstType ==
    ASSUME SchedulerInv, NEW t \in Threads, MayBurst(t), CountedBurst(t)
    PROVE  burst' \in [Threads -> 0 .. Bursts]
<1>1. burst \in [Threads -> 0 .. Bursts] /\ Bursts \in Nat
  BY SchedulerAssumption DEF SchedulerInv, TypeOK
<1>2. CASE t \in Returning
  <2>1. burst[t] + 1 \in 0 .. Bursts
    BY <1>1, <1>2 DEF MayBurst
  <2>. QED
    BY <1>1, <1>2, <2>1 DEF CountedBurst
<1>3. CASE t \notin Returning
  BY <1>1, <1>3 DEF CountedBurst
<1>. QED
  BY <1>2, <1>3

LEMMA BurstOnlyStep ==
    ASSUME SchedulerInv, NEW t \in Threads, BurstOnly(t)
    PROVE  SchedulerInv'
<1>1. burst' \in [Threads -> 0 .. Bursts]
  BY BurstType DEF BurstOnly
<1>. QED
  BY <1>1 DEF BurstOnly, SchedulerInv, TypeOK, ShutdownIsFinal, FlagsInv, BeforeStart

\* A switch from a running thread keeps all flags clear.
LEMMA SwitchFlags ==
    ASSUME SchedulerInv, NEW t \in Threads, Runs(t), NEW u \in Threads, NEW flag, flag = FALSE,
           DispatchTo(u, flag)
    PROVE  current' = u /\ eflags' = [o \in Threads |-> FALSE] /\ interrupts' = FALSE
<1>1. eflags = [o \in Threads |-> FALSE] /\ current = t /\ current # Null
  BY RunningFacts DEF SchedulerInv, FlagsInv
<1>2. eflags' = [eflags EXCEPT ![t] = FALSE]
  BY <1>1 DEF DispatchTo, SavedEflags
<1>3. eflags' = [o \in Threads |-> FALSE]
  BY <1>1, <1>2
<1>. QED
  BY <1>3 DEF DispatchTo

LEMMA BurstAndPassStep ==
    ASSUME SchedulerInv, NEW t \in Threads, BurstAndPass(t)
    PROVE  SchedulerInv'
<1>. DEFINE q == Append(ready_queue, t)
            h == Head(q)
<1>1. Runs(t) /\ MayBurst(t) /\ CountedBurst(t)
  BY DEF BurstAndPass, MayBurst
<1>2. /\ current = t /\ started /\ t # Null /\ ~astray
      /\ t \notin Range(ready_queue) /\ t \notin shut /\ ~interrupts
  BY <1>1, RunningFacts
<1>3. q \in Seq(Threads) /\ IsInjective(q) /\ Range(q) = Range(ready_queue) \cup {t}
  BY <1>2, EnqueueLemma DEF SchedulerInv, TypeOK, ShutdownIsFinal
<1>4. q # << >>
  BY <1>3 DEF Range
<1>5. /\ h \in Threads /\ h \in Range(q)
      /\ Tail(q) \in Seq(Threads) /\ IsInjective(Tail(q))
      /\ Range(Tail(q)) = Range(q) \ {h}
  BY <1>3, <1>4, DequeueLemma
<1>6. /\ ready_queue' = Tail(q) /\ started' = started /\ shut' = shut
      /\ passing' = passing /\ astray' = astray
      /\ DispatchTo(h, interrupts)
  BY DEF BurstAndPass, Resumed
<1>. HIDE DEF q
<1>7. interrupts = FALSE
  BY <1>2 DEF SchedulerInv, TypeOK
<1>8. current' = h /\ eflags' = [o \in Threads |-> FALSE] /\ interrupts' = FALSE
  BY <1>1, <1>5, <1>6, <1>7, SwitchFlags
<1>9. burst' \in [Threads -> 0 .. Bursts]
  BY <1>1, BurstType
<1>10. TypeOK'
  BY <1>5, <1>6, <1>8, <1>9 DEF SchedulerInv, TypeOK
<1>11. ShutdownIsFinal'
  BY <1>2, <1>3, <1>5, <1>6, <1>8 DEF SchedulerInv, ShutdownIsFinal
<1>. QED
  BY <1>2, <1>6, <1>8, <1>10, <1>11 DEF SchedulerInv, FlagsInv, BeforeStart

\* terminate() is called for the thread that runs, which is never queued.
LEMMA ShutdownTakesHead ==
    ASSUME SchedulerInv, NEW t \in Threads, t \notin Range(ready_queue)
    PROVE  Terminated5(ready_queue, t) = Remaining(ready_queue)
<1>1. ready_queue \in Seq(Threads)
  BY DEF SchedulerInv, TypeOK
<1>2. CASE ready_queue = << >>
  BY <1>2 DEF Terminated5, Remaining
<1>3. CASE ready_queue # << >>
  <2>1. \A j \in 1 .. Len(ready_queue) : ready_queue[j] # t
    BY <1>1 DEF Range
  <2>. QED
    BY <1>1, <1>3, <2>1, Terminate5Lemma DEF Remaining
<1>. QED
  BY <1>2, <1>3

(***************************************************************************)
(* A termination with threads in the queue: the next one runs, if there is *)
(* one left; if not, the thread stays the current one, and goes astray.    *)
(***************************************************************************)
LEMMA ShutdownStep ==
    ASSUME SchedulerInv, NEW t \in Threads, Shutdown(t)
    PROVE  SchedulerInv'
<1>. DEFINE q == Remaining(ready_queue)
<1>1. /\ Runs(t) /\ shut' = shut \cup {t} /\ started' = started /\ burst' = burst
      /\ passing' = passing
  BY DEF Shutdown
<1>2. /\ current = t /\ started /\ t # Null /\ ~astray
      /\ t \notin Range(ready_queue) /\ t \notin shut /\ ~interrupts
  BY <1>1, RunningFacts
<1>3. /\ ready_queue' = Remaining(q) /\ astray' = (q = << >>)
      /\ IF q = << >>
         THEN current' = current /\ interrupts' = FALSE /\ eflags' = eflags
         ELSE DispatchTo(Head(q), FALSE)
  BY <1>2, ShutdownTakesHead DEF Shutdown
<1>4. q \in Seq(Threads) /\ IsInjective(q) /\ Range(q) \subseteq Range(ready_queue)
  <2>1. ready_queue \in Seq(Threads) /\ IsInjective(ready_queue)
    BY DEF SchedulerInv, TypeOK, ShutdownIsFinal
  <2>. QED
    BY <2>1, DequeueLemma DEF Remaining
<1>. HIDE DEF q
<1>5. CASE q = << >>
  <2>1. /\ ready_queue' = << >> /\ current' = t /\ interrupts' = FALSE /\ eflags' = eflags
        /\ astray' = TRUE
    BY <1>2, <1>3, <1>5 DEF Remaining
  <2>2. Range(ready_queue') = {} /\ IsInjective(ready_queue') /\ << >> \in Seq(Threads)
    BY <2>1 DEF Range, IsInjective
  <2>3. TypeOK'
    BY <1>1, <2>1, <2>2 DEF SchedulerInv, TypeOK
  <2>4. ShutdownIsFinal'
    BY <1>1, <2>1, <2>2 DEF ShutdownIsFinal
  <2>. QED
    BY <1>1, <1>2, <2>1, <2>3, <2>4 DEF SchedulerInv, FlagsInv, BeforeStart
<1>6. CASE q # << >>
  <2>. DEFINE h == Head(q)
  <2>1. ready_queue' = Tail(q) /\ DispatchTo(h, FALSE) /\ astray' = FALSE
    BY <1>3, <1>6 DEF Remaining
  <2>2. /\ h \in Threads /\ h \in Range(q)
        /\ Tail(q) \in Seq(Threads) /\ IsInjective(Tail(q))
        /\ Range(Tail(q)) = Range(q) \ {h}
    BY <1>4, <1>6, DequeueLemma
  <2>3. current' = h /\ eflags' = [o \in Threads |-> FALSE] /\ interrupts' = FALSE
    BY <1>1, <2>1, <2>2, SwitchFlags
  <2>4. TypeOK'
    BY <1>1, <2>1, <2>2, <2>3 DEF SchedulerInv, TypeOK
  <2>5. ShutdownIsFinal'
    BY <1>1, <1>2, <1>4, <2>1, <2>2, <2>3 DEF SchedulerInv, ShutdownIsFinal
  <2>. QED
    BY <1>1, <1>2, <2>3, <2>4, <2>5 DEF SchedulerInv, FlagsInv, BeforeStart
<1>. QED
  BY <1>5, <1>6

LEMMA NextScheduler == SchedulerInv /\ [Next]_vars => SchedulerInv'
<1>. SUFFICES ASSUME SchedulerInv, [Next]_vars PROVE SchedulerInv'
  OBVIOUS
<1>1. CASE Start
  BY <1>1, StartStep
<1>2. ASSUME NEW t \in Threads, BurstOnly(t) PROVE SchedulerInv'
  BY <1>2, BurstOnlyStep
<1>3. ASSUME NEW t \in Threads, BurstAndPass(t) PROVE SchedulerInv'
  BY <1>3, BurstAndPassStep
<1>4. ASSUME NEW t \in Threads, Shutdown(t) PROVE SchedulerInv'
  BY <1>4, ShutdownStep
<1>5. CASE UNCHANGED vars
  BY <1>5 DEF vars, SchedulerInv, TypeOK, ShutdownIsFinal, FlagsInv, BeforeStart
<1>. QED
  BY <1>1, <1>2, <1>3, <1>4, <1>5 DEF Next

LEMMA AlwaysScheduler == Spec => []SchedulerInv
BY InitScheduler, NextScheduler, PTL DEF Spec

-----------------------------------------------------------------------------
(***************************************************************************)
(* The types of the scheduler's state hold in every state.                 *)
(***************************************************************************)
THEOREM TypeCorrect == Spec => []TypeOK
<1>1. SchedulerInv => TypeOK
  BY DEF SchedulerInv
<1>. QED
  BY <1>1, AlwaysScheduler, PTL

(***************************************************************************)
(* thread_shutdown (mp5/thread.C) is final: a thread that went through it  *)
(* is not in the ready queue and not dispatched again; it is still the     *)
(* current one only where yield() found no thread to dispatch, and then    *)
(* none is left.  No thread is in the queue twice or while it runs.        *)
(***************************************************************************)
THEOREM NoDispatchAfterShutdown == Spec => []ShutdownIsFinal
<1>1. SchedulerInv => ShutdownIsFinal
  BY DEF SchedulerInv
<1>. QED
  BY <1>1, AlwaysScheduler, PTL

(***************************************************************************)
(* From the first dispatch in main() on, interrupts are off: setup_context *)
(* clears the flag and no switch ever sets it.                             *)
(***************************************************************************)
THEOREM ThreadsUninterrupted == Spec => []Uninterrupted
<1>1. SchedulerInv => Uninterrupted
  BY DEF SchedulerInv, FlagsInv, Uninterrupted
<1>. QED
  BY <1>1, AlwaysScheduler, PTL

(***************************************************************************)
(* terminate() of mp6 takes exactly the given thread, and keeps the order  *)
(* of the others, in every queue the history of the system can produce.    *)
(***************************************************************************)
THEOREM TerminationTakes == Spec => []Terminate6Correct
<1>1. SchedulerInv => Terminate6Correct
  <2>. SUFFICES ASSUME SchedulerInv PROVE Terminate6Correct
    OBVIOUS
  <2>1. ready_queue \in Seq(Threads) /\ IsInjective(ready_queue)
    BY DEF SchedulerInv, TypeOK, ShutdownIsFinal
  <2>. QED
    BY <2>1, Terminate6Removes DEF Terminate6Correct
<1>. QED
  BY <1>1, AlwaysScheduler, PTL
=============================================================================
