------------------------------- MODULE Lemmas -------------------------------
(***************************************************************************)
(* Facts about numbers and sequences that the proofs of several modules    *)
(* rest on.                                                                *)
(***************************************************************************)
EXTENDS Integers, Sequences, Functions, TLAPS, SequenceTheorems, WellFoundedInduction

-----------------------------------------------------------------------------
(***************************************************************************)
(* A nonempty set of natural numbers has a least element.  Inductions use  *)
(* it for the set of the numbers where a claim fails.                      *)
(***************************************************************************)
LEMMA LeastElement ==
    ASSUME NEW T, T \subseteq Nat, T # {}
    PROVE  \E x \in T : \A y \in T : x <= y
<1>1. PICK x \in T : \A y \in T : ~(<<y, x>> \in OpToRel(<, Nat))
  BY NatLessThanWellFounded, WFMin, Zenon
<1>2. \A y \in T : ~(y < x)
  BY <1>1 DEF OpToRel
<1>. QED
  BY <1>2

(***************************************************************************)
(* Arithmetic modulo w: a remainder may be taken before or after a sum.    *)
(***************************************************************************)
LEMMA DivMod ==
    \A m \in Int, w \in Nat : w > 0 =>
        \E q \in Int : m = (w * q) + (m % w) /\ m % w \in 0 .. w - 1
OBVIOUS

LEMMA ModUnique ==
    ASSUME NEW m \in Int, NEW w \in Nat, w > 0, NEW q \in Int, NEW r \in 0 .. w - 1,
           m = (w * q) + r
    PROVE  m % w = r
OBVIOUS

LEMMA ModSmall == \A m, w \in Nat : m < w => m % w = m
OBVIOUS

LEMMA ModAdd ==
    ASSUME NEW c \in Int, NEW d \in Int, NEW w \in Nat, w > 0
    PROVE  ((c % w) + d) % w = (c + d) % w
<1>. DEFINE e == (c % w) + d
<1>1. PICK q \in Int : c = (w * q) + (c % w) /\ c % w \in 0 .. w - 1
  BY DivMod
<1>2. PICK k \in Int : e = (w * k) + (e % w) /\ e % w \in 0 .. w - 1
  <2>1. e \in Int
    BY <1>1
  <2>. QED
    BY <2>1, DivMod
<1>3. w * (q + k) = (w * q) + (w * k)
  OBVIOUS
<1>4. c + d = (w * (q + k)) + (e % w)
  <2>. DEFINE a == c % w
              b == e % w
  <2>1. /\ c = (w * q) + a /\ e = (w * k) + b /\ e = a + d
        /\ a \in Int /\ b \in Int /\ w * q \in Int /\ w * k \in Int
    BY <1>1, <1>2
  <2>. HIDE DEF a, b, e
  <2>2. c + d = ((w * q) + (w * k)) + b
    BY <2>1
  <2>. QED
    BY <1>3, <2>2 DEF b
<1>. HIDE DEF e
<1>5. (c + d) % w = e % w
  <2>1. q + k \in Int /\ c + d \in Int
    OBVIOUS
  <2>. QED
    BY <1>2, <1>4, <2>1, ModUnique
<1>. QED
  BY <1>5 DEF e

-----------------------------------------------------------------------------
\* The sequence of two.
LEMMA PairLemma == ASSUME NEW S, NEW x \in S, NEW y \in S PROVE <<x>> \o <<y>> = <<x, y>>
<1>1. <<x>> \in Seq(S) /\ <<y>> \in Seq(S) /\ <<x, y>> \in Seq(S)
  OBVIOUS
<1>2. Len(<<x>>) = 1 /\ Len(<<y>>) = 1 /\ Len(<<x, y>>) = 2
  OBVIOUS
<1>3. <<x>> \o <<y>> \in Seq(S) /\ Len(<<x>> \o <<y>>) = 2
  BY <1>1, <1>2
<1>4. (<<x>> \o <<y>>)[1] = x /\ (<<x>> \o <<y>>)[2] = y
  BY <1>1, <1>2
<1>5. \A i \in 1 .. 2 : (<<x>> \o <<y>>)[i] = <<x, y>>[i]
  BY <1>4
<1>. QED
  BY <1>1, <1>2, <1>3, <1>5, SeqEqual

LEMMA TailFunction ==
    ASSUME NEW S, NEW q \in Seq(S), q # << >>
    PROVE  /\ Tail(q) = [j \in 1 .. Len(q) - 1 |-> q[j + 1]]
           /\ Head(q) = q[1]
<1>1. Tail(q) \in Seq(S) /\ Len(Tail(q)) = Len(q) - 1
  BY HeadTailProperties
<1>2. Tail(q) \in [1 .. Len(q) - 1 -> S]
  BY <1>1, LenProperties
<1>3. \A j \in 1 .. Len(q) - 1 : Tail(q)[j] = q[j + 1]
  BY <1>1, HeadTailProperties
<1>4. Tail(q) = [j \in 1 .. Len(q) - 1 |-> q[j + 1]]
  BY <1>2, <1>3, Zenon
<1>5. Head(q) = q[1]
  OBVIOUS
<1>. QED
  BY <1>4, <1>5, Zenon

(***************************************************************************)
(* The queue operations on sequences without repetition.                   *)
(***************************************************************************)
LEMMA EnqueueLemma ==
    ASSUME NEW S, NEW q \in Seq(S), NEW t \in S
    PROVE  /\ Append(q, t) \in Seq(S)
           /\ Range(Append(q, t)) = Range(q) \cup {t}
           /\ IsInjective(q) /\ t \notin Range(q) => IsInjective(Append(q, t))
<1>1. Append(q, t) \in Seq(S)
  OBVIOUS
<1>2. /\ DOMAIN q = 1 .. Len(q) /\ Len(q) \in Nat
      /\ DOMAIN Append(q, t) = 1 .. Len(q) + 1
      /\ \A i \in 1 .. Len(q) : Append(q, t)[i] = q[i]
      /\ Append(q, t)[Len(q) + 1] = t
  OBVIOUS
<1>3. Range(Append(q, t)) = Range(q) \cup {t}
  BY <1>2 DEF Range
<1>4. ASSUME IsInjective(q), t \notin Range(q)
      PROVE  IsInjective(Append(q, t))
  BY <1>2, <1>4 DEF Range, IsInjective
<1>. QED
  BY <1>1, <1>3, <1>4

LEMMA DequeueLemma ==
    ASSUME NEW S, NEW q \in Seq(S), q # << >>
    PROVE  /\ Head(q) \in S
           /\ Tail(q) \in Seq(S)
           /\ Head(q) \in Range(q)
           /\ IsInjective(q) => /\ IsInjective(Tail(q))
                                /\ Range(Tail(q)) = Range(q) \ {Head(q)}
<1>1. /\ Len(q) \in Nat /\ Len(q) > 0
      /\ DOMAIN q = 1 .. Len(q)
      /\ Tail(q) \in Seq(S) /\ Head(q) \in S
      /\ Head(q) = q[1]
      /\ DOMAIN Tail(q) = 1 .. Len(q) - 1
      /\ \A i \in 1 .. Len(q) - 1 : Tail(q)[i] = q[i + 1]
  OBVIOUS
<1>2. Head(q) \in Range(q)
  BY <1>1 DEF Range
<1>3. ASSUME IsInjective(q)
      PROVE  IsInjective(Tail(q)) /\ Range(Tail(q)) = Range(q) \ {Head(q)}
  <2>1. IsInjective(Tail(q))
    BY <1>1, <1>3 DEF IsInjective
  <2>2. ASSUME NEW x \in Range(Tail(q))
        PROVE  x \in Range(q) \ {Head(q)}
    <3>1. PICK i \in 1 .. Len(q) - 1 : x = q[i + 1]
      BY <1>1, <2>2 DEF Range
    <3>. QED
      BY <1>1, <1>3, <3>1 DEF Range, IsInjective
  <2>3. ASSUME NEW x \in Range(q) \ {Head(q)}
        PROVE  x \in Range(Tail(q))
    <3>1. PICK i \in 1 .. Len(q) : x = q[i] /\ i # 1
      BY <1>1, <2>3 DEF Range
    <3>2. i - 1 \in 1 .. Len(q) - 1 /\ (i - 1) + 1 = i
      BY <1>1, <3>1
    <3>3. Tail(q)[i - 1] = x
      BY <1>1, <3>1, <3>2
    <3>. QED
      BY <1>1, <3>2, <3>3 DEF Range
  <2>. QED
    BY <2>1, <2>2, <2>3
<1>. QED
  BY <1>1, <1>2, <1>3
=============================================================================
