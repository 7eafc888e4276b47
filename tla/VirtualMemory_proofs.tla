------------------------ MODULE VirtualMemory_proofs ------------------------
(***************************************************************************)
(* Theorems about VirtualMemory, for pages of any even size, any number of *)
(* frames, and any number, place and length of pools.  Clients are careful *)
(* (CarefulClients below), and the claims hold as long as frames are left: *)
(* types; that a frame that is not free is reached from exactly one entry; *)
(* that regions keep their words; that no release stops the kernel; that a *)
(* fault maps its own page and no other.  What is careful about them is a  *)
(* hypothesis and not a property of the code: each part of it keeps out a  *)
(* case in which the code fails.                                           *)
(***************************************************************************)
EXTENDS VirtualMemory, Lemmas, FiniteSetTheorems

-----------------------------------------------------------------------------
LEMMA DivUnique ==
    ASSUME NEW w \in Nat, w > 0, NEW q \in Nat, NEW c \in 0 .. w - 1
    PROVE  (w * q + c) \div w = q /\ (w * q + c) % w = c
OBVIOUS

LEMMA PageNumbers ==
    /\ PageSize \in Nat /\ PageSize > 3 /\ SelfEntry \in Words /\ SelfEntry > 2
    /\ \E h \in Nat : PageSize = 2 * h
    /\ Process \subseteq Frames /\ Frames \subseteq Nat /\ Words \subseteq Nat
    /\ Directory \in Frames /\ Directory \notin Process
BY PagingAssumption DEF SelfEntry, Words, Process, Frames, Directory

LEMMA EntryFacts ==
    \A f \in Nat : Entry(f) \in Nat /\ Present(Entry(f)) /\ FrameIn(Entry(f)) = f
<1>. SUFFICES ASSUME NEW f \in Nat
              PROVE  Entry(f) \in Nat /\ Present(Entry(f)) /\ FrameIn(Entry(f)) = f
  OBVIOUS
<1>1. PICK h \in Nat : PageSize = 2 * h
  BY PageNumbers
<1>2. f * PageSize = 2 * (f * h) /\ f * h \in Nat /\ f * PageSize = PageSize * f
  BY <1>1
<1>3. Present(Entry(f)) /\ Entry(f) \in Nat
  <2>. DEFINE k == f * h
  <2>1. k \in Nat /\ Entry(f) = 2 * (k + 1) + 1
    BY <1>2 DEF Entry
  <2>. HIDE DEF k
  <2>. QED
    BY <2>1 DEF Present
<1>4. FrameIn(Entry(f)) = f
  <2>1. Entry(f) = PageSize * f + 3 /\ 3 \in 0 .. PageSize - 1 /\ PageSize > 0
    BY <1>2, PageNumbers DEF Entry
  <2>. QED
    BY <2>1, PageNumbers, DivUnique DEF FrameIn
<1>. QED
  BY <1>3, <1>4

\* An address is made of its three parts.
LEMMA Parts ==
    ASSUME NEW d \in Nat, NEW i \in Words, NEW c \in Words
    PROVE  LET a == (d * PageSize + i) * PageSize + c
           IN  a \in Nat /\ PDIndex(a) = d /\ PTIndex(a) = i /\ Offset(a) = c
<1>. DEFINE w == PageSize
            b == d * w + i
            a == b * w + c
<1>1. w \in Nat /\ w > 0 /\ i \in 0 .. w - 1 /\ c \in 0 .. w - 1 /\ i \in Nat /\ c \in Nat
  BY PageNumbers DEF Words
<1>2. b \in Nat /\ b = w * d + i
  <2>1. d * w = w * d /\ d * w \in Nat
    BY <1>1
  <2>. QED
    BY <1>1, <2>1
<1>. HIDE DEF w
<1>3. b \div w = d /\ b % w = i
  BY <1>1, <1>2, DivUnique
<1>4. a \in Nat /\ a = w * b + c
  <2>. HIDE DEF b
  <2>1. b * w = w * b /\ b * w \in Nat
    BY <1>1, <1>2
  <2>. QED
    BY <1>1, <2>1
<1>5. a \div w = b /\ a % w = c
  <2>. HIDE DEF b
  <2>. QED
    BY <1>1, <1>2, <1>4, DivUnique
<1>6. a \div (w * w) = d
  <2>1. i * w + c \in 0 .. (w * w) - 1
    <3>1. i * w <= (w - 1) * w /\ i * w \in Nat /\ (w - 1) * w = (w * w) - w /\ w * w \in Nat
      BY <1>1
    <3>. DEFINE x == i * w
                y == w * w
                z == (w - 1) * w
    <3>2. x \in Nat /\ y \in Nat /\ x <= z /\ z = y - w
      BY <3>1
    <3>. HIDE DEF x, y, z
    <3>3. x + c \in 0 .. y - 1
      BY <1>1, <3>2
    <3>. QED
      BY <3>3 DEF x, y
  <2>2. a = (w * w) * d + (i * w + c)
    <3>1. b * w = (d * w) * w + i * w
      BY <1>1
    <3>2. (d * w) * w = (w * w) * d
      BY <1>1
    <3>. DEFINE x == (d * w) * w
                y == i * w
    <3>3. x \in Nat /\ y \in Nat
      BY <1>1
    <3>. HIDE DEF x, y, b
    <3>4. a = (x + y) + c
      BY <3>1 DEF x, y
    <3>5. a = x + (y + c)
      BY <1>1, <3>3, <3>4
    <3>. QED
      BY <3>2, <3>5 DEF x, y
  <2>3. w * w \in Nat /\ w * w > 0
    BY <1>1
  <2>. HIDE DEF a
  <2>. DEFINE v == w * w
              r == i * w + c
  <2>4. v \in Nat /\ v > 0 /\ r \in 0 .. v - 1 /\ a = v * d + r
    BY <2>1, <2>2, <2>3
  <2>. HIDE DEF v, r
  <2>5. a \div v = d
    BY <2>4, DivUnique
  <2>. QED
    BY <2>5 DEF v
<1>. HIDE DEF a, b
<1>7. a \in Nat /\ PDIndex(a) = d /\ PTIndex(a) = i /\ Offset(a) = c
  BY <1>3, <1>4, <1>5, <1>6 DEF PDIndex, PTIndex, Offset, w
<1>. QED
  BY <1>7 DEF a, b, w

LEMMA AddressParts ==
    ASSUME NEW a \in Nat
    PROVE  /\ PDIndex(a) \in Nat /\ PTIndex(a) \in Words /\ Offset(a) \in Words
           /\ a \div PageSize \in Nat
           /\ a \div PageSize = PDIndex(a) * PageSize + PTIndex(a)
           /\ a = (a \div PageSize) * PageSize + Offset(a)
<1>. DEFINE w == PageSize
            b == a \div w
            c == a % w
            d == b \div w
            i == b % w
<1>1. w \in Nat /\ w > 0
  BY PageNumbers
<1>. HIDE DEF w
<1>2. b \in Nat /\ c \in 0 .. w - 1 /\ a = b * w + c
  BY <1>1
<1>3. d \in Nat /\ i \in 0 .. w - 1 /\ b = d * w + i
  <2>. HIDE DEF b
  <2>. QED
    BY <1>1, <1>2
<1>4. a = (d * PageSize + i) * PageSize + c /\ i \in Words /\ c \in Words
  BY <1>2, <1>3 DEF w, Words
<1>. HIDE DEF d, i, c
<1>5. PDIndex(a) = d /\ PTIndex(a) = i /\ Offset(a) = c
  BY <1>3, <1>4, Parts
<1>. QED
  BY <1>2, <1>3, <1>4, <1>5 DEF w, b

\* Addresses with the same page number have the same entries, and no others do.
LEMMA SamePage ==
    \A a, b \in Nat : (PDIndex(a) = PDIndex(b) /\ PTIndex(a) = PTIndex(b))
                         <=> a \div PageSize = b \div PageSize
<1>. SUFFICES ASSUME NEW a \in Nat, NEW b \in Nat
              PROVE  (PDIndex(a) = PDIndex(b) /\ PTIndex(a) = PTIndex(b))
                         <=> a \div PageSize = b \div PageSize
  OBVIOUS
<1>1. ASSUME PDIndex(a) = PDIndex(b), PTIndex(a) = PTIndex(b)
      PROVE  a \div PageSize = b \div PageSize
  BY <1>1, AddressParts
<1>2. ASSUME a \div PageSize = b \div PageSize
      PROVE  PDIndex(a) = PDIndex(b) /\ PTIndex(a) = PTIndex(b)
  <2>. DEFINE q == a \div PageSize
              i == PTIndex(a)
              j == PTIndex(b)
              d == PDIndex(a)
              e == PDIndex(b)
  <2>0. /\ d \in Nat /\ e \in Nat /\ i \in 0 .. PageSize - 1 /\ j \in 0 .. PageSize - 1
        /\ q = d * PageSize + i /\ b \div PageSize = e * PageSize + j
    BY AddressParts DEF Words
  <2>1. /\ d \in Nat /\ e \in Nat /\ i \in 0 .. PageSize - 1 /\ j \in 0 .. PageSize - 1
        /\ q = PageSize * d + i /\ q = PageSize * e + j /\ PageSize > 0 /\ PageSize \in Nat
    <3>1. d * PageSize = PageSize * d /\ e * PageSize = PageSize * e
      BY <2>0, PageNumbers
    <3>. QED
      BY <1>2, <2>0, <3>1, PageNumbers
  <2>. HIDE DEF q, i, j, d, e
  <2>2. d = e /\ i = j
    BY <2>1, DivUnique
  <2>. QED
    BY <2>2 DEF i, j, d, e
<1>. QED
  BY <1>1, <1>2

LEMMA SameCell ==
    \A a, b \in Nat : PDIndex(a) = PDIndex(b) /\ PTIndex(a) = PTIndex(b) /\ Offset(a) = Offset(b)
                         => a = b
BY AddressParts

-----------------------------------------------------------------------------
(***************************************************************************)
(* A slot is an entry i of table t, where table 0 is the directory.  It is *)
(* live when it leads to a table or to a page, its owner the frame.        *)
(***************************************************************************)
Machines == [memory : [Frames -> [Words -> Nat]], free : SUBSET Process, halted : BOOLEAN]

TableRows == 1 .. SelfEntry - 1
Rows == 0 .. SelfEntry - 1
TableOf(m, t) == IF t = 0 THEN Directory ELSE FrameIn(m.memory[Directory][t])
SlotWord(m, t, i) == m.memory[TableOf(m, t)][i]
Live(m, t, i) ==
    /\ t = 0 => i \in TableRows
    /\ t # 0 => Present(m.memory[Directory][t])
    /\ Present(SlotWord(m, t, i))
Owner(m, t, i) == FrameIn(SlotWord(m, t, i))

\* The slots of the pages in which pools keep their regions.
IsBook(t, i) == \E p \in Pools : t = PDIndex(Base[p]) /\ i = PTIndex(Base[p])

(***************************************************************************)
(* Page tables and free frames agree: live slots have frames that are not  *)
(* free, each its own, and these are all the frames that are not free.     *)
(* Nothing in a free frame, or in a page that may become one, looks like a *)
(* present entry: a table in that frame is born empty.                     *)
(***************************************************************************)
OwnersHeld(m) == \A t \in Rows, i \in Words : Live(m, t, i) => Owner(m, t, i) \in Process \ m.free
OwnersApart(m) ==
    \A t, u \in Rows, i, j \in Words :
        Live(m, t, i) /\ Live(m, u, j) /\ Owner(m, t, i) = Owner(m, u, j) => t = u /\ i = j
AllOwned(m) ==
    \A f \in Process \ m.free : \E t \in Rows, i \in Words : Live(m, t, i) /\ Owner(m, t, i) = f
FreeClean(m) == \A f \in m.free, c \in Words : ~Present(m.memory[f][c])
PagesClean(m) ==
    \A t \in Rows, i \in Words : Live(m, t, i) /\ t # 0 /\ ~IsBook(t, i) =>
        \A c \in Words : ~Present(m.memory[Owner(m, t, i)][c])

MachineInv(m) ==
    /\ m \in Machines /\ ~m.halted
    /\ m.memory[Directory][SelfEntry] = Entry(Directory)
    /\ OwnersHeld(m) /\ OwnersApart(m) /\ AllOwned(m)
    /\ FreeClean(m) /\ PagesClean(m)

\* The addresses that a pool may have.
Space == {a \in Nat : PDIndex(a) \in TableRows}

LEMMA SlotNumbers ==
    /\ Rows \subseteq Words /\ TableRows \subseteq Rows /\ 0 \in Rows /\ 0 \notin TableRows
    /\ \A t \in Rows : t # 0 => t \in TableRows
    /\ SelfEntry \notin Rows
BY PageNumbers DEF Rows, TableRows, Words, SelfEntry

LEMMA SlotTypes ==
    ASSUME NEW m \in Machines
    PROVE  /\ \A f \in Frames, c \in Words : m.memory[f][c] \in Nat
           /\ \A w \in Nat : FrameIn(w) \in Nat
           /\ m.free \subseteq Process
BY PageNumbers DEF Machines, FrameIn

LEMMA Translation ==
    ASSUME NEW m, NEW a \in Space
    PROVE  /\ PDIndex(a) \in TableRows /\ PDIndex(a) \in Rows /\ PDIndex(a) # 0 /\ PTIndex(a) \in Words
           /\ Offset(a) \in Words /\ a \in Nat
           /\ Mapped(m, a) <=> Live(m, PDIndex(a), PTIndex(a))
           /\ FrameAt(m, a) = Owner(m, PDIndex(a), PTIndex(a))
           /\ Load(m, a) = m.memory[Owner(m, PDIndex(a), PTIndex(a))][Offset(a)]
<1>1. /\ PDIndex(a) \in TableRows /\ PDIndex(a) \in Rows /\ PDIndex(a) # 0 /\ a \in Nat
      /\ PTIndex(a) \in Words /\ Offset(a) \in Words
  BY SlotNumbers, AddressParts DEF Space
<1>. QED
  BY <1>1 DEF Mapped, Live, FrameAt, Owner, Load, SlotWord, TableOf, PTE, PDE

LEMMA PutFacts ==
    ASSUME NEW m \in Machines, NEW f \in Frames, NEW i \in Words, NEW w \in Nat
    PROVE  /\ Put(m, f, i, w) \in Machines
           /\ Put(m, f, i, w).free = m.free /\ Put(m, f, i, w).halted = m.halted
           /\ \A g \in Frames, c \in Words :
                 Put(m, f, i, w).memory[g][c] = IF g = f /\ c = i THEN w ELSE m.memory[g][c]
<1>. DEFINE n == [m.memory EXCEPT ![f] = [m.memory[f] EXCEPT ![i] = w]]
<1>1. m.memory \in [Frames -> [Words -> Nat]] /\ m.memory[f] \in [Words -> Nat]
  BY DEF Machines
<1>2. n \in [Frames -> [Words -> Nat]]
  BY <1>1
<1>3. \A g \in Frames, c \in Words : n[g][c] = IF g = f /\ c = i THEN w ELSE m.memory[g][c]
  BY <1>1
<1>4. Put(m, f, i, w) = [m EXCEPT !.memory = n]
  BY DEF Put
<1>. HIDE DEF n
<1>5. /\ Put(m, f, i, w).memory = n /\ Put(m, f, i, w).free = m.free
      /\ Put(m, f, i, w).halted = m.halted /\ Put(m, f, i, w) \in Machines
  BY <1>2, <1>4 DEF Machines
<1>. QED
  BY <1>3, <1>5

LEMMA TakenFacts ==
    ASSUME NEW m \in Machines, m.free # {}
    PROVE  /\ Taken(m) \in m.free /\ Without(m) \in Machines
           /\ Without(m).free = m.free \ {Taken(m)}
           /\ Without(m).memory = m.memory /\ Without(m).halted = m.halted
<1>1. m.free \subseteq Nat /\ m.free \subseteq Process
  BY PageNumbers DEF Machines
<1>2. PICK f \in m.free : \A g \in m.free : f <= g
  BY <1>1, LeastElement
<1>3. Taken(m) \in m.free
  BY <1>2 DEF Taken, Min
<1>4. m.free \ {Taken(m)} \in SUBSET Process
  BY <1>1
<1>. QED
  BY <1>3, <1>4 DEF Without, Machines

LEMMA EnterFacts ==
    ASSUME NEW m \in Machines, m.free # {}, NEW h \in Frames, NEW i \in Words
    PROVE  LET n == Put(Without(m), h, i, Entry(Taken(m)))
           IN  /\ n \in Machines /\ n.free = m.free \ {Taken(m)} /\ n.halted = m.halted
               /\ Taken(m) \in m.free /\ Taken(m) \in Nat
               /\ \A g \in Frames, c \in Words :
                     n.memory[g][c] = IF g = h /\ c = i THEN Entry(Taken(m)) ELSE m.memory[g][c]
<1>. DEFINE w == Entry(Taken(m))
            x == Without(m)
<1>1. /\ x \in Machines /\ x.memory = m.memory /\ x.free = m.free \ {Taken(m)}
      /\ x.halted = m.halted /\ Taken(m) \in m.free
  BY TakenFacts
<1>2. Taken(m) \in Nat /\ w \in Nat
  BY <1>1, PageNumbers, EntryFacts DEF Machines
<1>. HIDE DEF w, x
<1>3. /\ Put(x, h, i, w) \in Machines /\ Put(x, h, i, w).free = x.free
      /\ Put(x, h, i, w).halted = x.halted
      /\ \A g \in Frames, c \in Words :
            Put(x, h, i, w).memory[g][c] = IF g = h /\ c = i THEN w ELSE x.memory[g][c]
  BY <1>1, <1>2, PutFacts
<1>. QED
  BY <1>1, <1>2, <1>3 DEF w, x

-----------------------------------------------------------------------------
(***************************************************************************)
(* A free frame f is entered into slot (t, i), which was not live.         *)
(***************************************************************************)
SameSlot(m, n, t, i) ==
    /\ Live(n, t, i) <=> Live(m, t, i)
    /\ Live(m, t, i) => Owner(n, t, i) = Owner(m, t, i)

LEMMA ClaimInv ==
    ASSUME NEW m, MachineInv(m), NEW n \in Machines, NEW t \in Rows, NEW i \in Words, NEW f \in m.free,
           ~n.halted, n.free = m.free \ {f}, n.memory[Directory][SelfEntry] = Entry(Directory),
           ~Live(m, t, i), Live(n, t, i), Owner(n, t, i) = f,
           \A u \in Rows, j \in Words : u # t \/ j # i => SameSlot(m, n, u, j),
           \A g \in Process, c \in Words : g # TableOf(m, t) => n.memory[g][c] = m.memory[g][c],
           TableOf(m, t) \notin m.free,
           \A u \in Rows, j \in Words : Live(m, u, j) /\ u # 0 => Owner(m, u, j) # TableOf(m, t)
    PROVE  MachineInv(n)
<1>1. /\ m \in Machines /\ OwnersHeld(m) /\ OwnersApart(m) /\ AllOwned(m)
      /\ FreeClean(m) /\ PagesClean(m) /\ f \in Process /\ m.free \subseteq Process
  BY SlotTypes DEF MachineInv
<1>2. \A u \in Rows, j \in Words :
         Live(n, u, j) => \/ u = t /\ j = i /\ Owner(n, u, j) = f
                          \/ /\ Live(m, u, j) /\ Owner(n, u, j) = Owner(m, u, j)
                             /\ Owner(m, u, j) \in Process \ m.free
  BY <1>1 DEF SameSlot, OwnersHeld
<1>3. OwnersHeld(n)
  BY <1>1, <1>2 DEF OwnersHeld
<1>4. OwnersApart(n)
  <2>. SUFFICES ASSUME NEW u \in Rows, NEW v \in Rows, NEW j \in Words, NEW k \in Words,
                       Live(n, u, j), Live(n, v, k), Owner(n, u, j) = Owner(n, v, k)
                PROVE  u = v /\ j = k
    BY DEF OwnersApart
  <2>. QED
    BY <1>1, <1>2 DEF OwnersApart
<1>5. AllOwned(n)
  <2>. SUFFICES ASSUME NEW g \in Process \ n.free
                PROVE  \E u \in Rows, j \in Words : Live(n, u, j) /\ Owner(n, u, j) = g
    BY DEF AllOwned
  <2>1. CASE g = f
    BY <2>1
  <2>2. CASE g # f
    <3>1. PICK u \in Rows, j \in Words : Live(m, u, j) /\ Owner(m, u, j) = g
      BY <1>1, <2>2 DEF AllOwned
    <3>2. u # t \/ j # i
      BY <3>1
    <3>. QED
      BY <3>1, <3>2 DEF SameSlot
  <2>. QED
    BY <2>1, <2>2
<1>6. FreeClean(n)
  BY <1>1 DEF FreeClean
<1>7. PagesClean(n)
  <2>. SUFFICES ASSUME NEW u \in Rows, NEW j \in Words, Live(n, u, j), u # 0, ~IsBook(u, j), NEW c \in Words
                PROVE  ~Present(n.memory[Owner(n, u, j)][c])
    BY DEF PagesClean
  <2>1. CASE Owner(n, u, j) = f
    BY <1>1, <2>1 DEF FreeClean
  <2>2. CASE Owner(n, u, j) # f
    <3>1. /\ Live(m, u, j) /\ Owner(n, u, j) = Owner(m, u, j)
          /\ Owner(m, u, j) \in Process \ m.free
      BY <1>2, <2>2
    <3>. QED
      BY <1>1, <3>1 DEF PagesClean
  <2>. QED
    BY <2>1, <2>2
<1>. QED
  BY <1>3, <1>4, <1>5, <1>6, <1>7 DEF MachineInv

\* What the invariant says of tables and of the words in them.
LEMMA TableFacts ==
    ASSUME NEW m, MachineInv(m)
    PROVE  /\ m \in Machines /\ m.free \subseteq Process
           /\ \A u \in TableRows : Present(m.memory[Directory][u]) <=> Live(m, 0, u)
           /\ \A u \in TableRows : TableOf(m, u) = Owner(m, 0, u)
           /\ \A u \in TableRows : Live(m, 0, u) => TableOf(m, u) \in Process \ m.free
           /\ \A u, v \in TableRows :
                 Live(m, 0, u) /\ Live(m, 0, v) /\ TableOf(m, u) = TableOf(m, v) => u = v
           /\ \A u \in TableRows, v \in Rows, j \in Words :
                 Live(m, 0, u) /\ Live(m, v, j) /\ v # 0 => Owner(m, v, j) # TableOf(m, u)
<1>1. m \in Machines /\ OwnersHeld(m) /\ OwnersApart(m) /\ m.free \subseteq Process
  BY SlotTypes DEF MachineInv
<1>2. \A u \in TableRows : /\ Present(m.memory[Directory][u]) <=> Live(m, 0, u)
                           /\ TableOf(m, u) = Owner(m, 0, u) /\ u \in Words /\ u # 0
  BY SlotNumbers DEF Live, SlotWord, TableOf, Owner
<1>. QED
  BY <1>1, <1>2, SlotNumbers DEF OwnersHeld, OwnersApart

LEMMA NewTable ==
    ASSUME NEW m, MachineInv(m), m.free # {}, NEW t \in TableRows, ~Live(m, 0, t)
    PROVE  LET n == Put(Without(m), Directory, t, Entry(Taken(m)))
           IN  /\ MachineInv(n) /\ n.free = m.free \ {Taken(m)} /\ Taken(m) \in m.free
               /\ Live(n, 0, t) /\ TableOf(n, t) = Taken(m)
               /\ \A j \in Words : ~Live(n, t, j) /\ ~Live(m, t, j)
               /\ \A u \in Rows, j \in Words : u # 0 \/ j # t => SameSlot(m, n, u, j)
               /\ \A g \in Process, c \in Words : n.memory[g][c] = m.memory[g][c]
<1>. DEFINE f == Taken(m)
            n == Put(Without(m), Directory, t, Entry(f))
<1>1. /\ m \in Machines /\ m.free \subseteq Process /\ ~m.halted
      /\ m.memory[Directory][SelfEntry] = Entry(Directory) /\ OwnersHeld(m) /\ FreeClean(m)
      /\ t \in Words /\ t # 0 /\ t \in Rows /\ t # SelfEntry
  BY SlotTypes, SlotNumbers DEF MachineInv
<1>2. f \in m.free /\ f \in Nat /\ f \in Process /\ f # Directory
  BY <1>1, TakenFacts, PageNumbers
<1>3. /\ n \in Machines /\ n.free = m.free \ {f} /\ ~n.halted
      /\ \A g \in Frames, c \in Words :
            n.memory[g][c] = IF g = Directory /\ c = t THEN Entry(f) ELSE m.memory[g][c]
  <2>1. m.free # {} /\ Directory \in Frames
    BY PageNumbers
  <2>. QED
    BY <1>1, <2>1, EnterFacts
<1>. HIDE DEF n, f
<1>4. \A u \in TableRows : n.memory[Directory][u] = IF u = t THEN Entry(f) ELSE m.memory[Directory][u]
  BY <1>3, PageNumbers, SlotNumbers
<1>5. \A g \in Process, c \in Words : n.memory[g][c] = m.memory[g][c]
  BY <1>3, PageNumbers
<1>6. /\ n.memory[Directory][SelfEntry] = Entry(Directory)
      /\ TableOf(n, t) = f /\ Live(n, 0, t) /\ Owner(n, 0, t) = f
  BY <1>1, <1>2, <1>3, <1>4, EntryFacts, PageNumbers DEF TableOf, Live, Owner, SlotWord
<1>7. \A j \in Words : ~Live(n, t, j) /\ ~Live(m, t, j)
  <2>1. \A j \in Words : ~Present(n.memory[f][j])
    BY <1>1, <1>2, <1>5 DEF FreeClean
  <2>. QED
    BY <1>1, <1>6, <2>1, TableFacts DEF Live, SlotWord
<1>8. ASSUME NEW u \in Rows, NEW j \in Words, u # 0 \/ j # t PROVE SameSlot(m, n, u, j)
  <2>1. CASE u = 0 /\ j \in TableRows
    BY <1>4, <1>8, <2>1 DEF SameSlot, Live, Owner, SlotWord, TableOf
  <2>2. CASE u = 0 /\ j \notin TableRows
    BY <2>2 DEF SameSlot, Live
  <2>3. CASE u = t
    BY <1>7, <2>3 DEF SameSlot
  <2>4. CASE u # 0 /\ u # t
    <3>1. u \in TableRows /\ n.memory[Directory][u] = m.memory[Directory][u]
          /\ TableOf(n, u) = TableOf(m, u)
      BY <1>4, <2>4, SlotNumbers DEF TableOf
    <3>2. CASE Live(m, 0, u)
      <4>1. TableOf(m, u) \in Process
        BY <3>1, <3>2, TableFacts
      <4>. QED
        BY <1>5, <2>4, <3>1, <4>1 DEF SameSlot, Live, Owner, SlotWord
    <3>3. CASE ~Live(m, 0, u)
      BY <2>4, <3>1, <3>3, TableFacts DEF SameSlot, Live
    <3>. QED
      BY <3>2, <3>3
  <2>. QED
    BY <2>1, <2>2, <2>3, <2>4
<1>9. TableOf(m, 0) = Directory
  BY DEF TableOf
<1>10. MachineInv(n)
  <2>1. \A u \in Rows, j \in Words : Live(m, u, j) /\ u # 0 => Owner(m, u, j) # TableOf(m, 0)
    BY <1>1, <1>9, PageNumbers DEF OwnersHeld
  <2>2. TableOf(m, 0) \notin m.free
    BY <1>1, <1>9, PageNumbers
  <2>. QED
    BY <1>1, <1>2, <1>3, <1>5, <1>6, <1>8, <2>1, <2>2, SlotNumbers, ClaimInv
<1>. QED
  BY <1>2, <1>3, <1>5, <1>6, <1>7, <1>8, <1>10 DEF n, f

LEMMA NewPage ==
    ASSUME NEW m, MachineInv(m), m.free # {}, NEW t \in TableRows, NEW i \in Words,
           Live(m, 0, t), ~Live(m, t, i)
    PROVE  LET n == Put(Without(m), TableOf(m, t), i, Entry(Taken(m)))
           IN  /\ MachineInv(n) /\ n.free = m.free \ {Taken(m)} /\ Taken(m) \in m.free
               /\ Live(n, t, i) /\ Owner(n, t, i) = Taken(m)
               /\ \A u \in Rows, j \in Words : u # t \/ j # i => SameSlot(m, n, u, j)
               /\ \A g \in Process, c \in Words :
                     g # TableOf(m, t) => n.memory[g][c] = m.memory[g][c]
<1>. DEFINE f == Taken(m)
            h == TableOf(m, t)
            n == Put(Without(m), h, i, Entry(f))
<1>1. /\ m \in Machines /\ m.free \subseteq Process /\ ~m.halted
      /\ m.memory[Directory][SelfEntry] = Entry(Directory)
      /\ t \in Words /\ t # 0 /\ t \in Rows /\ h \in Process \ m.free /\ h \in Frames /\ h # Directory
      /\ \A u \in Rows, j \in Words : Live(m, u, j) /\ u # 0 => Owner(m, u, j) # h
  BY SlotNumbers, TableFacts, PageNumbers DEF MachineInv
<1>2. f \in m.free /\ f \in Nat /\ f \in Process
  BY <1>1, TakenFacts, PageNumbers
<1>3. /\ n \in Machines /\ n.free = m.free \ {f} /\ ~n.halted
      /\ \A g \in Frames, c \in Words :
            n.memory[g][c] = IF g = h /\ c = i THEN Entry(f) ELSE m.memory[g][c]
  <2>1. m.free # {}
    OBVIOUS
  <2>. QED
    BY <1>1, <2>1, EnterFacts
<1>. HIDE DEF n, f, h
<1>4. /\ \A c \in Words : n.memory[Directory][c] = m.memory[Directory][c]
      /\ \A g \in Process, c \in Words : g # h => n.memory[g][c] = m.memory[g][c]
      /\ \A c \in Words : n.memory[h][c] = IF c = i THEN Entry(f) ELSE m.memory[h][c]
  BY <1>1, <1>3, PageNumbers
<1>5. \A u \in Rows : TableOf(n, u) = TableOf(m, u)
  BY <1>4, SlotNumbers DEF TableOf
<1>6. Live(n, t, i) /\ Owner(n, t, i) = f
  <2>1. Live(m, 0, t) /\ Present(m.memory[Directory][t])
    BY TableFacts
  <2>2. TableOf(n, t) = h /\ SlotWord(n, t, i) = Entry(f)
    BY <1>1, <1>4, <1>5 DEF SlotWord, h
  <2>. QED
    BY <1>1, <1>2, <1>4, <2>1, <2>2, EntryFacts DEF Live, Owner
<1>7. ASSUME NEW u \in Rows, NEW j \in Words, u # t \/ j # i PROVE SameSlot(m, n, u, j)
  <2>1. CASE u = 0
    BY <1>4, <2>1 DEF SameSlot, Live, Owner, SlotWord, TableOf
  <2>2. CASE u # 0
    <3>1. u \in TableRows /\ u \in Words
      BY <2>2, SlotNumbers
    <3>2. CASE Live(m, 0, u)
      <4>1. TableOf(m, u) \in Process /\ (TableOf(m, u) = h => u = t)
        BY <3>1, <3>2, TableFacts DEF h
      <4>2. SlotWord(n, u, j) = SlotWord(m, u, j)
        BY <1>4, <1>5, <1>7, <4>1 DEF SlotWord
      <4>. QED
        BY <1>4, <3>1, <4>2 DEF SameSlot, Live, Owner
    <3>3. CASE ~Live(m, 0, u)
      BY <1>4, <2>2, <3>1, <3>3, TableFacts DEF SameSlot, Live
    <3>. QED
      BY <3>2, <3>3
  <2>. QED
    BY <2>1, <2>2
<1>8. n.memory[Directory][SelfEntry] = Entry(Directory)
  BY <1>1, <1>4, PageNumbers
<1>9. MachineInv(n)
  BY <1>1, <1>2, <1>3, <1>4, <1>6, <1>7, <1>8, ClaimInv DEF h
<1>. QED
  BY <1>2, <1>3, <1>4, <1>6, <1>7, <1>9 DEF n, f, h

-----------------------------------------------------------------------------
(***************************************************************************)
(* Faults and stores take frames and give none back, so that a machine     *)
(* with a frame left had one all the time.                                 *)
(***************************************************************************)
IsRecord(m) == "free" \in DOMAIN m

LEMMA PutKeepsFree ==
    ASSUME NEW m, IsRecord(m), NEW f, NEW i, NEW w
    PROVE  IsRecord(Put(m, f, i, w)) /\ Put(m, f, i, w).free = m.free
BY DEF IsRecord, Put

LEMMA WithoutShrinks ==
    ASSUME NEW m, IsRecord(m)
    PROVE  IsRecord(Without(m)) /\ Without(m).free \subseteq m.free
BY DEF IsRecord, Without

LEMMA FaultShrinks ==
    ASSUME NEW m, IsRecord(m), NEW a
    PROVE  /\ IsRecord(WithTable(m, a)) /\ IsRecord(Fault(m, a))
           /\ Fault(m, a).free \subseteq WithTable(m, a).free
           /\ WithTable(m, a).free \subseteq m.free
<1>1. IsRecord(WithTable(m, a)) /\ WithTable(m, a).free \subseteq m.free
  <2>. DEFINE x == Without(m)
  <2>1. IsRecord(x) /\ x.free \subseteq m.free
    BY WithoutShrinks
  <2>2. WithTable(m, a) = m \/ WithTable(m, a) = Put(x, Directory, PDIndex(a), Entry(Taken(m)))
    BY DEF WithTable
  <2>. HIDE DEF x
  <2>. QED
    BY <2>1, <2>2, PutKeepsFree
<1>. DEFINE y == WithTable(m, a)
            z == Without(y)
<1>. HIDE DEF y
<1>2. IsRecord(y) /\ IsRecord(z) /\ z.free \subseteq y.free
  BY <1>1, WithoutShrinks DEF y
<1>3. Fault(m, a) = Put(z, FrameIn(PDE(y, a)), PTIndex(a), Entry(Taken(y)))
  BY DEF Fault, WithPage, y
<1>. HIDE DEF z
<1>. QED
  BY <1>1, <1>2, <1>3, PutKeepsFree DEF y

LEMMA StoredShrinks ==
    ASSUME NEW m, IsRecord(m), NEW a, NEW w
    PROVE  /\ IsRecord(Stored(m, a, w)) /\ Stored(m, a, w).free = Touched(m, a).free
           /\ Touched(m, a).free \subseteq m.free
<1>. DEFINE t == Touched(m, a)
<1>1. IsRecord(t) /\ t.free \subseteq m.free
  BY FaultShrinks DEF Touched
<1>. HIDE DEF t
<1>. QED
  BY <1>1, PutKeepsFree DEF Stored, t

LEMMA MachineIsRecord == \A m \in Machines : IsRecord(m)
BY DEF Machines, IsRecord

-----------------------------------------------------------------------------
(***************************************************************************)
(* handle_fault: the page that faulted is mapped, to a frame that was free,*)
(* no other page is, and the words of pages that were mapped are kept.     *)
(***************************************************************************)
LEMMA FaultFacts ==
    ASSUME NEW m, MachineInv(m), NEW a \in Space, ~Mapped(m, a), Fault(m, a).free # {}
    PROVE  LET n == Fault(m, a)
           IN  /\ MachineInv(n) /\ n.free \subseteq m.free
               /\ Mapped(n, a)
               /\ \A b \in Space : Mapped(m, b) =>
                     Mapped(n, b) /\ FrameAt(n, b) = FrameAt(m, b) /\ Load(n, b) = Load(m, b)
<1>. DEFINE t == PDIndex(a)
            i == PTIndex(a)
            x == WithTable(m, a)
            n == Fault(m, a)
<1>1. /\ t \in TableRows /\ t \in Rows /\ t # 0 /\ i \in Words /\ m \in Machines /\ ~Live(m, t, i)
      /\ m.free \subseteq Process
  BY Translation, TableFacts
<1>2. x.free # {} /\ m.free # {} /\ n.free \subseteq m.free
  BY <1>1, MachineIsRecord, FaultShrinks
<1>3. /\ MachineInv(x) /\ Live(x, 0, t) /\ ~Live(x, t, i) /\ x.free \subseteq m.free
      /\ \A u \in Rows, j \in Words : Live(m, u, j) => Live(x, u, j) /\ Owner(x, u, j) = Owner(m, u, j)
      /\ \A g \in Process, c \in Words : x.memory[g][c] = m.memory[g][c]
  <2>1. CASE Live(m, 0, t)
    <3>1. x = m
      BY <1>1, <2>1, TableFacts DEF WithTable, PDE
    <3>. QED
      BY <1>1, <2>1, <3>1
  <2>2. CASE ~Live(m, 0, t)
    <3>1. x = Put(Without(m), Directory, t, Entry(Taken(m)))
      BY <1>1, <2>2, TableFacts DEF WithTable, PDE
    <3>. HIDE DEF x, t, i
    <3>2. /\ MachineInv(x) /\ x.free = m.free \ {Taken(m)} /\ Live(x, 0, t)
          /\ \A j \in Words : ~Live(x, t, j) /\ ~Live(m, t, j)
          /\ \A u \in Rows, j \in Words : u # 0 \/ j # t => SameSlot(m, x, u, j)
          /\ \A g \in Process, c \in Words : x.memory[g][c] = m.memory[g][c]
      BY <1>1, <1>2, <2>2, <3>1, NewTable
    <3>. QED
      BY <1>1, <2>2, <3>2 DEF SameSlot
  <2>. QED
    BY <2>1, <2>2
<1>4. n = Put(Without(x), TableOf(x, t), i, Entry(Taken(x)))
  BY <1>1 DEF Fault, WithPage, TableOf, PDE
<1>. HIDE DEF x, n, t, i
<1>5. /\ MachineInv(n) /\ n.free = x.free \ {Taken(x)} /\ Live(n, t, i)
      /\ \A u \in Rows, j \in Words : u # t \/ j # i => SameSlot(x, n, u, j)
      /\ \A g \in Process, c \in Words : g # TableOf(x, t) => n.memory[g][c] = x.memory[g][c]
  BY <1>1, <1>2, <1>3, <1>4, NewPage
<1>6. Mapped(n, a)
  BY <1>5, Translation DEF t, i
<1>7. ASSUME NEW b \in Space, Mapped(m, b)
      PROVE  Mapped(n, b) /\ FrameAt(n, b) = FrameAt(m, b) /\ Load(n, b) = Load(m, b)
  <2>. DEFINE u == PDIndex(b)
              j == PTIndex(b)
              f == Owner(m, u, j)
  <2>1. u \in Rows /\ u # 0 /\ j \in Words /\ Live(m, u, j) /\ Offset(b) \in Words
    BY <1>7, Translation
  <2>. HIDE DEF u, j
  <2>2. f \in Process
    BY <2>1 DEF MachineInv, OwnersHeld
  <2>3. Live(x, u, j) /\ Owner(x, u, j) = f /\ f # TableOf(x, t)
    BY <1>1, <1>3, <2>1, TableFacts
  <2>4. Live(n, u, j) /\ Owner(n, u, j) = f
    BY <1>1, <1>3, <1>5, <2>1, <2>3 DEF SameSlot
  <2>5. n.memory[f][Offset(b)] = m.memory[f][Offset(b)]
    BY <1>3, <1>5, <2>1, <2>2, <2>3
  <2>. QED
    BY <2>4, <2>5, Translation DEF u, j
<1>. QED
  BY <1>2, <1>5, <1>6, <1>7 DEF n

\* A write into the frame of a page.
LEMMA WritePage ==
    ASSUME NEW m, MachineInv(m), NEW t \in Rows, NEW i \in Words, Live(m, t, i), t # 0,
           NEW c \in Words, NEW w \in Nat, ~Present(w) \/ IsBook(t, i)
    PROVE  LET n == Put(m, Owner(m, t, i), c, w)
           IN  /\ MachineInv(n) /\ n.free = m.free
               /\ \A u \in Rows, j \in Words : SameSlot(m, n, u, j)
               /\ \A g \in Process, d \in Words :
                     n.memory[g][d] = IF g = Owner(m, t, i) /\ d = c THEN w ELSE m.memory[g][d]
<1>. DEFINE f == Owner(m, t, i)
            n == Put(m, f, c, w)
<1>1. /\ m \in Machines /\ ~m.halted /\ m.memory[Directory][SelfEntry] = Entry(Directory)
      /\ OwnersHeld(m) /\ OwnersApart(m) /\ AllOwned(m) /\ FreeClean(m) /\ PagesClean(m)
  BY DEF MachineInv
<1>2. f \in Process \ m.free /\ f \in Frames /\ f # Directory
  BY <1>1, PageNumbers DEF OwnersHeld
<1>3. /\ n \in Machines /\ n.free = m.free /\ ~n.halted
      /\ \A g \in Frames, d \in Words :
            n.memory[g][d] = IF g = f /\ d = c THEN w ELSE m.memory[g][d]
  BY <1>1, <1>2, PutFacts
<1>. HIDE DEF n, f
<1>4. /\ \A d \in Words : n.memory[Directory][d] = m.memory[Directory][d]
      /\ \A g \in Process, d \in Words :
            n.memory[g][d] = IF g = f /\ d = c THEN w ELSE m.memory[g][d]
  BY <1>2, <1>3, PageNumbers
<1>5. ASSUME NEW u \in Rows, NEW j \in Words PROVE SameSlot(m, n, u, j)
  <2>1. u \in Words /\ TableOf(n, u) = TableOf(m, u)
    BY <1>4, SlotNumbers DEF TableOf
  <2>2. CASE u = 0
    BY <1>4, <2>1, <2>2 DEF SameSlot, Live, Owner, SlotWord, TableOf
  <2>3. CASE u # 0
    <3>1. u \in TableRows
      BY <2>3, SlotNumbers
    <3>2. CASE Live(m, 0, u)
      <4>1. TableOf(m, u) \in Process /\ TableOf(m, u) # f
        BY <3>1, <3>2, TableFacts DEF f
      <4>2. SlotWord(n, u, j) = SlotWord(m, u, j)
        BY <1>4, <2>1, <4>1 DEF SlotWord
      <4>. QED
        BY <1>4, <2>1, <4>2 DEF SameSlot, Live, Owner
    <3>3. CASE ~Live(m, 0, u)
      BY <1>4, <2>1, <2>3, <3>1, <3>3, TableFacts DEF SameSlot, Live
    <3>. QED
      BY <3>2, <3>3
  <2>. QED
    BY <2>2, <2>3
<1>6. OwnersHeld(n) /\ OwnersApart(n) /\ AllOwned(n)
  <2>1. OwnersHeld(n)
    BY <1>1, <1>3, <1>5 DEF OwnersHeld, SameSlot
  <2>2. OwnersApart(n)
    <3>. SUFFICES ASSUME NEW u \in Rows, NEW v \in Rows, NEW j \in Words, NEW k \in Words,
                         Live(n, u, j), Live(n, v, k), Owner(n, u, j) = Owner(n, v, k)
                  PROVE  u = v /\ j = k
      BY DEF OwnersApart
    <3>. QED
      BY <1>1, <1>5 DEF OwnersApart, SameSlot
  <2>3. AllOwned(n)
    BY <1>1, <1>3, <1>5 DEF AllOwned, SameSlot
  <2>. QED
    BY <2>1, <2>2, <2>3
<1>7. FreeClean(n)
  <2>1. \A g \in n.free : g \in Process /\ g # f
    BY <1>1, <1>2, <1>3, SlotTypes
  <2>. QED
    BY <1>1, <1>3, <1>4, <2>1 DEF FreeClean
<1>8. PagesClean(n)
  <2>. SUFFICES ASSUME NEW u \in Rows, NEW j \in Words, Live(n, u, j), u # 0, ~IsBook(u, j), NEW d \in Words
                PROVE  ~Present(n.memory[Owner(n, u, j)][d])
    BY DEF PagesClean
  <2>1. Live(m, u, j) /\ Owner(n, u, j) = Owner(m, u, j) /\ Owner(m, u, j) \in Process
    BY <1>1, <1>5 DEF SameSlot, OwnersHeld
  <2>2. ~Present(m.memory[Owner(m, u, j)][d])
    BY <1>1, <2>1 DEF PagesClean
  <2>3. CASE Owner(m, u, j) = f
    <3>1. u = t /\ j = i
      BY <1>1, <2>1, <2>3 DEF OwnersApart, f
    <3>. QED
      BY <1>4, <2>1, <2>2, <3>1
  <2>4. CASE Owner(m, u, j) # f
    BY <1>4, <2>1, <2>2, <2>4
  <2>. QED
    BY <2>3, <2>4
<1>9. n.memory[Directory][SelfEntry] = Entry(Directory)
  BY <1>1, <1>4, PageNumbers
<1>. QED
  BY <1>3, <1>4, <1>5, <1>6, <1>7, <1>8, <1>9 DEF MachineInv, n, f

(***************************************************************************)
(* An access that stores: the word is there, and no other word moves.      *)
(***************************************************************************)
LEMMA StoredFacts ==
    ASSUME NEW m, MachineInv(m), NEW a \in Space, NEW w \in Nat,
           ~Present(w) \/ IsBook(PDIndex(a), PTIndex(a)), Stored(m, a, w).free # {}
    PROVE  LET n == Stored(m, a, w)
           IN  /\ MachineInv(n) /\ Mapped(n, a) /\ Load(n, a) = w
               /\ \A b \in Space : Mapped(m, b) /\ b # a => Mapped(n, b) /\ Load(n, b) = Load(m, b)
<1>. DEFINE x == Touched(m, a)
            n == Stored(m, a, w)
            t == PDIndex(a)
            i == PTIndex(a)
            c == Offset(a)
            f == Owner(x, t, i)
<1>1. n.free = x.free /\ x.free # {} /\ m \in Machines
  BY MachineIsRecord, StoredShrinks DEF MachineInv
<1>2. /\ MachineInv(x) /\ Mapped(x, a)
      /\ \A b \in Space : Mapped(m, b) => Mapped(x, b) /\ Load(x, b) = Load(m, b)
  <2>1. CASE Mapped(m, a)
    BY <2>1 DEF Touched
  <2>2. CASE ~Mapped(m, a)
    BY <1>1, <2>2, FaultFacts DEF Touched
  <2>. QED
    BY <2>1, <2>2
<1>3. /\ t \in Rows /\ t # 0 /\ i \in Words /\ c \in Words /\ a \in Nat
      /\ Live(x, t, i) /\ FrameAt(x, a) = f
  BY <1>2, Translation
<1>4. n = Put(x, f, c, w)
  BY <1>3 DEF Stored
<1>. HIDE DEF x, n
<1>5. /\ MachineInv(n) /\ \A u \in Rows, j \in Words : SameSlot(x, n, u, j)
      /\ \A g \in Process, d \in Words :
            n.memory[g][d] = IF g = f /\ d = c THEN w ELSE x.memory[g][d]
  BY <1>2, <1>3, <1>4, WritePage
<1>6. f \in Process /\ Live(n, t, i) /\ Owner(n, t, i) = f
  BY <1>2, <1>3, <1>5 DEF MachineInv, OwnersHeld, SameSlot
<1>7. Mapped(n, a) /\ Load(n, a) = w
  BY <1>3, <1>5, <1>6, Translation
<1>8. ASSUME NEW b \in Space, Mapped(m, b), b # a
      PROVE  Mapped(n, b) /\ Load(n, b) = Load(m, b)
  <2>. DEFINE u == PDIndex(b)
              j == PTIndex(b)
              d == Offset(b)
              g == Owner(x, u, j)
  <2>1. /\ u \in Rows /\ u # 0 /\ j \in Words /\ d \in Words /\ b \in Nat
        /\ Live(x, u, j) /\ Load(m, b) = x.memory[g][d]
    BY <1>2, <1>8, Translation
  <2>2. g \in Process /\ Live(n, u, j) /\ Owner(n, u, j) = g
    BY <1>2, <1>5, <2>1 DEF MachineInv, OwnersHeld, SameSlot
  <2>3. ~(u = t /\ j = i /\ d = c)
    BY <1>3, <1>8, <2>1, SameCell
  <2>4. ~(g = f /\ d = c)
    BY <1>2, <1>3, <2>1, <2>3 DEF MachineInv, OwnersApart
  <2>5. n.memory[g][d] = x.memory[g][d]
    BY <1>5, <2>1, <2>2, <2>4
  <2>. QED
    BY <2>1, <2>2, <2>5, Translation
<1>. QED
  BY <1>5, <1>7, <1>8 DEF n

-----------------------------------------------------------------------------
(***************************************************************************)
(* free_page of a page that is mapped: its frame goes back, and the words  *)
(* of the other pages are kept.                                            *)
(***************************************************************************)
LEMMA ClearedFacts == \A w \in Nat : Cleared(w) \in Nat /\ ~Present(Cleared(w))
BY DEF Cleared, Present

LEMMA ReadTable ==
    ASSUME NEW m, MachineInv(m), NEW a \in Space, Mapped(m, a)
    PROVE  /\ Mapped(m, TableSlot(a))
           /\ Load(m, TableSlot(a)) = SlotWord(m, PDIndex(a), PTIndex(a))
<1>. DEFINE t == PDIndex(a)
            i == PTIndex(a)
            s == TableSlot(a)
<1>1. t \in TableRows /\ t \in Words /\ i \in Words /\ t # 0 /\ Live(m, t, i)
  BY Translation, SlotNumbers
<1>2. PDIndex(s) = SelfEntry /\ PTIndex(s) = t /\ Offset(s) = i
  <2>1. SelfEntry \in Nat
    BY PageNumbers
  <2>. QED
    BY <1>1, <2>1, Parts DEF TableSlot
<1>. HIDE DEF s, t, i
<1>3. PDE(m, s) = Entry(Directory) /\ Present(PDE(m, s)) /\ FrameIn(PDE(m, s)) = Directory
  BY <1>2, EntryFacts, PageNumbers DEF PDE, MachineInv
<1>4. PTE(m, s) = m.memory[Directory][t]
  BY <1>2, <1>3 DEF PTE
<1>5. Mapped(m, s)
  BY <1>1, <1>3, <1>4 DEF Mapped, Live
<1>6. Load(m, s) = SlotWord(m, t, i)
  BY <1>1, <1>2, <1>4 DEF Load, FrameAt, SlotWord, TableOf
<1>. QED
  BY <1>5, <1>6 DEF s, t, i

LEMMA ReleaseFacts ==
    ASSUME NEW m \in Machines, ~m.halted, NEW f \in Process \ m.free
    PROVE  LET n == ReleaseFrame(m, f)
           IN  /\ n \in Machines /\ ~n.halted /\ n.free = m.free \cup {f} /\ n.memory = m.memory
<1>. DEFINE F == m.free \cup ({f} \cap Process)
            H == m.halted \/ f \notin (Process \ m.free) \cup {Directory, DirectTable}
<1>1. F = m.free \cup {f} /\ H = FALSE /\ F \in SUBSET Process
  BY SlotTypes DEF Machines
<1>2. ReleaseFrame(m, f) = [m EXCEPT !.free = F, !.halted = H]
  BY DEF ReleaseFrame
<1>. HIDE DEF F, H
<1>. QED
  BY <1>1, <1>2 DEF Machines

LEMMA FreePageFacts ==
    ASSUME NEW m, MachineInv(m), NEW a \in Space, Mapped(m, a), ~IsBook(PDIndex(a), PTIndex(a))
    PROVE  LET n == FreePage(m, a)
           IN  /\ MachineInv(n)
               /\ \A b \in Space : Mapped(m, b) /\ b \div PageSize # a \div PageSize =>
                     Mapped(n, b) /\ Load(n, b) = Load(m, b)
<1>. DEFINE t == PDIndex(a)
            i == PTIndex(a)
            h == TableOf(m, t)
            w == SlotWord(m, t, i)
            f == Owner(m, t, i)
            x == Put(m, h, i, Cleared(w))
            n == FreePage(m, a)
<1>1. /\ t \in TableRows /\ t \in Rows /\ t \in Words /\ t # 0 /\ i \in Words /\ a \in Nat
      /\ Live(m, t, i) /\ Live(m, 0, t)
  <2>1. t \in TableRows /\ t \in Rows /\ t \in Words /\ t # 0 /\ i \in Words /\ a \in Nat /\ Live(m, t, i)
    BY Translation, SlotNumbers
  <2>. QED
    BY <2>1, TableFacts DEF Live
<1>2. /\ m \in Machines /\ ~m.halted /\ m.memory[Directory][SelfEntry] = Entry(Directory)
      /\ OwnersHeld(m) /\ OwnersApart(m) /\ AllOwned(m) /\ FreeClean(m) /\ PagesClean(m)
      /\ m.free \subseteq Process
  BY SlotTypes DEF MachineInv
<1>3. /\ h \in Process \ m.free /\ h \in Frames /\ h # Directory
      /\ f \in Process \ m.free /\ f # h /\ w \in Nat /\ FrameIn(w) = f
  BY <1>1, <1>2, TableFacts, SlotTypes, PageNumbers DEF OwnersHeld, Owner, SlotWord
<1>4. n = ReleaseFrame(x, f)
  <2>1. Mapped(m, TableSlot(a)) /\ Load(m, TableSlot(a)) = w
    BY ReadTable
  <2>2. Touched(m, TableSlot(a)) = m /\ FrameIn(PDE(m, a)) = h
    BY <1>1, <2>1 DEF Touched, TableOf, PDE
  <2>. QED
    BY <1>3, <2>1, <2>2 DEF FreePage
<1>. HIDE DEF w, h, f, n
<1>5. /\ x \in Machines /\ x.free = m.free /\ x.halted = m.halted
      /\ \A g \in Frames, c \in Words :
            x.memory[g][c] = IF g = h /\ c = i THEN Cleared(w) ELSE m.memory[g][c]
  <2>1. Cleared(w) \in Nat /\ h \in Frames /\ i \in Words /\ m \in Machines
    BY <1>1, <1>2, <1>3, ClearedFacts
  <2>. QED
    BY <2>1, PutFacts
<1>. HIDE DEF x, t, i
<1>6. n \in Machines /\ ~n.halted /\ n.free = m.free \cup {f} /\ n.memory = x.memory
  BY <1>2, <1>3, <1>4, <1>5, ReleaseFacts
<1>7. /\ \A c \in Words : n.memory[Directory][c] = m.memory[Directory][c]
      /\ \A g \in Process, c \in Words : g # h => n.memory[g][c] = m.memory[g][c]
      /\ n.memory[h][i] = Cleared(w)
      /\ \A c \in Words : c # i => n.memory[h][c] = m.memory[h][c]
  BY <1>1, <1>3, <1>5, <1>6, PageNumbers
<1>8. \A u \in Rows : TableOf(n, u) = TableOf(m, u)
  BY <1>7, SlotNumbers DEF TableOf
<1>9. ~Live(n, t, i)
  BY <1>1, <1>3, <1>7, <1>8, ClearedFacts DEF Live, SlotWord, h
<1>10. ASSUME NEW u \in Rows, NEW j \in Words, u # t \/ j # i PROVE SameSlot(m, n, u, j)
  <2>1. CASE u = 0
    BY <1>7, <2>1 DEF SameSlot, Live, Owner, SlotWord, TableOf
  <2>2. CASE u # 0
    <3>1. u \in TableRows /\ u \in Words
      BY <2>2, SlotNumbers
    <3>2. CASE Live(m, 0, u)
      <4>1. TableOf(m, u) \in Process /\ (TableOf(m, u) = h => u = t)
        BY <1>1, <3>1, <3>2, TableFacts DEF h
      <4>2. SlotWord(n, u, j) = SlotWord(m, u, j)
        BY <1>7, <1>8, <1>10, <4>1 DEF SlotWord
      <4>. QED
        BY <1>7, <3>1, <4>2 DEF SameSlot, Live, Owner
    <3>3. CASE ~Live(m, 0, u)
      BY <1>7, <2>2, <3>1, <3>3, TableFacts DEF SameSlot, Live
    <3>. QED
      BY <3>2, <3>3
  <2>. QED
    BY <2>1, <2>2
<1>11. \A u \in Rows, j \in Words : Live(n, u, j) =>
          /\ u # t \/ j # i
          /\ Live(m, u, j)
          /\ Owner(n, u, j) = Owner(m, u, j) /\ Owner(m, u, j) # f
          /\ Owner(m, u, j) \in Process \ m.free
  <2>. SUFFICES ASSUME NEW u \in Rows, NEW j \in Words, Live(n, u, j)
                PROVE  /\ u # t \/ j # i
                       /\ Live(m, u, j)
                       /\ Owner(n, u, j) = Owner(m, u, j) /\ Owner(m, u, j) # f
                       /\ Owner(m, u, j) \in Process \ m.free
    OBVIOUS
  <2>1. u # t \/ j # i
    BY <1>9
  <2>2. Live(m, u, j) /\ Owner(n, u, j) = Owner(m, u, j)
    BY <1>10, <2>1 DEF SameSlot
  <2>. QED
    BY <1>1, <1>2, <2>1, <2>2 DEF OwnersApart, OwnersHeld, f
<1>12. OwnersHeld(n)
  BY <1>6, <1>11 DEF OwnersHeld
<1>13. OwnersApart(n)
  <2>. SUFFICES ASSUME NEW u \in Rows, NEW v \in Rows, NEW j \in Words, NEW k \in Words,
                       Live(n, u, j), Live(n, v, k), Owner(n, u, j) = Owner(n, v, k)
                PROVE  u = v /\ j = k
    BY DEF OwnersApart
  <2>. QED
    BY <1>2, <1>11 DEF OwnersApart
<1>14. AllOwned(n)
  <2>. SUFFICES ASSUME NEW g \in Process \ n.free
                PROVE  \E u \in Rows, j \in Words : Live(n, u, j) /\ Owner(n, u, j) = g
    BY DEF AllOwned
  <2>1. PICK u \in Rows, j \in Words : Live(m, u, j) /\ Owner(m, u, j) = g
    BY <1>2, <1>6 DEF AllOwned
  <2>2. u # t \/ j # i
    BY <1>6, <2>1 DEF f
  <2>. QED
    BY <1>10, <2>1, <2>2 DEF SameSlot
<1>15. FreeClean(n)
  <2>. SUFFICES ASSUME NEW g \in n.free, NEW c \in Words PROVE ~Present(n.memory[g][c])
    BY DEF FreeClean
  <2>1. g \in Process /\ g # h /\ n.memory[g][c] = m.memory[g][c]
    BY <1>2, <1>3, <1>6, <1>7
  <2>2. CASE g \in m.free
    BY <1>2, <2>1, <2>2 DEF FreeClean
  <2>3. CASE g = f
    BY <1>1, <1>2, <2>1, <2>3 DEF PagesClean, f, t, i
  <2>. QED
    BY <1>6, <2>2, <2>3
<1>16. PagesClean(n)
  <2>. SUFFICES ASSUME NEW u \in Rows, NEW j \in Words, Live(n, u, j), u # 0, ~IsBook(u, j), NEW c \in Words
                PROVE  ~Present(n.memory[Owner(n, u, j)][c])
    BY DEF PagesClean
  <2>1. Live(m, u, j) /\ Owner(n, u, j) = Owner(m, u, j) /\ Owner(m, u, j) \in Process
    BY <1>11
  <2>2. Owner(m, u, j) # h
    BY <1>1, <2>1, TableFacts DEF h
  <2>. QED
    BY <1>2, <1>7, <2>1, <2>2 DEF PagesClean
<1>17. MachineInv(n)
  <2>1. n.memory[Directory][SelfEntry] = Entry(Directory)
    BY <1>2, <1>7, PageNumbers
  <2>. QED
    BY <1>6, <1>12, <1>13, <1>14, <1>15, <1>16, <2>1 DEF MachineInv
<1>18. ASSUME NEW b \in Space, Mapped(m, b), b \div PageSize # a \div PageSize
       PROVE  Mapped(n, b) /\ Load(n, b) = Load(m, b)
  <2>. DEFINE u == PDIndex(b)
              j == PTIndex(b)
              d == Offset(b)
              g == Owner(m, u, j)
  <2>1. /\ u \in Rows /\ u # 0 /\ j \in Words /\ d \in Words /\ b \in Nat
        /\ Live(m, u, j) /\ Load(m, b) = m.memory[g][d]
    BY <1>18, Translation
  <2>2. u # t \/ j # i
    BY <1>1, <1>18, <2>1, SamePage DEF t, i
  <2>3. g \in Process /\ g # h
    BY <1>1, <1>2, <2>1, TableFacts DEF OwnersHeld, h
  <2>4. Live(n, u, j) /\ Owner(n, u, j) = g
    BY <1>10, <2>1, <2>2 DEF SameSlot
  <2>5. n.memory[g][d] = m.memory[g][d]
    BY <1>7, <2>1, <2>3
  <2>. QED
    BY <2>1, <2>4, <2>5, Translation
<1>. QED
  BY <1>17, <1>18 DEF n

-----------------------------------------------------------------------------
(***************************************************************************)
(* The loops of a client and of release() have results, which are those of *)
(* their turns.                                                            *)
(***************************************************************************)
FillTurns(g, k, r, v) ==
    [n \in 0 .. k |-> IF n = 0 THEN machine ELSE Stored(g[n - 1], r.start + n - 1, v)]
FreeTurns(g, k, start) ==
    [n \in 0 .. k |-> IF n = 0 THEN machine ELSE Freed(g[n - 1], start + (n - 1) * PageSize)]

LEMMA FillRuns ==
    ASSUME NEW r, NEW v, NEW k \in Nat
    PROVE  \E g : g = FillTurns(g, k, r, v)
<1>. DEFINE T == {n \in Nat : ~\E g : g = FillTurns(g, n, r, v)}
<1>. SUFFICES ASSUME T # {} PROVE FALSE
  OBVIOUS
<1>1. PICK x \in T : \A y \in T : x <= y
  <2>1. T \subseteq Nat
    OBVIOUS
  <2>. QED
    BY <2>1, LeastElement
<1>2. CASE x = 0
  <2>. DEFINE h == [n \in 0 .. 0 |-> machine]
  <2>1. h = FillTurns(h, 0, r, v)
    BY DEF FillTurns
  <2>. QED
    BY <1>1, <1>2, <2>1
<1>3. CASE x # 0
  <2>1. x - 1 \in Nat /\ x \in Nat /\ x - 1 \notin T
    BY <1>1, <1>3
  <2>2. PICK g : g = FillTurns(g, x - 1, r, v)
    BY <2>1
  <2>. DEFINE h == [n \in 0 .. x |-> IF n < x THEN g[n] ELSE Stored(g[x - 1], r.start + x - 1, v)]
  <2>3. ASSUME NEW n \in 0 .. x
        PROVE  h[n] = IF n = 0 THEN machine ELSE Stored(h[n - 1], r.start + n - 1, v)
    <3>1. CASE n = 0
      BY <2>1, <2>2, <3>1, <1>3 DEF FillTurns
    <3>2. CASE n # 0 /\ n < x
      <4>1. n \in 0 .. x - 1 /\ n - 1 \in 0 .. x /\ n - 1 < x
        BY <2>1, <3>2
      <4>2. h[n] = g[n] /\ h[n - 1] = g[n - 1]
        BY <3>2, <4>1
      <4>3. g[n] = Stored(g[n - 1], r.start + n - 1, v)
        BY <2>2, <3>2, <4>1 DEF FillTurns
      <4>. QED
        BY <3>2, <4>2, <4>3
    <3>3. CASE n = x
      <4>1. x \in 0 .. x /\ x - 1 \in 0 .. x /\ x - 1 < x /\ ~(x < x)
        BY <2>1
      <4>2. h[x] = Stored(g[x - 1], r.start + x - 1, v) /\ h[x - 1] = g[x - 1]
        BY <4>1
      <4>. QED
        BY <1>3, <3>3, <4>2
    <3>. QED
      BY <2>1, <3>1, <3>2, <3>3
  <2>4. h = FillTurns(h, x, r, v)
    <3>. DEFINE E(n) == IF n = 0 THEN machine ELSE Stored(h[n - 1], r.start + n - 1, v)
    <3>1. \A n \in 0 .. x : h[n] = E(n)
      BY <2>3
    <3>2. h = [n \in 0 .. x |-> h[n]]
      OBVIOUS
    <3>. HIDE DEF h
    <3>. QED
      BY <3>1, <3>2 DEF FillTurns
  <2>. HIDE DEF h
  <2>. QED
    BY <1>1, <2>4
<1>. QED
  BY <1>2, <1>3

LEMMA FilledTurns ==
    ASSUME NEW r, NEW v, r.size \in Nat
    PROVE  \E g : /\ Filled(r, v) = g[r.size] /\ g[0] = machine
                  /\ \A n \in 1 .. r.size : g[n] = Stored(g[n - 1], r.start + n - 1, v)
<1>. DEFINE f == CHOOSE g : g = FillTurns(g, r.size, r, v)
<1>1. f = FillTurns(f, r.size, r, v)
  BY FillRuns
<1>2. Filled(r, v) = f[r.size]
  BY DEF Filled, FillTurns
<1>. HIDE DEF f
<1>3. f[0] = machine /\ \A n \in 1 .. r.size : f[n] = Stored(f[n - 1], r.start + n - 1, v)
  <2>1. 0 \in 0 .. r.size /\ \A n \in 1 .. r.size : n \in 0 .. r.size /\ n # 0
    OBVIOUS
  <2>2. \A n \in 0 .. r.size :
           f[n] = IF n = 0 THEN machine ELSE Stored(f[n - 1], r.start + n - 1, v)
    BY <1>1 DEF FillTurns
  <2>. QED
    BY <2>1, <2>2
<1>. QED
  BY <1>2, <1>3

LEMMA FreeRuns ==
    ASSUME NEW start, NEW k \in Nat
    PROVE  \E g : g = FreeTurns(g, k, start)
<1>. DEFINE T == {n \in Nat : ~\E g : g = FreeTurns(g, n, start)}
<1>. SUFFICES ASSUME T # {} PROVE FALSE
  OBVIOUS
<1>1. PICK x \in T : \A y \in T : x <= y
  <2>1. T \subseteq Nat
    OBVIOUS
  <2>. QED
    BY <2>1, LeastElement
<1>2. CASE x = 0
  <2>. DEFINE h == [n \in 0 .. 0 |-> machine]
  <2>1. h = FreeTurns(h, 0, start)
    BY DEF FreeTurns
  <2>. QED
    BY <1>1, <1>2, <2>1
<1>3. CASE x # 0
  <2>1. x - 1 \in Nat /\ x \in Nat /\ x - 1 \notin T
    BY <1>1, <1>3
  <2>2. PICK g : g = FreeTurns(g, x - 1, start)
    BY <2>1
  <2>. DEFINE h == [n \in 0 .. x |-> IF n < x THEN g[n] ELSE Freed(g[x - 1], start + (x - 1) * PageSize)]
  <2>3. ASSUME NEW n \in 0 .. x
        PROVE  h[n] = IF n = 0 THEN machine ELSE Freed(h[n - 1], start + (n - 1) * PageSize)
    <3>1. CASE n = 0
      BY <2>1, <2>2, <3>1, <1>3 DEF FreeTurns
    <3>2. CASE n # 0 /\ n < x
      <4>1. n \in 0 .. x - 1 /\ n - 1 \in 0 .. x /\ n - 1 < x
        BY <2>1, <3>2
      <4>2. h[n] = g[n] /\ h[n - 1] = g[n - 1]
        BY <3>2, <4>1
      <4>3. g[n] = Freed(g[n - 1], start + (n - 1) * PageSize)
        BY <2>2, <3>2, <4>1 DEF FreeTurns
      <4>. QED
        BY <3>2, <4>2, <4>3
    <3>3. CASE n = x
      <4>1. x \in 0 .. x /\ x - 1 \in 0 .. x /\ x - 1 < x /\ ~(x < x)
        BY <2>1
      <4>2. h[x] = Freed(g[x - 1], start + (x - 1) * PageSize) /\ h[x - 1] = g[x - 1]
        BY <4>1
      <4>. QED
        BY <1>3, <3>3, <4>2
    <3>. QED
      BY <2>1, <3>1, <3>2, <3>3
  <2>4. h = FreeTurns(h, x, start)
    <3>. DEFINE E(n) == IF n = 0 THEN machine ELSE Freed(h[n - 1], start + (n - 1) * PageSize)
    <3>1. \A n \in 0 .. x : h[n] = E(n)
      BY <2>3
    <3>2. h = [n \in 0 .. x |-> h[n]]
      OBVIOUS
    <3>. HIDE DEF h
    <3>. QED
      BY <3>1, <3>2 DEF FreeTurns
  <2>. HIDE DEF h
  <2>. QED
    BY <1>1, <2>4
<1>. QED
  BY <1>2, <1>3

LEMMA ReleasedTurns ==
    ASSUME NEW start, NEW pages \in Nat
    PROVE  \E g : /\ Released(start, pages) = g[pages] /\ g[0] = machine
                  /\ \A n \in 1 .. pages : g[n] = Freed(g[n - 1], start + (n - 1) * PageSize)
<1>. DEFINE f == CHOOSE g : g = FreeTurns(g, pages, start)
<1>1. f = FreeTurns(f, pages, start)
  BY FreeRuns
<1>2. Released(start, pages) = f[pages]
  BY DEF Released, FreeTurns
<1>. HIDE DEF f
<1>3. f[0] = machine /\ \A n \in 1 .. pages : f[n] = Freed(f[n - 1], start + (n - 1) * PageSize)
  <2>1. 0 \in 0 .. pages /\ \A n \in 1 .. pages : n \in 0 .. pages /\ n # 0
    OBVIOUS
  <2>2. \A n \in 0 .. pages :
           f[n] = IF n = 0 THEN machine ELSE Freed(f[n - 1], start + (n - 1) * PageSize)
    BY <1>1 DEF FreeTurns
  <2>. QED
    BY <2>1, <2>2
<1>. QED
  BY <1>2, <1>3

-----------------------------------------------------------------------------
(***************************************************************************)
(* A client fills cells: all hold its word afterwards, and every other     *)
(* address keeps its own.                                                  *)
(***************************************************************************)
LEMMA FilledFacts ==
    ASSUME MachineInv(machine), NEW r, r.start \in Nat, r.size \in Nat, Cells(r) \subseteq Space,
           NEW v \in Nat, ~Present(v), Filled(r, v).free # {}
    PROVE  LET n == Filled(r, v)
           IN  /\ MachineInv(n)
               /\ \A a \in Cells(r) : Mapped(n, a) /\ Load(n, a) = v
               /\ \A b \in Space \ Cells(r) :
                     Mapped(machine, b) => Mapped(n, b) /\ Load(n, b) = Load(machine, b)
<1>. DEFINE s == r.start
            k == r.size
<1>1. PICK g : /\ Filled(r, v) = g[k] /\ g[0] = machine
               /\ \A n \in 1 .. k : g[n] = Stored(g[n - 1], s + n - 1, v)
  BY FilledTurns
<1>2. /\ s \in Nat /\ k \in Nat /\ Cells(r) = s .. s + k - 1 /\ s .. s + k - 1 \subseteq Space
      /\ g[k].free # {}
  BY <1>1 DEF Cells
<1>. HIDE DEF s, k
<1>. DEFINE Good(n) ==
              /\ IsRecord(g[n])
              /\ g[n].free # {} =>
                   /\ MachineInv(g[n])
                   /\ \A a \in s .. s + n - 1 : Mapped(g[n], a) /\ Load(g[n], a) = v
                   /\ \A b \in Space : Mapped(machine, b) /\ b \notin s .. s + n - 1 =>
                         Mapped(g[n], b) /\ Load(g[n], b) = Load(machine, b)
<1>3. Good(0)
  <2>1. IsRecord(machine)
    BY MachineIsRecord DEF MachineInv
  <2>2. s .. s + 0 - 1 = {}
    BY <1>2
  <2>. QED
    BY <1>1, <2>1, <2>2
<1>4. ASSUME NEW n \in 0 .. k, n + 1 \in 0 .. k, Good(n) PROVE Good(n + 1)
  <2>. DEFINE m == g[n]
              a == s + n
              x == Stored(m, a, v)
  <2>1. /\ n + 1 \in 1 .. k /\ n \in Nat /\ (n + 1) - 1 = n /\ s + (n + 1) - 1 = a /\ a \in Space
        /\ \A b \in Nat : b \in s .. a <=> b \in s .. s + n - 1 \/ b = a
    <3>1. n + 1 \in 1 .. k /\ n \in Nat /\ (n + 1) - 1 = n /\ s + (n + 1) - 1 = a
          /\ a \in s .. s + k - 1
      BY <1>2, <1>4
    <3>2. \A b \in Nat : b \in s .. a <=> b \in s .. s + n - 1 \/ b = a
      BY <1>2, <3>1
    <3>. QED
      BY <1>2, <3>1, <3>2
  <2>2. g[n + 1] = x
    BY <1>1, <2>1
  <2>3. IsRecord(x) /\ (x.free # {} => m.free # {})
    BY <1>4, StoredShrinks
  <2>4. ASSUME x.free # {}
        PROVE  /\ MachineInv(x)
               /\ \A b \in s .. a : Mapped(x, b) /\ Load(x, b) = v
               /\ \A b \in Space : Mapped(machine, b) /\ b \notin s .. a =>
                     Mapped(x, b) /\ Load(x, b) = Load(machine, b)
    <3>1. /\ MachineInv(m)
          /\ \A b \in s .. s + n - 1 : Mapped(m, b) /\ Load(m, b) = v
          /\ \A b \in Space : Mapped(machine, b) /\ b \notin s .. s + n - 1 =>
                Mapped(m, b) /\ Load(m, b) = Load(machine, b)
      BY <1>4, <2>3, <2>4
    <3>. HIDE DEF x, m, a
    <3>2. /\ MachineInv(x) /\ Mapped(x, a) /\ Load(x, a) = v
          /\ \A b \in Space : Mapped(m, b) /\ b # a => Mapped(x, b) /\ Load(x, b) = Load(m, b)
      BY <2>1, <2>4, <3>1, StoredFacts DEF x
    <3>3. ASSUME NEW b \in s .. a PROVE Mapped(x, b) /\ Load(x, b) = v
      <4>1. b \in Space /\ b \in Nat
        <5>1. a \in s .. s + k - 1
          BY <1>2, <2>1 DEF a
        <5>2. b \in s .. s + k - 1
          BY <1>2, <2>1, <5>1 DEF a
        <5>. QED
          BY <1>2, <5>2
      <4>. QED
        BY <2>1, <3>1, <3>2, <4>1
    <3>4. ASSUME NEW b \in Space, Mapped(machine, b), b \notin s .. a
          PROVE  Mapped(x, b) /\ Load(x, b) = Load(machine, b)
      <4>1. b \in Nat /\ b # a /\ b \notin s .. s + n - 1
        <5>1. b \in Nat /\ a \in s .. a
          BY <1>2, <2>1 DEF Space, a
        <5>. QED
          BY <2>1, <3>4, <5>1
      <4>. QED
        BY <3>1, <3>2, <3>4, <4>1
    <3>. QED
      BY <3>2, <3>3, <3>4
  <2>. QED
    BY <2>1, <2>2, <2>3, <2>4
<1>. HIDE DEF Good
<1>5. Good(k)
  <2>. DEFINE T == {n \in 0 .. k : ~Good(n)}
  <2>. SUFFICES ASSUME T # {} PROVE FALSE
    BY <1>2
  <2>1. PICK x \in T : \A y \in T : x <= y
    <3>1. T \subseteq Nat
      BY <1>2
    <3>. QED
      BY <3>1, LeastElement
  <2>2. x # 0
    BY <1>3, <2>1
  <2>3. x - 1 \in 0 .. k /\ (x - 1) + 1 = x /\ x - 1 \notin T /\ x \in 0 .. k
    BY <1>2, <2>1, <2>2
  <2>. QED
    BY <1>4, <2>1, <2>3
<1>. QED
  BY <1>1, <1>2, <1>5 DEF Good

(***************************************************************************)
(* release() gives back pages that are mapped, one by one.                 *)
(***************************************************************************)
LEMMA ReleasedFacts ==
    ASSUME MachineInv(machine), NEW start \in Nat, NEW pages \in Nat,
           \A n \in 0 .. pages - 1 :
              LET a == start + n * PageSize
              IN  a \in Space /\ Mapped(machine, a) /\ ~IsBook(PDIndex(a), PTIndex(a))
    PROVE  LET x == Released(start, pages)
           IN  /\ MachineInv(x)
               /\ \A b \in Space :
                     Mapped(machine, b)
                     /\ (\A n \in 0 .. pages - 1 : b \div PageSize # (start \div PageSize) + n)
                     => Mapped(x, b) /\ Load(x, b) = Load(machine, b)
<1>. DEFINE page(b) == b \div PageSize
            first == page(start)
<1>1. PICK g : /\ Released(start, pages) = g[pages] /\ g[0] = machine
               /\ \A n \in 1 .. pages : g[n] = Freed(g[n - 1], start + (n - 1) * PageSize)
  BY ReleasedTurns
<1>2. \A n \in Nat : /\ start + n * PageSize \in Nat
                     /\ page(start + n * PageSize) = first + n
                     /\ first + n \in Nat
  <2>. SUFFICES ASSUME NEW n \in Nat
                PROVE  /\ start + n * PageSize \in Nat
                       /\ page(start + n * PageSize) = first + n /\ first + n \in Nat
    OBVIOUS
  <2>. DEFINE c == Offset(start)
  <2>1. first \in Nat /\ c \in 0 .. PageSize - 1 /\ start = first * PageSize + c
    BY AddressParts DEF Words
  <2>. HIDE DEF first, c
  <2>2. /\ first * PageSize \in Nat /\ n * PageSize \in Nat
        /\ PageSize * (first + n) = first * PageSize + n * PageSize
    BY <2>1, PageNumbers
  <2>. DEFINE y == first * PageSize
              z == n * PageSize
  <2>3. start + z = (y + z) + c /\ start + z \in Nat
    <3>1. y \in Nat /\ z \in Nat /\ c \in Int /\ c >= 0 /\ start = y + c
      BY <2>1, <2>2, PageNumbers
    <3>. HIDE DEF y, z
    <3>. QED
      BY <3>1
  <2>4. start + z = PageSize * (first + n) + c
    BY <2>2, <2>3
  <2>. HIDE DEF y
  <2>5. page(start + z) = first + n
    BY <2>1, <2>3, <2>4, PageNumbers, DivUnique
  <2>. QED
    BY <2>1, <2>3, <2>5
<1>. HIDE DEF page
<1>. DEFINE Good(n) ==
              /\ MachineInv(g[n])
              /\ \A b \in Space :
                    Mapped(machine, b) /\ (\A k \in 0 .. n - 1 : page(b) # first + k) =>
                         Mapped(g[n], b) /\ Load(g[n], b) = Load(machine, b)
<1>3. Good(0)
  BY <1>1
<1>4. ASSUME NEW n \in 0 .. pages, n + 1 \in 0 .. pages, Good(n) PROVE Good(n + 1)
  <2>. DEFINE m == g[n]
              a == start + n * PageSize
              x == FreePage(m, a)
  <2>1. /\ n + 1 \in 1 .. pages /\ n \in Nat /\ (n + 1) - 1 = n /\ n \in 0 .. pages - 1
        /\ \A k \in 0 .. n - 1 : k \in Nat /\ k # n
        /\ \A k \in 0 .. n : k \in 0 .. n - 1 \/ k = n
        /\ n \in 0 .. n /\ \A k \in 0 .. n - 1 : k \in 0 .. n
    BY <1>4
  <2>2. /\ a \in Space /\ Mapped(machine, a) /\ ~IsBook(PDIndex(a), PTIndex(a))
        /\ page(a) = first + n
    BY <1>2, <2>1
  <2>. HIDE DEF a
  <2>3. \A k \in 0 .. n - 1 : page(a) # first + k
    <3>1. first \in Nat
      BY AddressParts DEF page
    <3>. HIDE DEF first
    <3>. QED
      BY <2>1, <2>2, <3>1
  <2>4. MachineInv(m) /\ Mapped(m, a)
    BY <1>4, <2>2, <2>3
  <2>5. g[n + 1] = x
    <3>1. g[n + 1] = Freed(m, a)
      BY <1>1, <2>1 DEF a
    <3>. QED
      BY <2>4, <3>1 DEF Freed, MachineInv
  <2>. HIDE DEF m, x
  <2>6. /\ MachineInv(x)
        /\ \A b \in Space : Mapped(m, b) /\ page(b) # page(a) =>
              Mapped(x, b) /\ Load(x, b) = Load(m, b)
    BY <2>2, <2>4, FreePageFacts DEF x, page
  <2>7. ASSUME NEW b \in Space, Mapped(machine, b), \A k \in 0 .. n : page(b) # first + k
        PROVE  Mapped(x, b) /\ Load(x, b) = Load(machine, b)
    <3>1. \A k \in 0 .. n - 1 : page(b) # first + k
      BY <2>1, <2>7
    <3>2. page(b) # page(a)
      BY <2>1, <2>2, <2>7
    <3>3. Mapped(m, b) /\ Load(m, b) = Load(machine, b)
      BY <1>4, <2>7, <3>1 DEF m
    <3>. QED
      BY <2>6, <3>2, <3>3
  <2>. QED
    BY <2>1, <2>5, <2>6, <2>7
<1>. HIDE DEF Good
<1>5. Good(pages)
  <2>. DEFINE T == {n \in 0 .. pages : ~Good(n)}
  <2>. SUFFICES ASSUME T # {} PROVE FALSE
    OBVIOUS
  <2>1. PICK x \in T : \A y \in T : x <= y
    <3>1. T \subseteq Nat
      OBVIOUS
    <3>. QED
      BY <3>1, LeastElement
  <2>2. x # 0
    BY <1>3, <2>1
  <2>3. x - 1 \in 0 .. pages /\ (x - 1) + 1 = x /\ x - 1 \notin T /\ x \in 0 .. pages
    BY <2>1, <2>2
  <2>. QED
    BY <1>4, <2>1, <2>3
<1>. QED
  BY <1>1, <1>5 DEF Good, page

-----------------------------------------------------------------------------
(***************************************************************************)
(* What is asked of pools and clients: pools do not overlap and have more  *)
(* than their first page; a size gets as many pages as it needs, which it  *)
(* does not when it is less than a page or a multiple of a whole table,    *)
(* and does not wrap around the address space; the words that clients      *)
(* store do not look like present entries; and what is released was used.  *)
(* The test of mp4/kernel.C is no such client: it asks for 400 * i bytes,  *)
(* less than a page for i <= 10, and stores odd words; with one region at  *)
(* a time it passes (Kernel4), but not by these theorems.                  *)
(***************************************************************************)
PoolsApart ==
    /\ \A p \in Pools : Length[p] > PageSize
    /\ \A p, q \in Pools : p # q =>
          Base[p] + Length[p] <= Base[q] \/ Base[q] + Length[q] <= Base[p]

SizesFit ==
    \A p \in Pools : \A size \in Sizes[p] :
        /\ (size \div PageSize) % PageSize # 0
        /\ Base[p] + Length[p] + NumPages(size) * PageSize < AddressSpace

CleanValues == \A p \in Pools : \A v \in Values[p] : ~Present(v)

CarefulClients == PoolsApart /\ SizesFit /\ CleanValues /\ ~ReleasesUnfilled

\* The process pool has not run out of frames.
FramesLeft == machine.free # {}

PageNo(a) == a \div PageSize
InPool(p, a) == a \in Base[p] .. Base[p] + Length[p] - 1

LEMMA DivMono == \A w \in Nat : w > 0 => \A a, b \in Nat : a <= b => a \div w <= b \div w
OBVIOUS

LEMMA PageBounds ==
    \A a \in Nat : /\ PageNo(a) \in Nat
                   /\ PageNo(a) * PageSize <= a /\ a < (PageNo(a) + 1) * PageSize
<1>. SUFFICES ASSUME NEW a \in Nat
              PROVE  /\ PageNo(a) \in Nat
                     /\ PageNo(a) * PageSize <= a /\ a < (PageNo(a) + 1) * PageSize
  OBVIOUS
<1>. DEFINE q == PageNo(a)
            y == q * PageSize
<1>1. q \in Nat /\ a = y + Offset(a) /\ Offset(a) \in 0 .. PageSize - 1
  BY AddressParts DEF PageNo, Words
<1>. HIDE DEF q
<1>2. y \in Nat /\ (q + 1) * PageSize = y + PageSize
  BY <1>1, PageNumbers
<1>. HIDE DEF y
<1>3. y <= a /\ a < y + PageSize
  BY <1>1, <1>2, PageNumbers
<1>. QED
  BY <1>1, <1>2, <1>3 DEF q, y

LEMMA PoolFacts ==
    \A p \in Pools :
        /\ Base[p] \in Nat /\ Length[p] \in Nat
        /\ Base[p] = PageNo(Base[p]) * PageSize /\ PageNo(Base[p]) \in Nat
        /\ \A a \in Nat : InPool(p, a) => a \in Space
<1>. SUFFICES ASSUME NEW p \in Pools
              PROVE  /\ Base[p] \in Nat /\ Length[p] \in Nat
                     /\ Base[p] = PageNo(Base[p]) * PageSize /\ PageNo(Base[p]) \in Nat
                     /\ \A a \in Nat : InPool(p, a) => a \in Space
  OBVIOUS
<1>1. /\ Base[p] \in Nat /\ Length[p] \in Nat
      /\ PDIndex(Base[p]) > 0 /\ Offset(Base[p]) = 0
      /\ PDIndex(Base[p] + Length[p] - 1) < SelfEntry
  BY PoolsAssumption DEF Offset
<1>2. Base[p] = PageNo(Base[p]) * PageSize /\ PageNo(Base[p]) \in Nat
  <2>1. PageNo(Base[p]) \in Nat /\ Base[p] = PageNo(Base[p]) * PageSize + Offset(Base[p])
    BY <1>1, AddressParts DEF PageNo
  <2>2. PageNo(Base[p]) * PageSize \in Nat
    BY <2>1, PageNumbers
  <2>. QED
    BY <1>1, <2>1, <2>2
<1>3. ASSUME NEW a \in Nat, InPool(p, a) PROVE a \in Space
  <2>. DEFINE w == PageSize * PageSize
              z == Base[p] + Length[p] - 1
  <2>1. w \in Nat /\ w > 0
    BY PageNumbers
  <2>2. Base[p] <= a /\ a <= z /\ z \in Nat
    BY <1>1, <1>3 DEF InPool
  <2>3. Base[p] \div w <= a \div w /\ a \div w <= z \div w
    <3>. HIDE DEF w, z
    <3>. QED
      BY <1>1, <2>1, <2>2, DivMono
  <2>4. PDIndex(Base[p]) <= PDIndex(a) /\ PDIndex(a) <= PDIndex(z)
    BY <2>3 DEF PDIndex
  <2>5. PDIndex(a) \in Nat /\ PDIndex(Base[p]) \in Nat /\ PDIndex(z) \in Nat /\ SelfEntry \in Nat
    BY <1>1, <2>2, AddressParts, PageNumbers
  <2>. QED
    BY <1>1, <2>4, <2>5 DEF Space, TableRows
<1>. QED
  BY <1>1, <1>2, <1>3

LEMMA PoolPages ==
    ASSUME PoolsApart, NEW p \in Pools, NEW q \in Pools, p # q, NEW a \in Nat, NEW b \in Nat,
           InPool(p, a), InPool(q, b)
    PROVE  PageNo(a) # PageNo(b)
<1>1. ASSUME NEW x \in Pools, NEW y \in Pools, NEW c \in Nat, NEW d \in Nat,
             Base[x] + Length[x] <= Base[y], InPool(x, c), InPool(y, d)
      PROVE  PageNo(c) < PageNo(d)
  <2>1. /\ Base[y] = PageNo(Base[y]) * PageSize /\ Base[y] \in Nat /\ Base[x] \in Nat
        /\ Length[x] \in Nat /\ Length[y] \in Nat /\ PageNo(Base[y]) \in Nat
    BY PoolFacts
  <2>2. c < Base[y] /\ Base[y] <= d
    BY <1>1, <2>1 DEF InPool
  <2>3. PageNo(Base[y]) <= PageNo(d)
    <3>1. PageSize \in Nat /\ PageSize > 0
      BY PageNumbers
    <3>2. Base[y] \in Nat /\ Base[y] <= d
      BY <2>1, <2>2
    <3>. QED
      BY <3>1, <3>2, DivMono, Zenon DEF PageNo
  <2>4. PageNo(c) < PageNo(Base[y])
    <3>. DEFINE k == PageNo(c)
                e == PageNo(Base[y])
    <3>1. k \in Nat /\ e \in Nat /\ k * PageSize < e * PageSize
      <4>1. k \in Nat /\ k * PageSize <= c /\ k * PageSize \in Nat
        BY PageBounds, PageNumbers
      <4>. HIDE DEF k
      <4>. QED
        BY <2>1, <2>2, <4>1
    <3>. HIDE DEF k, e
    <3>2. ASSUME k >= e PROVE FALSE
      <4>1. k * PageSize >= e * PageSize
        BY <3>1, <3>2, PageNumbers
      <4>2. k * PageSize \in Nat /\ e * PageSize \in Nat
        BY <3>1, PageNumbers
      <4>. QED
        BY <3>1, <4>1, <4>2
    <3>3. k < e
      BY <3>1, <3>2
    <3>. QED
      BY <3>3 DEF k, e
  <2>5. PageNo(c) \in Nat /\ PageNo(d) \in Nat
    BY PageBounds
  <2>. QED
    BY <2>1, <2>3, <2>4, <2>5
<1>2. PageNo(a) \in Nat /\ PageNo(b) \in Nat
  BY PageBounds
<1>3. PageNo(a) < PageNo(b) \/ PageNo(b) < PageNo(a)
  BY <1>1 DEF PoolsApart
<1>. QED
  BY <1>2, <1>3

\* The words in which a pool keeps its regions.
LEMMA BookFacts ==
    ASSUME PoolsApart, NEW p \in Pools, NEW i \in Words
    PROVE  /\ Base[p] + i \in Nat /\ InPool(p, Base[p] + i) /\ Base[p] + i \in Space
           /\ PageNo(Base[p] + i) = PageNo(Base[p])
           /\ IsBook(PDIndex(Base[p] + i), PTIndex(Base[p] + i))
<1>1. /\ Base[p] \in Nat /\ Length[p] \in Nat /\ Length[p] > PageSize
      /\ i \in 0 .. PageSize - 1 /\ PageSize \in Nat /\ PageSize > 0
  BY PoolFacts, PageNumbers DEF PoolsApart, Words
<1>2. Base[p] + i \in Nat /\ InPool(p, Base[p] + i)
  BY <1>1 DEF InPool
<1>3. PageNo(Base[p] + i) = PageNo(Base[p])
  <2>. DEFINE q == PageNo(Base[p])
  <2>1. q \in Nat /\ Base[p] = q * PageSize
    BY PoolFacts
  <2>. HIDE DEF q
  <2>2. Base[p] + i = PageSize * q + i
    BY <1>1, <2>1
  <2>3. PageNo(Base[p] + i) = q
    BY <1>1, <2>1, <2>2, DivUnique DEF PageNo
  <2>. QED
    BY <2>3 DEF q
<1>4. /\ PDIndex(Base[p] + i) = PDIndex(Base[p])
      /\ PTIndex(Base[p] + i) = PTIndex(Base[p])
  BY <1>1, <1>2, <1>3, SamePage DEF PageNo
<1>. QED
  BY <1>2, <1>3, <1>4, PoolFacts DEF IsBook

LEMMA NotBook ==
    ASSUME PoolsApart, NEW p \in Pools, NEW a \in Nat, InPool(p, a), PageNo(a) # PageNo(Base[p])
    PROVE  ~IsBook(PDIndex(a), PTIndex(a))
<1>. SUFFICES ASSUME NEW q \in Pools, PDIndex(a) = PDIndex(Base[q]), PTIndex(a) = PTIndex(Base[q])
              PROVE  FALSE
  BY DEF IsBook
<1>1. Base[q] \in Nat /\ InPool(q, Base[q])
  BY PoolFacts, PageNumbers DEF PoolsApart, InPool
<1>2. PageNo(a) = PageNo(Base[q])
  BY <1>1, SamePage DEF PageNo
<1>. QED
  BY <1>1, <1>2, PoolPages

-----------------------------------------------------------------------------
(***************************************************************************)
(* The pages of a size.                                                    *)
(***************************************************************************)
LEMMA SizeFacts ==
    ASSUME SizesFit, NEW p \in Pools, NEW size \in Sizes[p]
    PROVE  LET n == NumPages(size)
           IN  /\ size \in Nat /\ size > 0 /\ n \in Nat /\ n > 1
               /\ (n - 1) * PageSize <= size /\ size < n * PageSize
               /\ Base[p] + Length[p] + n * PageSize < AddressSpace
<1>. DEFINE q == size \div PageSize
            n == NumPages(size)
<1>1. size \in Nat /\ size > 0
  BY PoolsAssumption
<1>2. q \in Nat /\ q * PageSize <= size /\ size < (q + 1) * PageSize
  BY <1>1, PageBounds DEF PageNo
<1>3. q % PageSize # 0 /\ Base[p] + Length[p] + n * PageSize < AddressSpace
  BY DEF SizesFit
<1>4. n = q + (IF q % PageSize > 0 THEN 1 ELSE 0)
  BY DEF NumPages
<1>. HIDE DEF q, n
<1>5. n = q + 1 /\ q > 0
  <2>1. q % PageSize \in Nat /\ (q = 0 => q % PageSize = 0)
    BY <1>2, PageNumbers
  <2>. QED
    BY <1>2, <1>3, <1>4, <2>1
<1>6. n - 1 = q /\ n \in Nat /\ n > 1
  BY <1>2, <1>5
<1>7. (n - 1) * PageSize <= size /\ size < n * PageSize
  BY <1>2, <1>5, <1>6
<1>. QED
  BY <1>1, <1>3, <1>6, <1>7 DEF n

LEMMA FreedPagesBound ==
    ASSUME NEW n \in Nat, n > 1
    PROVE  FreedPages(n) \in Nat /\ FreedPages(n) < n
<1>. DEFINE C == {c \in 0 .. n : c < n - c}
<1>1. C \subseteq 0 .. n - 2
  OBVIOUS
<1>2. 0 \in Int /\ n - 2 \in Int /\ n - 2 >= 0
  OBVIOUS
<1>3. IsFiniteSet(0 .. n - 2) /\ Cardinality(0 .. n - 2) = n - 1
  BY <1>2, FS_Interval
<1>4. IsFiniteSet(C) /\ Cardinality(C) <= n - 1 /\ Cardinality(C) \in Nat
  BY <1>1, <1>3, FS_Subset, FS_CardinalityType
<1>. QED
  BY <1>4 DEF FreedPages

\* The cells of a region that begins one word behind a page lie in its pages.
LEMMA CellPages ==
    ASSUME NEW start \in Nat, start % PageSize = 1, NEW n \in Nat, NEW a \in Nat,
           start <= a, a < start + n * PageSize - 1
    PROVE  PageNo(start) <= PageNo(a) /\ PageNo(a) < PageNo(start) + n
<1>. DEFINE q == PageNo(start)
            y == q * PageSize
            z == n * PageSize
<1>1. q \in Nat /\ start = y + 1
  BY AddressParts DEF PageNo, Offset
<1>2. PageNo(start) <= PageNo(a)
  BY DivMono, PageNumbers DEF PageNo
<1>. HIDE DEF q
<1>3. y \in Nat /\ z \in Nat /\ (q + n) * PageSize = y + z
  BY <1>1, PageNumbers
<1>4. a < (q + n) * PageSize
  <2>1. a < start + z - 1
    OBVIOUS
  <2>. HIDE DEF y, z
  <2>. QED
    BY <1>1, <1>3, <2>1
<1>5. PageNo(a) < q + n
  <2>. DEFINE k == PageNo(a)
              e == q + n
  <2>1. k \in Nat /\ k * PageSize <= a /\ e \in Nat
    BY <1>1, PageBounds
  <2>2. a < e * PageSize
    BY <1>4
  <2>. HIDE DEF k, e
  <2>3. ASSUME k >= e PROVE FALSE
    <3>1. k * PageSize >= e * PageSize /\ k * PageSize \in Nat /\ e * PageSize \in Nat
      BY <2>1, <2>3, PageNumbers
    <3>. QED
      BY <2>1, <2>2, <3>1
  <2>4. k < e
    BY <2>1, <2>3
  <2>. QED
    BY <2>4 DEF k, e
<1>. QED
  BY <1>2, <1>5 DEF q

-----------------------------------------------------------------------------
(***************************************************************************)
(* The bookkeeping of the pools: its words are mapped, starts and ends lie *)
(* in the pool, one word behind a page, and regions follow each other.     *)
(* Each region that is out has an entry of its own, and a region that was  *)
(* filled is mapped and holds its word.                                    *)
(***************************************************************************)
Word(m, p, i) == Load(m, Base[p] + i)
Ends == {2 * n - 1 : n \in 0 .. MaxAllocations}

EntriesOf(m, last, p) ==
    /\ last \in Ends
    /\ \A i \in 0 .. last : /\ Mapped(m, Base[p] + i)
                            /\ Word(m, p, i) \in Nat /\ Word(m, p, i) % PageSize = 1
    /\ \A i \in 0 .. last : i % 2 = 0 =>
          /\ Base[p] + PageSize < Word(m, p, i) /\ Word(m, p, i) < Word(m, p, i + 1)
          /\ Word(m, p, i + 1) < Base[p] + Length[p]
    /\ \A i, j \in 0 .. last :
          i % 2 = 0 /\ j % 2 = 0 /\ i < j => Word(m, p, i + 1) <= Word(m, p, j)

RegionType == [pool : Pools, entry : Words, start : Nat, size : Nat, value : Nat \cup {Unfilled}]

RegionOf(m, last, r) ==
    /\ r \in RegionType /\ r.size \in Sizes[r.pool]
    /\ r.entry \in 0 .. last /\ r.entry % 2 = 0
    /\ Word(m, r.pool, r.entry) = r.start
    /\ Word(m, r.pool, r.entry + 1) = r.start + NumPages(r.size) * PageSize
    /\ r.value # Unfilled => \A a \in Cells(r) : Mapped(m, a) /\ Load(m, a) = r.value

EntriesInv ==
    /\ vm_mem_pool_cur \in [Pools -> Int]
    /\ \A p \in Pools : EntriesOf(machine, vm_mem_pool_cur[p], p)

RegionsInv ==
    /\ \A r \in regions : RegionOf(machine, vm_mem_pool_cur[r.pool], r)
    /\ \A r, s \in regions : r.pool = s.pool /\ r.entry = s.entry => r = s

MemoryInv == MachineInv(machine) /\ EntriesInv /\ RegionsInv

LEMMA EndNumbers ==
    \A last \in Ends :
        /\ last \in Int /\ last >= -1 /\ last < PageSize
        /\ \A i \in 0 .. last : i \in Words /\ (i % 2 = 0 => i + 1 \in 0 .. last /\ i + 1 \in Words)
        /\ last # -1 => last \in 0 .. last /\ last - 1 \in 0 .. last /\ (last - 1) % 2 = 0
<1>. SUFFICES ASSUME NEW n \in 0 .. MaxAllocations
              PROVE  LET last == 2 * n - 1
                     IN  /\ last \in Int /\ last >= -1 /\ last < PageSize
                         /\ \A i \in 0 .. last :
                               i \in Words /\ (i % 2 = 0 => i + 1 \in 0 .. last /\ i + 1 \in Words)
                         /\ last # -1 =>
                               last \in 0 .. last /\ last - 1 \in 0 .. last /\ (last - 1) % 2 = 0
  BY DEF Ends
<1>1. 2 * MaxAllocations <= PageSize /\ MaxAllocations \in Nat /\ PageSize \in Nat
  BY PoolsAssumption, PageNumbers
<1>. QED
  BY <1>1 DEF Words

LEMMA LoadType ==
    ASSUME NEW m, MachineInv(m), NEW a \in Space, Mapped(m, a)
    PROVE  Load(m, a) \in Nat
<1>. DEFINE f == Owner(m, PDIndex(a), PTIndex(a))
<1>1. /\ Load(m, a) = m.memory[f][Offset(a)] /\ Offset(a) \in Words
      /\ PDIndex(a) \in Rows /\ PTIndex(a) \in Words /\ Live(m, PDIndex(a), PTIndex(a))
  BY Translation
<1>2. f \in Process /\ m \in Machines
  BY <1>1 DEF MachineInv, OwnersHeld
<1>3. f \in Frames
  BY <1>2, PageNumbers
<1>. HIDE DEF f
<1>. QED
  BY <1>1, <1>2, <1>3, SlotTypes

LEMMA KeptEntries ==
    ASSUME NEW m, NEW n, NEW last, NEW p \in Pools, EntriesOf(m, last, p),
           \A i \in 0 .. last : Mapped(n, Base[p] + i) /\ Word(n, p, i) = Word(m, p, i)
    PROVE  EntriesOf(n, last, p)
<1>1. last \in Ends
  BY DEF EntriesOf
<1>2. \A i \in 0 .. last : i % 2 = 0 => i + 1 \in 0 .. last
  BY <1>1, EndNumbers
<1>. QED
  BY <1>1, <1>2 DEF EntriesOf

LEMMA KeptRegion ==
    ASSUME NEW m, NEW n, NEW last \in Ends, NEW next \in Int, last <= next, NEW r,
           RegionOf(m, last, r),
           \A i \in 0 .. last : Word(n, r.pool, i) = Word(m, r.pool, i),
           \A a \in Cells(r) : Mapped(m, a) => Mapped(n, a) /\ Load(n, a) = Load(m, a)
    PROVE  RegionOf(n, next, r)
<1>1. r.entry \in 0 .. last /\ r.entry + 1 \in 0 .. last /\ r.entry \in 0 .. next
  BY EndNumbers DEF RegionOf
<1>. QED
  BY <1>1 DEF RegionOf

(***************************************************************************)
(* Where a region is: its pages come after the first page of its pool and  *)
(* before the start of the next region.                                    *)
(***************************************************************************)
LEMMA RegionFacts ==
    ASSUME CarefulClients, NEW m, NEW last, NEW r, RegionOf(m, last, r), EntriesOf(m, last, r.pool)
    PROVE  /\ r.pool \in Pools /\ r.start \in Nat /\ r.size \in Nat /\ r.size > 0
           /\ r.start % PageSize = 1
           /\ NumPages(r.size) \in Nat /\ NumPages(r.size) > 1
           /\ (NumPages(r.size) - 1) * PageSize <= r.size
           /\ PageNo(Base[r.pool]) < PageNo(r.start)
           /\ PageNo(Word(m, r.pool, r.entry + 1)) = PageNo(r.start) + NumPages(r.size)
           /\ \A a \in Cells(r) :
                 /\ a \in Nat /\ InPool(r.pool, a) /\ a \in Space
                 /\ PageNo(r.start) <= PageNo(a)
                 /\ PageNo(a) < PageNo(r.start) + NumPages(r.size)
<1>. DEFINE p == r.pool
            s == r.start
            k == r.size
            n == NumPages(k)
            e == Word(m, p, r.entry + 1)
<1>1. /\ p \in Pools /\ s \in Nat /\ k \in Nat /\ k \in Sizes[p]
      /\ r.entry \in 0 .. last /\ r.entry % 2 = 0
      /\ Word(m, p, r.entry) = s /\ e = s + n * PageSize
  BY DEF RegionOf, RegionType
<1>2. /\ k > 0 /\ n \in Nat /\ n > 1 /\ (n - 1) * PageSize <= k /\ k < n * PageSize
  BY <1>1, SizeFacts DEF CarefulClients
<1>3. s % PageSize = 1 /\ Base[p] + PageSize < s /\ e < Base[p] + Length[p]
  BY <1>1 DEF EntriesOf
<1>4. Base[p] \in Nat /\ Length[p] \in Nat /\ PageSize \in Nat /\ PageSize > 0
  BY <1>1, PoolFacts, PageNumbers
<1>. HIDE DEF n, e
<1>5. PageNo(Base[p]) < PageNo(s)
  <2>. DEFINE b == PageNo(Base[p])
  <2>1. b \in Nat /\ Base[p] = b * PageSize
    BY <1>1, PoolFacts
  <2>. HIDE DEF b
  <2>2. (b + 1) * PageSize = b * PageSize + PageSize /\ (b + 1) * PageSize \in Nat
    BY <1>4, <2>1
  <2>3. (b + 1) * PageSize = PageSize * (b + 1) + 0 /\ 0 \in 0 .. PageSize - 1
    BY <1>4, <2>1
  <2>4. PageNo((b + 1) * PageSize) = b + 1
    BY <1>4, <2>1, <2>3, DivUnique DEF PageNo
  <2>5. (b + 1) * PageSize <= s
    BY <1>1, <1>3, <1>4, <2>1, <2>2
  <2>6. b + 1 <= PageNo(s)
    <3>. DEFINE x == (b + 1) * PageSize
    <3>. HIDE DEF x
    <3>1. PageNo(x) <= PageNo(s)
      BY <1>1, <1>4, <2>2, <2>5, DivMono, Zenon DEF PageNo, x
    <3>. QED
      BY <2>4, <3>1 DEF x
  <2>7. PageNo(s) \in Nat
    BY <1>1, PageBounds
  <2>. QED
    BY <2>1, <2>6, <2>7 DEF b
<1>6. PageNo(e) = PageNo(s) + n
  <2>. DEFINE q == PageNo(s)
  <2>1. q \in Nat /\ s = q * PageSize + 1
    BY <1>1, <1>3, AddressParts DEF PageNo, Offset
  <2>. HIDE DEF q, s
  <2>2. PageSize * (q + n) = q * PageSize + n * PageSize
    BY <1>2, <1>4, <2>1
  <2>. DEFINE y == q * PageSize
              z == n * PageSize
  <2>3. y \in Nat /\ z \in Nat
    BY <1>2, <1>4, <2>1
  <2>4. e = y + z + 1
    <3>1. e = s + z /\ s = y + 1
      BY <1>1, <2>1
    <3>. HIDE DEF y, z
    <3>. QED
      BY <2>3, <3>1
  <2>5. e = PageSize * (q + n) + 1 /\ 1 \in 0 .. PageSize - 1 /\ q + n \in Nat
    BY <1>2, <2>1, <2>2, <2>4, PageNumbers
  <2>. QED
    BY <1>4, <2>5, DivUnique DEF PageNo, q
<1>7. ASSUME NEW a \in Cells(r)
      PROVE  /\ a \in Nat /\ InPool(p, a) /\ a \in Space
             /\ PageNo(s) <= PageNo(a) /\ PageNo(a) < PageNo(s) + n
  <2>. DEFINE z == n * PageSize
  <2>1. z \in Nat
    BY <1>2, <1>4
  <2>2. a \in Nat /\ s <= a /\ a < s + k
    BY <1>1 DEF Cells
  <2>3. a < s + z - 1
    BY <1>1, <1>2, <2>1, <2>2
  <2>4. InPool(p, a)
    BY <1>1, <1>3, <1>4, <2>1, <2>2, <2>3 DEF InPool
  <2>5. a \in Space
    BY <1>1, <2>2, <2>4, PoolFacts
  <2>6. PageNo(s) <= PageNo(a) /\ PageNo(a) < PageNo(s) + n
    BY <1>1, <1>2, <1>3, <2>2, <2>3, CellPages
  <2>. QED
    BY <2>2, <2>4, <2>5, <2>6
<1>. QED
  BY <1>1, <1>2, <1>3, <1>5, <1>6, <1>7 DEF n, e

LEMMA RegionsApart ==
    ASSUME CarefulClients, EntriesInv, RegionsInv, NEW r \in regions, NEW s \in regions, r # s,
           NEW a \in Cells(r), NEW b \in Cells(s)
    PROVE  PageNo(a) # PageNo(b)
<1>. DEFINE last(p) == vm_mem_pool_cur[p]
<1>1. /\ RegionOf(machine, last(r.pool), r) /\ RegionOf(machine, last(s.pool), s)
      /\ r.pool \in Pools /\ s.pool \in Pools
      /\ EntriesOf(machine, last(r.pool), r.pool) /\ EntriesOf(machine, last(s.pool), s.pool)
  BY DEF EntriesInv, RegionsInv, RegionOf, RegionType
<1>2. a \in Nat /\ b \in Nat /\ InPool(r.pool, a) /\ InPool(s.pool, b)
  BY <1>1, RegionFacts
<1>3. CASE r.pool # s.pool
  BY <1>1, <1>2, <1>3, PoolPages DEF CarefulClients
<1>4. ASSUME NEW x \in regions, NEW y \in regions, x.pool = y.pool, x.entry < y.entry,
             NEW c \in Cells(x), NEW d \in Cells(y)
      PROVE  PageNo(c) < PageNo(d)
  <2>. DEFINE p == x.pool
              e == Word(machine, p, x.entry + 1)
  <2>1. /\ p \in Pools /\ EntriesOf(machine, last(p), p)
        /\ RegionOf(machine, last(p), x) /\ RegionOf(machine, last(p), y)
    BY <1>4 DEF EntriesInv, RegionsInv, RegionOf, RegionType
  <2>2. /\ x.entry \in 0 .. last(p) /\ y.entry \in 0 .. last(p)
        /\ x.entry % 2 = 0 /\ y.entry % 2 = 0
        /\ Word(machine, p, y.entry) = y.start /\ y.start \in Nat
    BY <1>4, <2>1 DEF RegionOf, RegionType
  <2>3. x.entry + 1 \in 0 .. last(p)
    BY <2>1, <2>2, EndNumbers DEF EntriesOf
  <2>4. e <= y.start /\ e \in Nat
    BY <1>4, <2>1, <2>2, <2>3 DEF EntriesOf
  <2>5. /\ PageNo(c) < PageNo(e) /\ PageNo(y.start) <= PageNo(d)
        /\ c \in Nat /\ d \in Nat
    BY <1>4, <2>1, RegionFacts
  <2>6. PageNo(e) <= PageNo(y.start)
    <3>1. PageSize \in Nat /\ PageSize > 0
      BY PageNumbers
    <3>. QED
      BY <2>2, <2>4, <3>1, DivMono, Zenon DEF PageNo
  <2>7. PageNo(c) \in Nat /\ PageNo(d) \in Nat /\ PageNo(e) \in Nat /\ PageNo(y.start) \in Nat
    BY <2>2, <2>4, <2>5, PageBounds
  <2>. HIDE DEF e
  <2>. QED
    BY <2>5, <2>6, <2>7
<1>5. CASE r.pool = s.pool
  <2>1. r.entry # s.entry /\ r.entry \in Int /\ s.entry \in Int
    BY <1>1, <1>5 DEF RegionsInv, RegionOf
  <2>2. PageNo(a) \in Nat /\ PageNo(b) \in Nat
    BY <1>2, PageBounds
  <2>3. CASE r.entry < s.entry
    BY <1>4, <1>5, <2>2, <2>3
  <2>4. CASE s.entry < r.entry
    BY <1>4, <1>5, <2>2, <2>4
  <2>. QED
    BY <2>1, <2>3, <2>4
<1>. QED
  BY <1>3, <1>5

\* No cell of a region is in the first page of a pool.
LEMMA RegionNotBook ==
    ASSUME CarefulClients, EntriesInv, RegionsInv, NEW r \in regions, NEW a \in Cells(r),
           NEW p \in Pools, NEW i \in Words
    PROVE  PageNo(a) # PageNo(Base[p] + i) /\ PageNo(a) # PageNo(Base[p]) /\ a # Base[p] + i
<1>1. RegionOf(machine, vm_mem_pool_cur[r.pool], r) /\ EntriesOf(machine, vm_mem_pool_cur[r.pool], r.pool)
  BY DEF EntriesInv, RegionsInv, RegionOf, RegionType
<1>2. /\ r.pool \in Pools /\ a \in Nat /\ InPool(r.pool, a)
      /\ PageNo(Base[r.pool]) < PageNo(r.start) /\ PageNo(r.start) <= PageNo(a) /\ r.start \in Nat
  BY <1>1, RegionFacts
<1>3. /\ Base[p] + i \in Nat /\ InPool(p, Base[p] + i)
      /\ PageNo(Base[p] + i) = PageNo(Base[p])
  BY BookFacts DEF CarefulClients
<1>4. PageNo(a) # PageNo(Base[p])
  <2>1. CASE p = r.pool
    <3>1. PageNo(Base[p]) \in Nat /\ PageNo(r.start) \in Nat /\ PageNo(a) \in Nat
      BY <1>2, PoolFacts, PageBounds
    <3>. QED
      BY <1>2, <2>1, <3>1
  <2>2. CASE p # r.pool
    BY <1>2, <1>3, <2>2, PoolPages DEF CarefulClients
  <2>. QED
    BY <2>1, <2>2
<1>. QED
  BY <1>3, <1>4

-----------------------------------------------------------------------------
(***************************************************************************)
(* Initially no slot is live and no frame of the pool is taken.            *)
(***************************************************************************)
LEMMA BootedFacts ==
    /\ Booted \in Machines /\ ~Booted.halted /\ Booted.free = Process
    /\ Booted.memory[Directory][SelfEntry] = Entry(Directory)
    /\ \A t \in TableRows : Booted.memory[Directory][t] = NotPresent
    /\ \A f \in Process, c \in Words : Booted.memory[f][c] = 0
<1>. DEFINE W(f, i) ==
              CASE f = DirectTable -> Entry(i)
                [] f = Directory /\ i = 0 -> Entry(DirectTable)
                [] f = Directory /\ i = SelfEntry -> Entry(Directory)
                [] f = Directory /\ i \in 1 .. SelfEntry - 1 -> NotPresent
                [] OTHER -> 0
            M == [f \in Frames |-> [i \in Words |-> W(f, i)]]
<1>1. Directory = 2 /\ DirectTable = 3 /\ Directory # DirectTable
  BY DEF Directory, DirectTable
<1>2. \A i \in Nat : Entry(i) \in Nat
  BY EntryFacts
<1>3. /\ Directory \in Frames /\ SelfEntry \in Words /\ SelfEntry > 2 /\ Words \subseteq Nat
      /\ TableRows \subseteq Words /\ 0 \notin TableRows /\ SelfEntry \notin TableRows
      /\ Process \subseteq Frames
      /\ \A f \in Process : f # Directory /\ f # DirectTable
  BY <1>1, PageNumbers, SlotNumbers DEF Process, TableRows, Words
<1>4. ASSUME NEW f \in Frames, NEW i \in Words PROVE W(f, i) \in Nat
  <2>1. Entry(i) \in Nat /\ Entry(Directory) \in Nat /\ Entry(DirectTable) \in Nat /\ NotPresent \in Nat
    BY <1>1, <1>2, <1>3 DEF NotPresent
  <2>. QED
    BY <2>1
<1>5. \A f \in Frames, i \in Words : M[f][i] = W(f, i)
  OBVIOUS
<1>6. M \in [Frames -> [Words -> Nat]]
  <2>. HIDE DEF W
  <2>. QED
    BY <1>4
<1>7. W(Directory, SelfEntry) = Entry(Directory)
  BY <1>1, <1>3
<1>8. \A t \in TableRows : W(Directory, t) = NotPresent
  BY <1>1, <1>3 DEF TableRows
<1>9. \A f \in Process, c \in Words : W(f, c) = 0
  BY <1>3
<1>10. Booted = [memory |-> M, free |-> Process, halted |-> FALSE]
  BY DEF Booted
<1>. HIDE DEF W, M
<1>. QED
  BY <1>3, <1>5, <1>6, <1>7, <1>8, <1>9, <1>10 DEF Machines

LEMMA InitMemory == Init => MemoryInv
<1>. SUFFICES ASSUME Init PROVE MemoryInv
  OBVIOUS
<1>1. machine = Booted /\ vm_mem_pool_cur = [p \in Pools |-> -1] /\ regions = {}
  BY DEF Init
<1>2. \A t \in Rows, i \in Words : ~Live(Booted, t, i)
  <2>. SUFFICES ASSUME NEW t \in Rows, NEW i \in Words, Live(Booted, t, i) PROVE FALSE
    OBVIOUS
  <2>1. ~Present(NotPresent)
    BY DEF Present, NotPresent
  <2>2. CASE t = 0
    BY <2>1, <2>2, BootedFacts DEF Live, SlotWord, TableOf
  <2>3. CASE t # 0
    BY <2>1, <2>3, BootedFacts, SlotNumbers DEF Live
  <2>. QED
    BY <2>2, <2>3
<1>3. \A f \in Process, c \in Words : ~Present(Booted.memory[f][c])
  <2>1. ~Present(0)
    BY DEF Present
  <2>. QED
    BY <2>1, BootedFacts
<1>4. MachineInv(Booted)
  BY <1>2, <1>3, BootedFacts
  DEF MachineInv, OwnersHeld, OwnersApart, AllOwned, FreeClean, PagesClean
<1>5. -1 \in Ends /\ 0 .. -1 = {}
  <2>1. 0 \in 0 .. MaxAllocations /\ -1 = 2 * 0 - 1
    BY PoolsAssumption
  <2>. QED
    BY <2>1 DEF Ends
<1>6. \A p \in Pools : EntriesOf(machine, -1, p)
  BY <1>5 DEF EntriesOf
<1>. QED
  BY <1>1, <1>4, <1>6 DEF MemoryInv, EntriesInv, RegionsInv

-----------------------------------------------------------------------------
(***************************************************************************)
(* Allocate: where the new region is, what its two entries are, and that   *)
(* they are the only words that change.                                    *)
(***************************************************************************)
LEMMA NewEnds ==
    ASSUME NEW last \in Ends, last + 2 < 2 * MaxAllocations
    PROVE  /\ last + 2 \in Ends /\ last \in Int /\ last + 1 \in Words /\ last + 2 \in Words
           /\ (last + 1) % 2 = 0 /\ last <= last + 2
           /\ \A j \in 0 .. last + 2 : j \in 0 .. last \/ j = last + 1 \/ j = last + 2
<1>1. PICK n \in 0 .. MaxAllocations : last = 2 * n - 1
  BY DEF Ends
<1>2. MaxAllocations \in Nat /\ 2 * MaxAllocations <= PageSize /\ PageSize \in Nat
  BY PoolsAssumption, PageNumbers
<1>3. n + 1 \in 0 .. MaxAllocations /\ last + 2 = 2 * (n + 1) - 1 /\ last + 1 = 2 * n
  BY <1>1, <1>2
<1>. QED
  BY <1>1, <1>2, <1>3 DEF Ends, Words

LEMMA CurAddrFacts ==
    ASSUME PoolsApart, NEW p \in Pools, EntriesOf(machine, vm_mem_pool_cur[p], p)
    PROVE  /\ CurAddr(p) \in Nat /\ CurAddr(p) % PageSize = 1
           /\ Base[p] + PageSize < CurAddr(p) /\ CurAddr(p) <= Base[p] + Length[p]
           /\ \A j \in 0 .. vm_mem_pool_cur[p] : j % 2 = 0 => Word(machine, p, j + 1) <= CurAddr(p)
<1>. DEFINE last == vm_mem_pool_cur[p]
            s == CurAddr(p)
<1>1. /\ last \in Ends /\ Base[p] \in Nat /\ Length[p] \in Nat /\ Length[p] > PageSize
      /\ PageSize \in Nat /\ PageSize > 3 /\ last \in Int
  BY PoolFacts, PageNumbers, EndNumbers DEF EntriesOf, PoolsApart
<1>2. CASE last = -1
  <2>1. s = Base[p] + PageSize + 1
    BY <1>2 DEF CurAddr
  <2>2. s % PageSize = 1
    <3>. DEFINE q == PageNo(Base[p])
    <3>1. q \in Nat /\ Base[p] = q * PageSize
      BY PoolFacts
    <3>. HIDE DEF q
    <3>2. s = PageSize * (q + 1) + 1 /\ q + 1 \in Nat /\ 1 \in 0 .. PageSize - 1
      BY <1>1, <2>1, <3>1
    <3>. QED
      BY <1>1, <3>2, DivUnique
  <2>3. s \in Nat /\ Base[p] + PageSize < s /\ s <= Base[p] + Length[p]
    BY <1>1, <2>1
  <2>4. \A j \in 0 .. last : FALSE
    BY <1>2
  <2>. QED
    BY <2>2, <2>3, <2>4, Zenon
<1>3. CASE last # -1
  <2>1. last \in 0 .. last /\ last - 1 \in 0 .. last /\ (last - 1) % 2 = 0 /\ (last - 1) + 1 = last
    BY <1>1, <1>3, EndNumbers
  <2>2. s = Word(machine, p, last) /\ ~(last < 0)
    BY <1>1, <2>1 DEF CurAddr, Word
  <2>3. s \in Nat /\ s % PageSize = 1
    BY <2>1, <2>2 DEF EntriesOf
  <2>4. /\ Base[p] + PageSize < Word(machine, p, last - 1) /\ Word(machine, p, last - 1) < s
        /\ s < Base[p] + Length[p] /\ Word(machine, p, last - 1) \in Nat
    BY <2>1, <2>2 DEF EntriesOf
  <2>5. ASSUME NEW j \in 0 .. last, j % 2 = 0 PROVE Word(machine, p, j + 1) <= s
    <3>1. j + 1 \in 0 .. last /\ Word(machine, p, j + 1) \in Nat
      BY <1>1, <2>5, EndNumbers DEF EntriesOf
    <3>2. CASE j = last - 1
      BY <1>1, <2>2, <2>3, <3>2
    <3>3. CASE j < last - 1
      <4>1. Word(machine, p, j + 1) <= Word(machine, p, last - 1)
        BY <2>1, <2>5, <3>3 DEF EntriesOf
      <4>. QED
        BY <2>3, <2>4, <3>1, <4>1
    <3>4. j = last - 1 \/ j < last - 1
      BY <1>1, <2>5, <3>1
    <3>. QED
      BY <3>2, <3>3, <3>4
  <2>6. Base[p] + PageSize < s /\ s <= Base[p] + Length[p]
    <3>. DEFINE y == Word(machine, p, last - 1)
    <3>. HIDE DEF s, y
    <3>. QED
      BY <1>1, <2>3, <2>4 DEF y
  <2>. QED
    BY <2>3, <2>5, <2>6, Zenon
<1>. QED
  BY <1>2, <1>3

LEMMA NextAddrFacts ==
    ASSUME CarefulClients, NEW p \in Pools, NEW size \in Sizes[p],
           EntriesOf(machine, vm_mem_pool_cur[p], p)
    PROVE  /\ NextAddr(p, size) = CurAddr(p) + NumPages(size) * PageSize
           /\ NextAddr(p, size) \in Nat /\ NextAddr(p, size) % PageSize = 1
           /\ CurAddr(p) < NextAddr(p, size)
<1>. DEFINE s == CurAddr(p)
            n == NumPages(size)
            z == n * PageSize
<1>1. /\ s \in Nat /\ s % PageSize = 1 /\ s <= Base[p] + Length[p]
      /\ n \in Nat /\ n > 1 /\ Base[p] + Length[p] + z < AddressSpace
  BY CurAddrFacts, SizeFacts DEF CarefulClients
<1>2. /\ Base[p] \in Nat /\ Length[p] \in Nat /\ PageSize \in Nat /\ PageSize > 3
      /\ AddressSpace \in Nat
  BY PoolFacts, PageNumbers DEF AddressSpace
<1>. HIDE DEF n, s
<1>3. z \in Nat /\ z > 0
  BY <1>1, <1>2
<1>4. NextAddr(p, size) = (s + z) % AddressSpace
  BY DEF NextAddr, n, s
<1>5. (s + z) % PageSize = 1
  <2>. DEFINE q == PageNo(s)
  <2>1. q \in Nat /\ s = q * PageSize + 1
    BY <1>1, AddressParts DEF PageNo, Offset
  <2>. HIDE DEF q
  <2>2. PageSize * (q + n) = q * PageSize + n * PageSize /\ q + n \in Nat /\ q * PageSize \in Nat
    BY <1>1, <1>2, <2>1
  <2>3. s + z = PageSize * (q + n) + 1 /\ 1 \in 0 .. PageSize - 1
    BY <1>2, <1>3, <2>1, <2>2
  <2>. QED
    BY <1>2, <2>2, <2>3, DivUnique
<1>. HIDE DEF z
<1>6. s + z \in Nat /\ s + z < AddressSpace /\ s < s + z
  BY <1>1, <1>2, <1>3
<1>7. (s + z) % AddressSpace = s + z
  BY <1>2, <1>6, ModSmall
<1>. QED
  BY <1>4, <1>5, <1>6, <1>7 DEF n, s, z

LEMMA AllocateStep ==
    ASSUME CarefulClients, MemoryInv, NEW p \in Pools, NEW size \in Sizes[p], Allocate(p, size),
           machine'.free # {}
    PROVE  MemoryInv'
<1>. DEFINE last == vm_mem_pool_cur[p]
            s == CurAddr(p)
            e == NextAddr(p, size)
            b == Base[p] + (last + 1)
            c == Base[p] + (last + 1) + 1
            x == Stored(machine, b, s)
            n == Stored(x, c, e)
            r == [pool |-> p, entry |-> last + 1, start |-> s, size |-> size, value |-> Unfilled]
<1>1. /\ PoolsApart /\ MachineInv(machine) /\ EntriesInv /\ RegionsInv
      /\ \A q \in Pools : EntriesOf(machine, vm_mem_pool_cur[q], q)
      /\ \A q \in Pools : vm_mem_pool_cur[q] \in Ends
  BY DEF MemoryInv, EntriesInv, CarefulClients, EntriesOf
<1>2. /\ machine' = n /\ regions' = regions \cup {r}
      /\ vm_mem_pool_cur' = [vm_mem_pool_cur EXCEPT ![p] = last + 2]
      /\ last + 2 < 2 * MaxAllocations /\ e < Base[p] + Length[p]
  BY DEF Allocate, AfterEntry
<1>3. /\ last \in Ends /\ last + 2 \in Ends /\ last \in Int /\ last + 1 \in Words /\ last + 2 \in Words
      /\ (last + 1) % 2 = 0 /\ last <= last + 2
      /\ \A j \in 0 .. last + 2 : j \in 0 .. last \/ j = last + 1 \/ j = last + 2
  BY <1>1, <1>2, NewEnds
<1>4. /\ s \in Nat /\ s % PageSize = 1 /\ Base[p] + PageSize < s
      /\ \A j \in 0 .. last : j % 2 = 0 => Word(machine, p, j + 1) <= s
  BY <1>1, CurAddrFacts
<1>5. e = s + NumPages(size) * PageSize /\ e \in Nat /\ e % PageSize = 1 /\ s < e
  BY <1>1, NextAddrFacts
<1>. HIDE DEF last, s, e
<1>6. /\ Base[p] \in Nat /\ c = Base[p] + (last + 2)
      /\ b \in Space /\ c \in Space /\ b # c
      /\ IsBook(PDIndex(b), PTIndex(b)) /\ IsBook(PDIndex(c), PTIndex(c))
  <2>1. Base[p] \in Nat /\ c = Base[p] + (last + 2) /\ b # c
    BY <1>3, PoolFacts
  <2>2. b \in Space /\ IsBook(PDIndex(b), PTIndex(b))
    BY <1>1, <1>3, BookFacts
  <2>3. c \in Space /\ IsBook(PDIndex(c), PTIndex(c))
    <3>. HIDE DEF c
    <3>. QED
      BY <1>1, <1>3, <2>1, BookFacts
  <2>. QED
    BY <2>1, <2>2, <2>3
<1>. HIDE DEF b, c
<1>7. n.free # {} /\ x.free # {}
  <2>1. IsRecord(machine)
    BY <1>1, MachineIsRecord DEF MachineInv
  <2>2. IsRecord(x)
    BY <2>1, StoredShrinks
  <2>. HIDE DEF x
  <2>3. n.free \subseteq x.free
    BY <2>2, StoredShrinks
  <2>. QED
    BY <1>2, <2>3
<1>8. /\ MachineInv(x) /\ Mapped(x, b) /\ Load(x, b) = s
      /\ \A a \in Space : Mapped(machine, a) /\ a # b => Mapped(x, a) /\ Load(x, a) = Load(machine, a)
  BY <1>1, <1>4, <1>6, <1>7, StoredFacts
<1>. HIDE DEF x
<1>9. /\ MachineInv(n) /\ Mapped(n, c) /\ Load(n, c) = e
      /\ \A a \in Space : Mapped(x, a) /\ a # c => Mapped(n, a) /\ Load(n, a) = Load(x, a)
  BY <1>5, <1>6, <1>7, <1>8, StoredFacts
<1>. HIDE DEF n
<1>10. /\ Mapped(n, b) /\ Load(n, b) = s
       /\ \A a \in Space : Mapped(machine, a) /\ a # b /\ a # c =>
             Mapped(n, a) /\ Load(n, a) = Load(machine, a)
  BY <1>6, <1>8, <1>9
<1>11. ASSUME NEW q \in Pools, NEW j \in 0 .. vm_mem_pool_cur[q]
       PROVE  Mapped(n, Base[q] + j) /\ Word(n, q, j) = Word(machine, q, j)
  <2>. DEFINE a == Base[q] + j
  <2>1. j \in Words /\ Mapped(machine, a)
    BY <1>1, EndNumbers DEF EntriesOf
  <2>2. a \in Space /\ a \in Nat /\ InPool(q, a)
    BY <1>1, <2>1, BookFacts
  <2>3. a # b /\ a # c
    <3>1. CASE q = p
      <4>1. j < last + 1 /\ j \in Int
        BY <1>3, <3>1 DEF last
      <4>. QED
        BY <1>3, <1>6, <3>1, <4>1 DEF b
    <3>2. CASE q # p
      <4>1. b \in Nat /\ InPool(p, b) /\ c \in Nat /\ InPool(p, c)
        BY <1>1, <1>3, <1>6, BookFacts DEF b
      <4>. HIDE DEF a
      <4>. QED
        BY <1>1, <2>2, <3>2, <4>1, PoolPages
    <3>. QED
      BY <3>1, <3>2
  <2>. QED
    BY <1>10, <2>1, <2>2, <2>3 DEF Word
<1>12. \A q \in Pools : EntriesOf(n, vm_mem_pool_cur[q], q)
  BY <1>1, <1>11, KeptEntries
<1>13. EntriesOf(n, last + 2, p)
  <2>1. Word(n, p, last + 1) = s /\ Word(n, p, last + 2) = e
    BY <1>6, <1>9, <1>10 DEF Word, b
  <2>2. EntriesOf(n, last, p)
    BY <1>12 DEF last
  <2>3. \A j \in 0 .. last : j % 2 = 0 => Word(n, p, j + 1) <= s
    <3>. SUFFICES ASSUME NEW j \in 0 .. last, j % 2 = 0 PROVE Word(n, p, j + 1) <= s
      OBVIOUS
    <3>1. j + 1 \in 0 .. last
      BY <1>3, EndNumbers
    <3>2. Word(n, p, j + 1) = Word(machine, p, j + 1)
      BY <1>11, <3>1 DEF last
    <3>. QED
      BY <1>4, <3>2
  <2>4. \A i \in 0 .. last + 2 : /\ Mapped(n, Base[p] + i)
                                 /\ Word(n, p, i) \in Nat /\ Word(n, p, i) % PageSize = 1
    <3>1. Mapped(n, Base[p] + (last + 1)) /\ Mapped(n, Base[p] + (last + 2))
      BY <1>6, <1>9, <1>10 DEF b
    <3>. QED
      BY <1>3, <1>4, <1>5, <2>1, <2>2, <3>1 DEF EntriesOf
  <2>5. ASSUME NEW i \in 0 .. last + 2, i % 2 = 0 PROVE i \in 0 .. last \/ i = last + 1
    BY <1>3, <2>5
  <2>6. \A i \in 0 .. last + 2 : i % 2 = 0 =>
           /\ Base[p] + PageSize < Word(n, p, i) /\ Word(n, p, i) < Word(n, p, i + 1)
           /\ Word(n, p, i + 1) < Base[p] + Length[p]
    <3>1. /\ Base[p] + PageSize < Word(n, p, last + 1) /\ Word(n, p, last + 1) < Word(n, p, last + 2)
          /\ Word(n, p, last + 2) < Base[p] + Length[p] /\ (last + 1) + 1 = last + 2
      BY <1>2, <1>3, <1>4, <1>5, <2>1
    <3>. QED
      BY <2>2, <2>5, <3>1 DEF EntriesOf
  <2>7. \A i, j \in 0 .. last + 2 :
           i % 2 = 0 /\ j % 2 = 0 /\ i < j => Word(n, p, i + 1) <= Word(n, p, j)
    <3>. SUFFICES ASSUME NEW i \in 0 .. last + 2, NEW j \in 0 .. last + 2,
                         i % 2 = 0, j % 2 = 0, i < j
                  PROVE  Word(n, p, i + 1) <= Word(n, p, j)
      OBVIOUS
    <3>1. (i \in 0 .. last \/ i = last + 1) /\ (j \in 0 .. last \/ j = last + 1)
      BY <2>5
    <3>2. i \in 0 .. last
      BY <1>3, <3>1
    <3>3. CASE j = last + 1
      BY <2>1, <2>3, <3>2, <3>3
    <3>4. CASE j \in 0 .. last
      BY <2>2, <3>2, <3>4 DEF EntriesOf
    <3>. QED
      BY <3>1, <3>3, <3>4
  <2>. QED
    BY <1>3, <2>4, <2>6, <2>7 DEF EntriesOf
<1>14. EntriesInv'
  <2>1. /\ vm_mem_pool_cur' \in [Pools -> Int] /\ vm_mem_pool_cur'[p] = last + 2
        /\ \A q \in Pools : q # p => vm_mem_pool_cur'[q] = vm_mem_pool_cur[q]
    BY <1>1, <1>2, <1>3 DEF EntriesInv
  <2>. QED
    BY <1>2, <1>12, <1>13, <2>1 DEF EntriesInv
<1>15. /\ \A q \in Pools : vm_mem_pool_cur[q] \in Int /\ vm_mem_pool_cur'[q] \in Int
       /\ \A q \in Pools : vm_mem_pool_cur[q] <= vm_mem_pool_cur'[q]
       /\ vm_mem_pool_cur'[p] = last + 2
  BY <1>1, <1>2, <1>3 DEF EntriesInv, last
<1>16. ASSUME NEW t \in regions PROVE RegionOf(n, vm_mem_pool_cur'[t.pool], t)
  <2>1. /\ RegionOf(machine, vm_mem_pool_cur[t.pool], t) /\ t.pool \in Pools
    BY <1>1 DEF RegionsInv, RegionOf, RegionType
  <2>2. ASSUME NEW a \in Cells(t) PROVE a \in Space /\ a # b /\ a # c
    <3>1. a \in Space
      BY <1>1, <2>1, RegionFacts
    <3>2. a # Base[p] + (last + 1) /\ a # Base[p] + (last + 2)
      BY <1>1, <1>3, RegionNotBook
    <3>. QED
      BY <1>6, <3>1, <3>2 DEF b
  <2>3. \A a \in Cells(t) : Mapped(machine, a) => Mapped(n, a) /\ Load(n, a) = Load(machine, a)
    BY <1>10, <2>2
  <2>. QED
    BY <1>1, <1>11, <1>15, <2>1, <2>3, KeptRegion
<1>17. RegionOf(n, last + 2, r)
  <2>1. /\ r \in RegionType /\ r.size \in Sizes[r.pool] /\ r.pool = p /\ r.entry = last + 1
        /\ r.start = s /\ r.size = size /\ r.value = Unfilled
    <3>1. size \in Nat /\ Unfilled = -1
      BY PoolsAssumption DEF Unfilled
    <3>. QED
      BY <1>3, <1>4, <3>1 DEF RegionType
  <2>. HIDE DEF r
  <2>2. last + 1 \in 0 .. last + 2 /\ (last + 1) + 1 = last + 2
    BY <1>3 DEF Words
  <2>3. Word(n, p, last + 1) = s /\ Word(n, p, last + 2) = e
    BY <1>6, <1>9, <1>10 DEF Word, b
  <2>. QED
    BY <1>3, <1>5, <2>1, <2>2, <2>3 DEF RegionOf
<1>18. RegionsInv'
  <2>1. \A t \in regions : t.pool = p => t.entry < last + 1 /\ t.entry \in Int
    <3>. SUFFICES ASSUME NEW t \in regions, t.pool = p PROVE t.entry < last + 1 /\ t.entry \in Int
      OBVIOUS
    <3>1. t.entry \in 0 .. last
      BY <1>1 DEF RegionsInv, RegionOf, last
    <3>. QED
      BY <1>3, <3>1
  <2>2. r.pool = p /\ r.entry = last + 1
    OBVIOUS
  <2>. HIDE DEF r
  <2>3. \A t \in regions' : RegionOf(machine', vm_mem_pool_cur'[t.pool], t)
    BY <1>2, <1>15, <1>16, <1>17, <2>2
  <2>4. \A t, u \in regions' : t.pool = u.pool /\ t.entry = u.entry => t = u
    <3>1. \A t \in regions : ~(t.pool = r.pool /\ t.entry = r.entry)
      BY <1>3, <2>1, <2>2
    <3>. QED
      BY <1>1, <1>2, <3>1 DEF RegionsInv
  <2>. QED
    BY <2>3, <2>4 DEF RegionsInv
<1>. QED
  BY <1>2, <1>9, <1>14, <1>18 DEF MemoryInv

-----------------------------------------------------------------------------
(***************************************************************************)
(* Fill and Release: no step touches a word of the bookkeeping, nor of a   *)
(* region of another client.                                               *)
(***************************************************************************)
LEMMA KeptBooks ==
    ASSUME MemoryInv, NEW n,
           \A p \in Pools, i \in Words :
              Mapped(machine, Base[p] + i) =>
                 Mapped(n, Base[p] + i) /\ Load(n, Base[p] + i) = Load(machine, Base[p] + i)
    PROVE  /\ \A p \in Pools : EntriesOf(n, vm_mem_pool_cur[p], p)
           /\ \A p \in Pools : vm_mem_pool_cur[p] \in Ends
           /\ \A p \in Pools : \A i \in 0 .. vm_mem_pool_cur[p] : Word(n, p, i) = Word(machine, p, i)
<1>1. \A p \in Pools : EntriesOf(machine, vm_mem_pool_cur[p], p) /\ vm_mem_pool_cur[p] \in Ends
  BY DEF MemoryInv, EntriesInv, EntriesOf
<1>2. ASSUME NEW p \in Pools, NEW i \in 0 .. vm_mem_pool_cur[p]
      PROVE  Mapped(n, Base[p] + i) /\ Word(n, p, i) = Word(machine, p, i)
  <2>1. i \in Words /\ Mapped(machine, Base[p] + i)
    BY <1>1, EndNumbers DEF EntriesOf
  <2>. QED
    BY <2>1 DEF Word
<1>3. \A p \in Pools : EntriesOf(n, vm_mem_pool_cur[p], p)
  BY <1>1, <1>2, KeptEntries
<1>. QED
  BY <1>1, <1>2, <1>3

LEMMA FillStep ==
    ASSUME CarefulClients, MemoryInv, NEW r \in regions, NEW v \in Values[r.pool], Fill(r, v),
           machine'.free # {}
    PROVE  MemoryInv'
<1>. DEFINE n == Filled(r, v)
            t == [r EXCEPT !.value = v]
<1>1. /\ MachineInv(machine) /\ EntriesInv /\ RegionsInv /\ PoolsApart
      /\ RegionOf(machine, vm_mem_pool_cur[r.pool], r) /\ r \in RegionType
      /\ r.pool \in Pools /\ EntriesOf(machine, vm_mem_pool_cur[r.pool], r.pool)
  BY DEF MemoryInv, EntriesInv, RegionsInv, CarefulClients, RegionOf, RegionType
<1>2. /\ machine' = n /\ regions' = (regions \ {r}) \cup {t} /\ vm_mem_pool_cur' = vm_mem_pool_cur
      /\ n.free # {}
  BY DEF Fill
<1>3. /\ v \in Nat /\ ~Present(v) /\ r.start \in Nat /\ r.size \in Nat /\ Cells(r) \subseteq Space
  <2>1. v \in Nat /\ ~Present(v)
    BY <1>1, PoolsAssumption DEF CarefulClients, CleanValues
  <2>2. r.start \in Nat /\ r.size \in Nat /\ Cells(r) \subseteq Space
    BY <1>1, RegionFacts
  <2>. QED
    BY <2>1, <2>2
<1>. HIDE DEF n
<1>4. /\ MachineInv(n)
      /\ \A a \in Cells(r) : Mapped(n, a) /\ Load(n, a) = v
      /\ \A b \in Space \ Cells(r) :
            Mapped(machine, b) => Mapped(n, b) /\ Load(n, b) = Load(machine, b)
  BY <1>1, <1>2, <1>3, FilledFacts DEF n
<1>5. ASSUME NEW p \in Pools, NEW i \in Words, Mapped(machine, Base[p] + i)
      PROVE  Mapped(n, Base[p] + i) /\ Load(n, Base[p] + i) = Load(machine, Base[p] + i)
  <2>1. Base[p] + i \in Space
    BY <1>1, BookFacts
  <2>2. Base[p] + i \notin Cells(r)
    BY <1>1, RegionNotBook
  <2>. QED
    BY <1>4, <1>5, <2>1, <2>2
<1>6. /\ \A p \in Pools : EntriesOf(n, vm_mem_pool_cur[p], p)
      /\ \A p \in Pools : vm_mem_pool_cur[p] \in Ends
      /\ \A p \in Pools : \A i \in 0 .. vm_mem_pool_cur[p] : Word(n, p, i) = Word(machine, p, i)
  BY <1>5, KeptBooks
<1>7. ASSUME NEW s \in regions, s # r PROVE RegionOf(n, vm_mem_pool_cur[s.pool], s)
  <2>1. /\ RegionOf(machine, vm_mem_pool_cur[s.pool], s) /\ s.pool \in Pools
        /\ EntriesOf(machine, vm_mem_pool_cur[s.pool], s.pool)
    BY <1>1 DEF EntriesInv, RegionsInv, RegionOf, RegionType
  <2>2. ASSUME NEW a \in Cells(s) PROVE a \in Space \ Cells(r)
    <3>1. a \in Space
      BY <2>1, RegionFacts
    <3>2. a \notin Cells(r)
      BY <1>1, <1>7, RegionsApart
    <3>. QED
      BY <3>1, <3>2
  <2>3. \A a \in Cells(s) : Mapped(machine, a) => Mapped(n, a) /\ Load(n, a) = Load(machine, a)
    BY <1>4, <2>2
  <2>4. vm_mem_pool_cur[s.pool] \in Int /\ vm_mem_pool_cur[s.pool] <= vm_mem_pool_cur[s.pool]
    BY <1>6, <2>1, EndNumbers
  <2>. QED
    BY <1>6, <2>1, <2>3, <2>4, KeptRegion
<1>8. /\ t \in RegionType /\ t.pool = r.pool /\ t.entry = r.entry /\ t.start = r.start
      /\ t.size = r.size /\ t.value = v
  BY <1>1, <1>3 DEF RegionType
<1>. HIDE DEF t
<1>9. RegionOf(n, vm_mem_pool_cur[t.pool], t)
  <2>1. Cells(t) = Cells(r)
    BY <1>8 DEF Cells
  <2>2. r.entry \in 0 .. vm_mem_pool_cur[r.pool] /\ r.entry + 1 \in 0 .. vm_mem_pool_cur[r.pool]
    BY <1>1, <1>6, EndNumbers DEF RegionOf
  <2>3. /\ Word(n, r.pool, r.entry) = Word(machine, r.pool, r.entry)
        /\ Word(n, r.pool, r.entry + 1) = Word(machine, r.pool, r.entry + 1)
    BY <1>1, <1>6, <2>2
  <2>4. \A a \in Cells(t) : Mapped(n, a) /\ Load(n, a) = t.value
    BY <1>4, <1>8, <2>1
  <2>. QED
    BY <1>1, <1>8, <2>3, <2>4 DEF RegionOf
<1>10. EntriesInv'
  BY <1>1, <1>2, <1>6 DEF EntriesInv
<1>11. RegionsInv'
  <2>1. \A s \in regions' : RegionOf(machine', vm_mem_pool_cur'[s.pool], s)
    BY <1>2, <1>7, <1>9
  <2>2. \A s, u \in regions' : s.pool = u.pool /\ s.entry = u.entry => s = u
    BY <1>1, <1>2, <1>8 DEF RegionsInv
  <2>. QED
    BY <2>1, <2>2 DEF RegionsInv
<1>. QED
  BY <1>2, <1>4, <1>10, <1>11 DEF MemoryInv

\* release finds the entry of the region it is given.
LEMMA OwnEntry ==
    ASSUME MemoryInv, NEW r \in regions
    PROVE  EntryOf(r.pool, r.start) = r.entry
<1>. DEFINE p == r.pool
            last == vm_mem_pool_cur[p]
            T == {i \in 0 .. last : i % 2 = 0 /\ Load(machine, Base[p] + i) = r.start}
<1>1. /\ RegionOf(machine, last, r) /\ p \in Pools /\ EntriesOf(machine, last, p) /\ last \in Ends
  BY DEF MemoryInv, EntriesInv, RegionsInv, RegionOf, RegionType, EntriesOf
<1>2. r.entry \in 0 .. last /\ r.entry % 2 = 0 /\ Word(machine, p, r.entry) = r.start
  BY <1>1 DEF RegionOf
<1>3. ASSUME NEW i \in 0 .. last, NEW j \in 0 .. last, i % 2 = 0, j % 2 = 0, i < j
      PROVE  Word(machine, p, i) < Word(machine, p, j)
  <2>1. i + 1 \in 0 .. last
    BY <1>1, <1>3, EndNumbers
  <2>2. /\ Word(machine, p, i) < Word(machine, p, i + 1)
        /\ Word(machine, p, i + 1) <= Word(machine, p, j)
        /\ Word(machine, p, i) \in Nat /\ Word(machine, p, j) \in Nat
        /\ Word(machine, p, i + 1) \in Nat
    BY <1>1, <1>3, <2>1 DEF EntriesOf
  <2>. QED
    BY <2>2
<1>4. ASSUME NEW i \in T PROVE i = r.entry
  <2>1. i \in 0 .. last /\ i % 2 = 0 /\ Word(machine, p, i) = Word(machine, p, r.entry)
    BY <1>2 DEF Word
  <2>2. Word(machine, p, i) \in Nat
    BY <1>1, <2>1 DEF EntriesOf
  <2>3. ~(i < r.entry) /\ ~(r.entry < i)
    <3>. HIDE DEF T
    <3>1. ~(i < r.entry)
      BY <1>2, <1>3, <2>1, <2>2
    <3>2. ~(r.entry < i)
      BY <1>2, <1>3, <2>1, <2>2
    <3>. QED
      BY <3>1, <3>2
  <2>. QED
    BY <1>2, <2>1, <2>3
<1>5. T = {r.entry}
  BY <1>2, <1>4 DEF Word
<1>6. EntryOf(p, r.start) = Min(T)
  BY DEF EntryOf
<1>7. Min({r.entry}) = r.entry
  BY <1>2 DEF Min
<1>. QED
  BY <1>5, <1>6, <1>7

\* The pages of a region that release frees lie wholly in it.
LEMMA FreedCells ==
    ASSUME CarefulClients, NEW m, NEW last, NEW r, RegionOf(m, last, r), EntriesOf(m, last, r.pool),
           NEW pages \in Nat, pages < NumPages(r.size), NEW k \in 0 .. pages - 1
    PROVE  LET a == r.start + k * PageSize
           IN  a \in Cells(r) /\ PageNo(a) = PageNo(r.start) + k
<1>. DEFINE a == r.start + k * PageSize
            n == NumPages(r.size)
            q == PageNo(r.start)
            z == k * PageSize
            y == (n - 1) * PageSize
<1>1. /\ r.start \in Nat /\ r.size \in Nat /\ r.start % PageSize = 1
      /\ n \in Nat /\ n > 1 /\ y <= r.size
  BY RegionFacts
<1>2. PageSize \in Nat /\ PageSize > 3
  BY PageNumbers
<1>. HIDE DEF n
<1>3. k \in Nat /\ k < n - 1 /\ n - 1 \in Nat
  <2>1. pages < n
    BY DEF n
  <2>. QED
    BY <1>1, <2>1
<1>4. z \in Nat /\ y \in Nat /\ z < y
  <2>1. \A w, c, d \in Nat : w > 0 /\ c < d => c * w < d * w /\ c * w \in Nat /\ d * w \in Nat
    OBVIOUS
  <2>. QED
    BY <1>2, <1>3, <2>1
<1>5. a \in Cells(r)
  <2>. HIDE DEF z, y
  <2>. QED
    BY <1>1, <1>4 DEF Cells, z
<1>6. PageNo(a) = q + k
  <2>1. q \in Nat /\ r.start = q * PageSize + 1
    BY <1>1, AddressParts DEF PageNo, Offset
  <2>. HIDE DEF q
  <2>2. PageSize * (q + k) = q * PageSize + z /\ q * PageSize \in Nat /\ q + k \in Nat
    BY <1>2, <1>3, <2>1
  <2>. DEFINE x == q * PageSize
  <2>3. a = (x + z) + 1
    <3>1. a = r.start + z /\ r.start = x + 1 /\ x \in Nat
      BY <2>1, <2>2
    <3>. HIDE DEF x, z, a
    <3>. QED
      BY <1>4, <3>1
  <2>4. a = PageSize * (q + k) + 1 /\ 1 \in 0 .. PageSize - 1
    BY <1>2, <2>2, <2>3
  <2>. HIDE DEF a
  <2>. QED
    BY <1>2, <2>2, <2>4, DivUnique DEF PageNo
<1>. QED
  BY <1>5, <1>6

LEMMA ReleaseStep ==
    ASSUME CarefulClients, MemoryInv, NEW r \in regions, Release(r)
    PROVE  MemoryInv'
<1>. DEFINE p == r.pool
            s == r.start
            k == NumPages(r.size)
            freed == FreedPages(k)
            n == Released(s, freed)
<1>1. /\ MachineInv(machine) /\ EntriesInv /\ RegionsInv /\ PoolsApart /\ ~ReleasesUnfilled
      /\ RegionOf(machine, vm_mem_pool_cur[p], r) /\ r \in RegionType
      /\ p \in Pools /\ EntriesOf(machine, vm_mem_pool_cur[p], p)
  BY DEF MemoryInv, EntriesInv, RegionsInv, CarefulClients, RegionOf, RegionType
<1>2. /\ s \in Nat /\ k \in Nat /\ k > 1 /\ Cells(r) \subseteq Space
      /\ PageNo(Base[p]) < PageNo(s)
      /\ \A a \in Cells(r) : /\ a \in Nat /\ InPool(p, a) /\ PageNo(s) <= PageNo(a)
                             /\ PageNo(a) < PageNo(s) + k
  BY <1>1, RegionFacts
<1>3. freed \in Nat /\ freed < k
  BY <1>2, FreedPagesBound
<1>4. Load(machine, Base[p] + r.entry + 1) = s + k * PageSize
  <2>1. Base[p] \in Nat /\ r.entry \in Nat
    BY <1>1, PoolFacts DEF RegionOf
  <2>2. Base[p] + r.entry + 1 = Base[p] + (r.entry + 1)
    BY <2>1
  <2>. QED
    BY <1>1, <2>2 DEF RegionOf, Word
<1>5. ((s + k * PageSize) - s) \div PageSize = k
  <2>1. k * PageSize \in Nat /\ k * PageSize = PageSize * k + 0 /\ 0 \in 0 .. PageSize - 1
    BY <1>2, PageNumbers
  <2>2. (s + k * PageSize) - s = k * PageSize
    BY <1>2, <2>1
  <2>. QED
    BY <1>2, <2>1, <2>2, PageNumbers, DivUnique
<1>6. /\ machine' = n /\ regions' = regions \ {r} /\ vm_mem_pool_cur' = vm_mem_pool_cur
      /\ r.value # Unfilled
  BY <1>1, <1>4, <1>5, OwnEntry DEF Release
<1>7. \A j \in 0 .. freed - 1 : s + j * PageSize \in Cells(r) /\ PageNo(s + j * PageSize) = PageNo(s) + j
  BY <1>1, <1>3, FreedCells
<1>. HIDE DEF k, freed
<1>8. ASSUME NEW j \in 0 .. freed - 1
      PROVE  LET a == s + j * PageSize
             IN  a \in Space /\ Mapped(machine, a) /\ ~IsBook(PDIndex(a), PTIndex(a))
  <2>. DEFINE a == s + j * PageSize
  <2>1. a \in Cells(r)
    BY <1>7
  <2>. HIDE DEF a
  <2>2. a \in Space /\ a \in Nat /\ InPool(p, a)
    BY <1>2, <2>1
  <2>3. Mapped(machine, a)
    BY <1>1, <1>6, <2>1 DEF RegionOf
  <2>4. PageNo(a) # PageNo(Base[p])
    <3>1. 0 \in Words
      BY SlotNumbers
    <3>. QED
      BY <1>1, <2>1, <3>1, RegionNotBook
  <2>5. ~IsBook(PDIndex(a), PTIndex(a))
    BY <1>1, <2>2, <2>4, NotBook
  <2>. QED
    BY <2>2, <2>3, <2>5 DEF a
<1>. HIDE DEF n
<1>9. /\ MachineInv(n)
      /\ \A b \in Space :
            Mapped(machine, b) /\ (\A j \in 0 .. freed - 1 : PageNo(b) # PageNo(s) + j)
            => Mapped(n, b) /\ Load(n, b) = Load(machine, b)
  BY <1>1, <1>2, <1>3, <1>8, ReleasedFacts DEF n, PageNo
<1>10. ASSUME NEW b \in Space, \A a \in Cells(r) : PageNo(b) # PageNo(a), Mapped(machine, b)
       PROVE  Mapped(n, b) /\ Load(n, b) = Load(machine, b)
  <2>1. \A j \in 0 .. freed - 1 : PageNo(b) # PageNo(s) + j
    BY <1>7, <1>10
  <2>. QED
    BY <1>9, <1>10, <2>1
<1>11. ASSUME NEW q \in Pools, NEW i \in Words, Mapped(machine, Base[q] + i)
       PROVE  Mapped(n, Base[q] + i) /\ Load(n, Base[q] + i) = Load(machine, Base[q] + i)
  <2>1. Base[q] + i \in Space
    BY <1>1, BookFacts
  <2>2. \A a \in Cells(r) : PageNo(Base[q] + i) # PageNo(a)
    BY <1>1, RegionNotBook
  <2>. QED
    BY <1>10, <1>11, <2>1, <2>2
<1>12. /\ \A q \in Pools : EntriesOf(n, vm_mem_pool_cur[q], q)
       /\ \A q \in Pools : vm_mem_pool_cur[q] \in Ends
       /\ \A q \in Pools : \A i \in 0 .. vm_mem_pool_cur[q] : Word(n, q, i) = Word(machine, q, i)
  BY <1>11, KeptBooks
<1>13. ASSUME NEW t \in regions, t # r PROVE RegionOf(n, vm_mem_pool_cur[t.pool], t)
  <2>1. /\ RegionOf(machine, vm_mem_pool_cur[t.pool], t) /\ t.pool \in Pools
        /\ EntriesOf(machine, vm_mem_pool_cur[t.pool], t.pool)
    BY <1>1 DEF EntriesInv, RegionsInv, RegionOf, RegionType
  <2>2. ASSUME NEW b \in Cells(t) PROVE b \in Space /\ \A a \in Cells(r) : PageNo(b) # PageNo(a)
    <3>1. b \in Space
      BY <2>1, RegionFacts
    <3>2. \A a \in Cells(r) : PageNo(b) # PageNo(a)
      BY <1>1, <1>13, RegionsApart
    <3>. QED
      BY <3>1, <3>2
  <2>3. \A b \in Cells(t) : Mapped(machine, b) => Mapped(n, b) /\ Load(n, b) = Load(machine, b)
    BY <1>10, <2>2
  <2>4. vm_mem_pool_cur[t.pool] \in Int /\ vm_mem_pool_cur[t.pool] <= vm_mem_pool_cur[t.pool]
    BY <1>12, <2>1, EndNumbers
  <2>. QED
    BY <1>12, <2>1, <2>3, <2>4, KeptRegion
<1>14. EntriesInv'
  BY <1>1, <1>6, <1>12 DEF EntriesInv
<1>15. RegionsInv'
  BY <1>1, <1>6, <1>13 DEF RegionsInv
<1>. QED
  BY <1>6, <1>9, <1>14, <1>15 DEF MemoryInv

LEMMA NextMemory ==
    ASSUME CarefulClients, MemoryInv, FramesLeft', [Next]_vars
    PROVE  MemoryInv'
<1>. machine'.free # {}
  BY DEF FramesLeft
<1>1. CASE \E p \in Pools : \E size \in Sizes[p] : Allocate(p, size)
  BY <1>1, AllocateStep
<1>2. CASE \E r \in regions : Release(r)
  BY <1>2, ReleaseStep
<1>3. CASE \E r \in regions : \E v \in Values[r.pool] : Fill(r, v)
  BY <1>3, FillStep
<1>4. CASE UNCHANGED vars
  <2>1. machine' = machine /\ vm_mem_pool_cur' = vm_mem_pool_cur /\ regions' = regions
    BY <1>4 DEF vars
  <2>2. EntriesInv'
    BY <2>1 DEF MemoryInv, EntriesInv
  <2>3. RegionsInv'
    BY <2>1 DEF MemoryInv, RegionsInv
  <2>. QED
    BY <2>1, <2>2, <2>3 DEF MemoryInv
<1>. QED
  BY <1>1, <1>2, <1>3, <1>4 DEF Next

LEMMA AlwaysMemory ==
    ASSUME CarefulClients PROVE Spec /\ []FramesLeft => []MemoryInv
<1>1. MemoryInv /\ FramesLeft' /\ [Next]_vars => MemoryInv'
  BY NextMemory
<1>. QED
  BY <1>1, InitMemory, PTL DEF Spec

-----------------------------------------------------------------------------
(***************************************************************************)
(* Memory, page tables, the indices of the pools (vm_pool.C) and the       *)
(* regions keep their types: no entry ever holds a number that is not one, *)
(* and no index leaves the first page of its pool.                         *)
(***************************************************************************)
THEOREM TypeCorrect ==
    ASSUME CarefulClients PROVE Spec /\ []FramesLeft => []TypeOK
<1>1. MemoryInv => TypeOK
  <2>. SUFFICES ASSUME MemoryInv PROVE TypeOK
    OBVIOUS
  <2>1. machine \in Machines
    BY DEF MemoryInv, MachineInv
  <2>2. vm_mem_pool_cur \in [Pools -> Ends]
    BY DEF MemoryInv, EntriesInv, EntriesOf
  <2>3. regions \subseteq RegionType
    BY DEF MemoryInv, RegionsInv, RegionOf
  <2>. QED
    BY <2>1, <2>2, <2>3 DEF TypeOK, Machines, Ends, RegionType
<1>. QED
  BY <1>1, AlwaysMemory, PTL

\* The references to a frame are the live slots that it owns.
LEMMA ReferenceSlots ==
    ASSUME MachineInv(machine), NEW f
    PROVE  \A x : x \in References(f) <=>
              \E t \in Rows, i \in Words :
                 x = <<t, i>> /\ Live(machine, t, i) /\ Owner(machine, t, i) = f
<1>1. \A t : t \in Tables <=> t \in TableRows /\ Live(machine, 0, t)
  BY TableFacts DEF Tables, TableRows
<1>2. \A t \in TableRows : /\ t \in Rows /\ t \in Words /\ t # 0
                           /\ TableFrame(t) = TableOf(machine, t)
                           /\ TableFrame(t) = Owner(machine, 0, t)
  BY TableFacts, SlotNumbers DEF TableOf, TableFrame
<1>3. \A t \in TableRows, i \in Words :
         /\ Live(machine, t, i) <=> Live(machine, 0, t) /\ Present(machine.memory[TableFrame(t)][i])
         /\ Owner(machine, t, i) = FrameIn(machine.memory[TableFrame(t)][i])
  BY <1>2, TableFacts DEF Live, Owner, SlotWord
<1>4. ASSUME NEW x, x \in References(f)
      PROVE  \E t \in Rows, i \in Words :
                x = <<t, i>> /\ Live(machine, t, i) /\ Owner(machine, t, i) = f
  <2>1. CASE x \in {<<0, d>> : d \in {t \in Tables : TableFrame(t) = f}}
    <3>1. PICK d \in Tables : TableFrame(d) = f /\ x = <<0, d>>
      BY <2>1
    <3>. QED
      BY <1>1, <1>2, <3>1, SlotNumbers
  <2>2. CASE x \in {y \in PageEntries : FrameIn(machine.memory[TableFrame(y[1])][y[2]]) = f}
    <3>1. PICK t \in Tables, i \in Words :
             /\ x = <<t, i>> /\ Present(machine.memory[TableFrame(t)][i])
             /\ FrameIn(machine.memory[TableFrame(t)][i]) = f
      BY <2>2 DEF PageEntries
    <3>. QED
      BY <1>1, <1>2, <1>3, <3>1
  <2>. QED
    BY <1>4, <2>1, <2>2 DEF References
<1>5. ASSUME NEW t \in Rows, NEW i \in Words, Live(machine, t, i), Owner(machine, t, i) = f
      PROVE  <<t, i>> \in References(f)
  <2>1. CASE t = 0
    <3>1. i \in TableRows
      BY <1>5, <2>1 DEF Live
    <3>2. i \in Tables /\ TableFrame(i) = f
      BY <1>1, <1>2, <1>5, <2>1, <3>1
    <3>. QED
      BY <2>1, <3>2 DEF References
  <2>2. CASE t # 0
    <3>1. t \in TableRows /\ Live(machine, 0, t)
      BY <1>5, <2>2, SlotNumbers, TableFacts DEF Live
    <3>2. /\ t \in Tables /\ Present(machine.memory[TableFrame(t)][i])
          /\ FrameIn(machine.memory[TableFrame(t)][i]) = f
      BY <1>1, <1>3, <1>5, <3>1
    <3>3. <<t, i>> \in PageEntries
      BY <3>2 DEF PageEntries
    <3>. QED
      BY <3>2, <3>3 DEF References
  <2>. QED
    BY <2>1, <2>2
<1>. QED
  BY <1>4, <1>5

(***************************************************************************)
(* A frame of the process pool is free, or exactly one entry leads to it:  *)
(* handle_fault and free_page (page_table.C) never leak a frame, map one   *)
(* twice or leave an entry to a frame they gave back, for all interleavings*)
(* of the pools' clients.                                                  *)
(***************************************************************************)
THEOREM FramesMappedOnce ==
    ASSUME CarefulClients PROVE Spec /\ []FramesLeft => []FramesOnce
<1>1. MemoryInv => FramesOnce
  <2>. SUFFICES ASSUME MemoryInv, NEW f \in Process
                PROVE  Cardinality(References(f)) = IF f \in machine.free THEN 0 ELSE 1
    BY DEF FramesOnce
  <2>1. /\ MachineInv(machine) /\ OwnersHeld(machine) /\ OwnersApart(machine) /\ AllOwned(machine)
    BY DEF MemoryInv, MachineInv
  <2>2. \A x : x \in References(f) <=>
           \E t \in Rows, i \in Words :
              x = <<t, i>> /\ Live(machine, t, i) /\ Owner(machine, t, i) = f
    BY <2>1, ReferenceSlots
  <2>3. CASE f \in machine.free
    <3>1. \A t \in Rows, i \in Words : ~(Live(machine, t, i) /\ Owner(machine, t, i) = f)
      BY <2>1, <2>3 DEF OwnersHeld
    <3>2. References(f) = {}
      BY <2>2, <3>1
    <3>. QED
      BY <2>3, <3>2, FS_EmptySet
  <2>4. CASE f \notin machine.free
    <3>1. PICK t \in Rows, i \in Words : Live(machine, t, i) /\ Owner(machine, t, i) = f
      BY <2>1, <2>4 DEF AllOwned
    <3>2. \A u \in Rows, j \in Words :
             Live(machine, u, j) /\ Owner(machine, u, j) = f => u = t /\ j = i
      BY <2>1, <3>1 DEF OwnersApart
    <3>3. References(f) = {<<t, i>>}
      BY <2>2, <3>1, <3>2
    <3>. QED
      BY <2>4, <3>3, FS_Singleton
  <2>. QED
    BY <2>3, <2>4
<1>. QED
  BY <1>1, AlwaysMemory, PTL

(***************************************************************************)
(* Careful clients of any number of pools, each with any number of regions *)
(* at a time, read in a region what they wrote there, in whatever order    *)
(* they allocate, fill and release regions (vm_pool.C) while frames last.  *)
(* Regions below a page, whole tables, and words that a later page table   *)
(* would take for entries are left out, and break it.                      *)
(***************************************************************************)
THEOREM CarefulRegionsKeepData ==
    ASSUME CarefulClients PROVE Spec /\ []FramesLeft => []DataKept
<1>1. MemoryInv => DataKept
  BY DEF MemoryInv, RegionsInv, RegionOf, DataKept
<1>. QED
  BY <1>1, AlwaysMemory, PTL

(***************************************************************************)
(* If every region is filled before it is released, its release            *)
(* (vm_pool.C, page_table.C), which frees about half of its pages, gives   *)
(* the frame pool back only frames that are out, whatever the other        *)
(* regions do: none hits an assertion of release_frames.  Of a page that   *)
(* was never touched, whose release does hit it, nothing is said.          *)
(***************************************************************************)
THEOREM FilledReleasesNeverHalt ==
    ASSUME CarefulClients PROVE Spec /\ []FramesLeft => []NeverHalts
<1>1. MemoryInv => NeverHalts
  BY DEF MemoryInv, MachineInv, NeverHalts
<1>. QED
  BY <1>1, AlwaysMemory, PTL

-----------------------------------------------------------------------------
(***************************************************************************)
(* A frame, or 0, is entered for a page: no other page changes.  That the  *)
(* frame is 0 when none is left does not matter here.                      *)
(***************************************************************************)
LEMMA PageEntered ==
    ASSUME NEW m, MachineInv(m), NEW t \in TableRows, NEW i \in Words, Live(m, 0, t)
    PROVE  LET n == Put(Without(m), TableOf(m, t), i, Entry(Taken(m)))
           IN  /\ Live(n, t, i)
               /\ \A u \in TableRows, j \in Words : u # t \/ j # i => SameSlot(m, n, u, j)
<1>. DEFINE f == Taken(m)
            h == TableOf(m, t)
            x == Without(m)
            n == Put(x, h, i, Entry(f))
<1>1. /\ m \in Machines /\ t \in Rows /\ t \in Words /\ t # 0 /\ h \in Process /\ h \in Frames
      /\ h # Directory /\ Directory \in Frames
  BY TableFacts, SlotNumbers, PageNumbers
<1>2. x \in Machines /\ x.memory = m.memory
  <2>1. m.free \ {f} \in SUBSET Process
    BY <1>1 DEF Machines
  <2>. HIDE DEF f
  <2>. QED
    BY <1>1, <2>1 DEF Without, Machines, f
<1>3. f \in Nat
  <2>1. CASE m.free = {}
    BY <2>1 DEF Taken
  <2>2. CASE m.free # {}
    BY <1>1, <2>2, TakenFacts, SlotTypes, PageNumbers
  <2>. QED
    BY <2>1, <2>2
<1>4. Entry(f) \in Nat /\ Present(Entry(f))
  BY <1>3, EntryFacts
<1>. HIDE DEF x, f
<1>5. \A g \in Frames, c \in Words :
         n.memory[g][c] = IF g = h /\ c = i THEN Entry(f) ELSE m.memory[g][c]
  BY <1>1, <1>2, <1>4, PutFacts
<1>. HIDE DEF n, h
<1>6. \A u \in TableRows : /\ u \in Words /\ u # 0
                           /\ n.memory[Directory][u] = m.memory[Directory][u]
                           /\ TableOf(n, u) = TableOf(m, u)
  BY <1>1, <1>5, SlotNumbers DEF TableOf
<1>7. Live(n, t, i)
  <2>1. Present(n.memory[Directory][t]) /\ TableOf(n, t) = h
    BY <1>6, TableFacts DEF h
  <2>2. n.memory[h][i] = Entry(f)
    BY <1>1, <1>5
  <2>. QED
    BY <1>1, <1>4, <2>1, <2>2 DEF Live, SlotWord
<1>8. ASSUME NEW u \in TableRows, NEW j \in Words, u # t \/ j # i
      PROVE  SameSlot(m, n, u, j)
  <2>1. CASE ~Live(m, 0, u)
    <3>1. ~Present(m.memory[Directory][u]) /\ ~Present(n.memory[Directory][u]) /\ u # 0
      BY <1>6, <2>1, TableFacts
    <3>2. ~Live(m, u, j) /\ ~Live(n, u, j)
      BY <3>1 DEF Live
    <3>. QED
      BY <3>2 DEF SameSlot
  <2>2. CASE Live(m, 0, u)
    <3>. DEFINE g == TableOf(m, u)
    <3>1. g \in Frames /\ (g # h \/ j # i)
      <4>1. g \in Process /\ (u # t => g # h)
        BY <2>2, TableFacts DEF h
      <4>. QED
        BY <1>8, <4>1, PageNumbers
    <3>. HIDE DEF g
    <3>2. n.memory[g][j] = m.memory[g][j]
      BY <1>5, <3>1
    <3>3. SlotWord(n, u, j) = SlotWord(m, u, j)
      BY <1>6, <3>2 DEF SlotWord, g
    <3>. QED
      BY <1>6, <3>3 DEF SameSlot, Live, Owner
  <2>. QED
    BY <2>1, <2>2
<1>. QED
  BY <1>7, <1>8 DEF n, h, x, f

LEMMA FaultIsLocalHere ==
    ASSUME MachineInv(machine), machine.free # {}, NEW a \in Space, ~Mapped(machine, a)
    PROVE  LET m == Fault(machine, a)
           IN  /\ Mapped(m, a)
               /\ \A b \in Space : PageNo(b) # PageNo(a) =>
                     /\ Mapped(m, b) <=> Mapped(machine, b)
                     /\ Mapped(m, b) => FrameAt(m, b) = FrameAt(machine, b)
<1>. DEFINE t == PDIndex(a)
            i == PTIndex(a)
            x == WithTable(machine, a)
            m == Fault(machine, a)
<1>1. t \in TableRows /\ t \in Rows /\ t # 0 /\ i \in Words /\ ~Live(machine, t, i) /\ a \in Nat
  BY Translation
<1>2. /\ MachineInv(x) /\ Live(x, 0, t)
      /\ \A u \in TableRows, j \in Words : SameSlot(machine, x, u, j)
  <2>1. CASE Live(machine, 0, t)
    <3>1. x = machine
      BY <1>1, <2>1, TableFacts DEF WithTable, PDE
    <3>. QED
      BY <2>1, <3>1 DEF SameSlot
  <2>2. CASE ~Live(machine, 0, t)
    <3>1. x = Put(Without(machine), Directory, t, Entry(Taken(machine)))
      BY <1>1, <2>2, TableFacts DEF WithTable, PDE
    <3>. HIDE DEF x, t, i
    <3>2. /\ MachineInv(x) /\ Live(x, 0, t)
          /\ \A u \in Rows, j \in Words : u # 0 \/ j # t => SameSlot(machine, x, u, j)
      BY <1>1, <2>2, <3>1, NewTable
    <3>. QED
      BY <3>2, SlotNumbers
  <2>. QED
    BY <2>1, <2>2
<1>3. m = Put(Without(x), TableOf(x, t), i, Entry(Taken(x)))
  BY <1>1 DEF Fault, WithPage, TableOf, PDE
<1>. HIDE DEF x, m, t, i
<1>4. /\ Live(m, t, i)
      /\ \A u \in TableRows, j \in Words : u # t \/ j # i => SameSlot(x, m, u, j)
  BY <1>1, <1>2, <1>3, PageEntered
<1>5. Mapped(m, a)
  BY <1>4, Translation DEF t, i
<1>6. ASSUME NEW b \in Space, PageNo(b) # PageNo(a)
      PROVE  /\ Mapped(m, b) <=> Mapped(machine, b)
             /\ Mapped(m, b) => FrameAt(m, b) = FrameAt(machine, b)
  <2>. DEFINE u == PDIndex(b)
              j == PTIndex(b)
  <2>1. u \in TableRows /\ j \in Words /\ b \in Nat
    BY Translation
  <2>2. u # t \/ j # i
    BY <1>1, <1>6, <2>1, SamePage DEF PageNo, t, i
  <2>. HIDE DEF u, j
  <2>3. SameSlot(machine, x, u, j) /\ SameSlot(x, m, u, j)
    BY <1>2, <1>4, <2>1, <2>2
  <2>4. /\ Live(m, u, j) <=> Live(machine, u, j)
        /\ Live(m, u, j) => Owner(m, u, j) = Owner(machine, u, j)
    BY <2>3 DEF SameSlot
  <2>. QED
    BY <2>4, Translation DEF u, j
<1>. QED
  BY <1>5, <1>6 DEF m

(***************************************************************************)
(* If clients store only words that do not look like present entries,      *)
(* handle_fault (page_table.C) maps the page that faulted, maps or unmaps  *)
(* no other one and moves none, whether it takes one frame or two.  It     *)
(* does not clear a new page table: over a frame with other words, such as *)
(* odd ones, the table maps pages of its own, and that case is left out.   *)
(***************************************************************************)
THEOREM CleanFaultsAreLocal ==
    ASSUME CarefulClients PROVE Spec /\ []FramesLeft => []FaultIsLocal
<1>1. MemoryInv /\ FramesLeft => FaultIsLocal
  <2>. SUFFICES ASSUME MemoryInv, FramesLeft, NEW a \in AllPages, ~Mapped(machine, a)
                PROVE  LET m == Fault(machine, a)
                       IN  /\ Mapped(m, a)
                           /\ \A b \in AllPages \ {a} :
                                 /\ Mapped(m, b) = Mapped(machine, b)
                                 /\ Mapped(m, b) => FrameAt(m, b) = FrameAt(machine, b)
    BY DEF FaultIsLocal
  <2>. DEFINE m == Fault(machine, a)
  <2>1. ASSUME NEW b \in AllPages PROVE b \in Space /\ b \in Nat /\ Offset(b) = 0
    <3>1. PICK p \in Pools : b \in PagesOf(p)
      BY DEF AllPages
    <3>2. Base[p] \in Nat /\ Length[p] \in Nat
      BY PoolFacts
    <3>3. b \in Nat /\ InPool(p, b) /\ Offset(b) = 0
      BY <3>1, <3>2 DEF PagesOf, InPool, Offset
    <3>. QED
      BY <3>3, PoolFacts
  <2>2. /\ Mapped(m, a)
        /\ \A b \in Space : PageNo(b) # PageNo(a) =>
              /\ Mapped(m, b) <=> Mapped(machine, b)
              /\ Mapped(m, b) => FrameAt(m, b) = FrameAt(machine, b)
    BY <2>1, FaultIsLocalHere DEF MemoryInv, FramesLeft
  <2>. HIDE DEF m
  <2>3. ASSUME NEW b \in AllPages \ {a}
        PROVE  /\ Mapped(m, b) = Mapped(machine, b)
               /\ Mapped(m, b) => FrameAt(m, b) = FrameAt(machine, b)
    <3>1. b \in Space /\ b \in Nat /\ a \in Nat /\ Offset(a) = Offset(b) /\ a # b
      BY <2>1, <2>3
    <3>2. PageNo(b) # PageNo(a)
      BY <3>1, SamePage, SameCell DEF PageNo
    <3>3. /\ Mapped(m, b) <=> Mapped(machine, b)
          /\ Mapped(m, b) => FrameAt(m, b) = FrameAt(machine, b)
      BY <2>2, <3>1, <3>2
    <3>4. Mapped(m, b) \in BOOLEAN /\ Mapped(machine, b) \in BOOLEAN
      BY DEF Mapped
    <3>. QED
      BY <3>3, <3>4
  <2>. QED
    BY <2>2, <2>3 DEF m
<1>. QED
  BY <1>1, AlwaysMemory, PTL
=============================================================================
