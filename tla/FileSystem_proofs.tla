-------------------------- MODULE FileSystem_proofs --------------------------
(***************************************************************************)
(* Theorems about FileSystem, for any files, handles, texts and sizes of   *)
(* the disk and its lists.  Types are kept whatever the clients do.  The   *)
(* lists need clients that open no file that does not exist, since such a  *)
(* handle may write into any block; handles need clients that delete no    *)
(* open and no missing file; that no block is lost needs a machine that    *)
(* does not stop.                                                          *)
(***************************************************************************)
EXTENDS FileSystem, Lemmas, FiniteSetTheorems

DataBlocks == 2 .. NumBlocks - 1
Chars    == {Zero} \cup UNION {{s[c] : c \in 1 .. Len(s)} : s \in Texts}
Contents == [1 .. BlockSize -> Chars]
ListType == [Inodes -> InodeType]
DiskType == [inodes : ListType, free : FreeType, data : [PlainBlocks -> Contents]]

(***************************************************************************)
(* What every write leaves on the disk, even if the next one never comes:  *)
(* an inode has an id exactly if it has a block, and no two inodes have    *)
(* the same id or block.  Only when all writes of a call are done is a     *)
(* free block named by no inode; but after a stop nothing is given out     *)
(* before the disk is formatted, since MAX_BLOCKS is 0.                    *)
(***************************************************************************)
IdWithBlock(nodes) == \A i \in Inodes : nodes[i].id \in Ids <=> nodes[i].block_no # NoBlock

Apart(nodes) ==
    \A i, j \in Inodes : i # j /\ nodes[i].block_no # NoBlock =>
        nodes[i].block_no # nodes[j].block_no /\ nodes[i].id # nodes[j].id

Sound(d) == d \in DiskType /\ IdWithBlock(d.inodes) /\ Apart(d.inodes)

Unnamed(d) ==
    \A b \in DataBlocks, i \in Inodes : d.free[b] = BLOCK_FREE => d.inodes[i].block_no # b

InMemory ==
    /\ disk.free = free_blocks
    /\ \A i \in Inodes : /\ inodes[i].id = disk.inodes[i].id
                         /\ inodes[i].block_no = disk.inodes[i].block_no

StateType ==
    /\ inodes \in ListType /\ free_blocks \in FreeType
    /\ MAX_BLOCKS \in {0, NumBlocks} /\ size \in Int /\ mounted \in BOOLEAN
    /\ handles \in [Handles -> HandleType \cup {NoHandle}]

\* No handle has the block of a list, or none.
OnFiles == \A h \in InUse : handles[h].block_no \in DataBlocks

ListsInv ==
    /\ StateType /\ OnFiles
    /\ Sound(disk)
    /\ MAX_BLOCKS # 0 => Unnamed(disk)
    /\ mounted => InMemory

-----------------------------------------------------------------------------
(***************************************************************************)
(* What the searches find.                                                 *)
(***************************************************************************)
LEMMA Sizes ==
    /\ MAX_INODES \in Nat /\ MAX_INODES > 0 /\ 0 \in Inodes /\ Inodes \subseteq Nat
    /\ NumBlocks \in Nat /\ NumBlocks > 2 /\ 0 \notin DataBlocks
    /\ BlockSize \in Nat /\ BlockSize > 0
    /\ DataBlocks \subseteq Blocks /\ NoBlock \notin DataBlocks
    /\ DiskSize \in Nat /\ DataBlocks \subseteq PlainBlocks /\ NumBlocks <= DiskSize
<1>1. /\ MAX_INODES \in Nat \ {0} /\ NumBlocks \in Nat /\ NumBlocks > 2
      /\ BlockSize \in Nat \ {0} /\ DiskSize \in Nat /\ DiskSize >= NumBlocks
  BY FileSystemAssumption
<1>. QED
  BY <1>1 DEF Inodes, Blocks, DataBlocks, PlainBlocks, NoBlock

LEMMA TextLength == ASSUME NEW s \in Texts PROVE Len(s) \in Nat
<1>1. s \in Seq(Range(s))
  BY FileSystemAssumption
<1>. QED
  BY <1>1

LEMMA MinLemma == ASSUME NEW T, T \subseteq Nat, T # {} PROVE Min(T) \in T
<1>1. PICK x \in T : \A y \in T : x <= y
  BY LeastElement
<1>. QED
  BY <1>1 DEF Min

LEMMA LeastLemma ==
    ASSUME NEW T, T \subseteq Nat
    PROVE  (Least(T) # -1 => Least(T) \in T) /\ (T # {} => Least(T) # -1)
<1>1. CASE T = {}
  BY <1>1 DEF Least
<1>2. CASE T # {}
  <2>1. Min(T) \in T
    BY <1>2, MinLemma
  <2>2. -1 \notin T
    OBVIOUS
  <2>3. Least(T) = Min(T)
    BY <1>2 DEF Least
  <2>. QED
    BY <1>2, <2>1, <2>2, <2>3
<1>. QED
  BY <1>1, <1>2

LEMMA LookupFacts ==
    ASSUME NEW id \in Ids
    PROVE  /\ LookupFile(id) \in Inodes
           /\ Exists(id) => inodes[LookupFile(id)].id = id
<1>1. WithId(id) \subseteq Nat
  BY Sizes DEF WithId
<1>2. CASE Exists(id)
  BY <1>1, <1>2, MinLemma DEF Exists, LookupFile, WithId
<1>3. CASE ~Exists(id)
  BY <1>3, Sizes DEF LookupFile
<1>. QED
  BY <1>2, <1>3

LEMMA FreeBlockFacts ==
    ASSUME MAX_BLOCKS \in {0, NumBlocks}, GetFreeBlock # -1
    PROVE  /\ GetFreeBlock \in DataBlocks /\ MAX_BLOCKS # 0
           /\ free_blocks[GetFreeBlock] = BLOCK_FREE
<1>. DEFINE T == {b \in 2 .. MAX_BLOCKS - 1 : free_blocks[b] = BLOCK_FREE}
<1>1. MAX_BLOCKS \in Nat /\ T \subseteq Nat
  BY Sizes
<1>2. GetFreeBlock \in T
  BY <1>1, LeastLemma DEF GetFreeBlock
<1>. QED
  BY <1>1, <1>2, Sizes DEF DataBlocks

LEMMA FreeInodeFacts ==
    ASSUME GetFreeInode # -1
    PROVE  GetFreeInode \in Inodes /\ inodes[GetFreeInode].block_no = NoBlock
<1>. DEFINE T == {i \in Inodes : inodes[i].block_no = NoBlock}
<1>1. T \subseteq Nat
  BY Sizes
<1>2. GetFreeInode \in T
  BY <1>1, LeastLemma DEF GetFreeInode
<1>. QED
  BY <1>2

-----------------------------------------------------------------------------
(***************************************************************************)
(* The disk during CreateFile and DeleteFile.                              *)
(***************************************************************************)
LEMMA NamesOfMemory ==
    ASSUME ListsInv, mounted
    PROVE  /\ inodes \in ListType /\ free_blocks \in FreeType
           /\ IdWithBlock(inodes) /\ Apart(inodes)
           /\ MAX_BLOCKS # 0 => \A b \in DataBlocks, i \in Inodes :
                 free_blocks[b] = BLOCK_FREE => inodes[i].block_no # b
<1>1. InMemory /\ StateType /\ Sound(disk)
  BY DEF ListsInv
<1>. QED
  BY <1>1 DEF ListsInv, InMemory, StateType, Sound, Apart, IdWithBlock, Unnamed

LEMMA CreatedFacts ==
    ASSUME StateType, NEW id \in Ids, CanCreate(id)
    PROVE  /\ CreatedInodes(id) \in ListType /\ CreatedFree \in FreeType
           /\ \A i \in Inodes :
                 CreatedInodes(id)[i] =
                    IF i = GetFreeInode
                    THEN [id |-> id, block_no |-> GetFreeBlock, file_size |-> inodes[i].file_size]
                    ELSE inodes[i]
           /\ \A b \in Blocks :
                 CreatedFree[b] = IF b = GetFreeBlock THEN BLOCK_USED ELSE free_blocks[b]
<1>. DEFINE n == GetFreeInode
            b == GetFreeBlock
<1>1. n \in Inodes /\ b \in DataBlocks /\ b \in Blocks
  BY FreeInodeFacts, FreeBlockFacts, Sizes DEF CanCreate, StateType
<1>2. inodes \in ListType /\ free_blocks \in FreeType
  BY DEF StateType
<1>3. CreatedFree = [free_blocks EXCEPT ![b] = BLOCK_USED]
  BY DEF CreatedFree
<1>4. CreatedInodes(id) = [inodes EXCEPT ![n] = [[@ EXCEPT !.id = id] EXCEPT !.block_no = b]]
  BY <1>1, <1>2 DEF CreatedInodes, ListType
<1>. HIDE DEF n, b
<1>5. inodes[n] \in InodeType
  BY <1>1, <1>2 DEF ListType
<1>6. [[inodes[n] EXCEPT !.id = id] EXCEPT !.block_no = b]
      = [id |-> id, block_no |-> b, file_size |-> inodes[n].file_size]
  <2>1. PICK x \in Ids \cup {NoId}, y \in {NoBlock} \cup 2 .. NumBlocks - 1, z \in 0 .. BlockSize :
           inodes[n] = [id |-> x, block_no |-> y, file_size |-> z]
    BY <1>5 DEF InodeType
  <2>2. [inodes[n] EXCEPT !.id = id] = [id |-> id, block_no |-> y, file_size |-> z]
    BY <2>1
  <2>3. inodes[n].file_size = z
    BY <2>1
  <2>4. [[id |-> id, block_no |-> y, file_size |-> z] EXCEPT !.block_no = b]
        = [id |-> id, block_no |-> b, file_size |-> z]
    OBVIOUS
  <2>. QED
    BY <2>2, <2>3, <2>4, Zenon
<1>7. [id |-> id, block_no |-> b, file_size |-> inodes[n].file_size] \in InodeType
  BY <1>1, <1>5 DEF InodeType, DataBlocks
<1>. QED
  BY <1>1, <1>2, <1>3, <1>4, <1>6, <1>7 DEF ListType, FreeType, BLOCK_USED, n, b

LEMMA CreateDisks ==
    ASSUME ListsInv, NEW id \in Ids, mounted, CanCreate(id)
    PROVE  LET first  == [disk EXCEPT !.free = CreatedFree]
               second == [first EXCEPT !.inodes = CreatedInodes(id)]
           IN  /\ Range(CreateWrites(id)) = {first, second} /\ Last(CreateWrites(id)) = second
               /\ Sound(first) /\ Sound(second) /\ Unnamed(second)
               /\ first.inodes = disk.inodes /\ first.data = disk.data
               /\ second.inodes = CreatedInodes(id) /\ second.data = disk.data
               /\ second.free = CreatedFree
<1>. DEFINE first  == [disk EXCEPT !.free = CreatedFree]
            second == [first EXCEPT !.inodes = CreatedInodes(id)]
            n == GetFreeInode
            b == GetFreeBlock
<1>1. CreateWrites(id) = <<first, second>>
  BY DEF CreateWrites
<1>2. disk \in DiskType /\ Sound(disk) /\ InMemory
  BY DEF ListsInv, Sound
<1>3. /\ CreatedInodes(id) \in ListType /\ CreatedFree \in FreeType
      /\ \A i \in Inodes :
           /\ CreatedInodes(id)[i].id = IF i = n THEN id ELSE inodes[i].id
           /\ CreatedInodes(id)[i].block_no = IF i = n THEN b ELSE inodes[i].block_no
      /\ \A c \in Blocks : CreatedFree[c] = IF c = b THEN BLOCK_USED ELSE free_blocks[c]
  <2>1. ASSUME NEW i \in Inodes
        PROVE  /\ CreatedInodes(id)[i].id = IF i = n THEN id ELSE inodes[i].id
               /\ CreatedInodes(id)[i].block_no = IF i = n THEN b ELSE inodes[i].block_no
    <3>1. i = n => CreatedInodes(id)[i]
                   = [id |-> id, block_no |-> b, file_size |-> inodes[i].file_size]
      BY CreatedFacts DEF ListsInv
    <3>2. i # n => CreatedInodes(id)[i] = inodes[i]
      BY CreatedFacts DEF ListsInv
    <3>. QED
      BY <3>1, <3>2
  <2>. QED
    BY <2>1, CreatedFacts DEF ListsInv
<1>4. /\ first \in DiskType /\ first.inodes = disk.inodes /\ first.free = CreatedFree
      /\ first.data = disk.data
  BY <1>2, <1>3 DEF DiskType
<1>5. /\ second \in DiskType /\ second.inodes = CreatedInodes(id) /\ second.free = CreatedFree
      /\ second.data = disk.data
  BY <1>3, <1>4 DEF DiskType
<1>. HIDE DEF first, second
<1>6. Range(CreateWrites(id)) = {first, second} /\ Last(CreateWrites(id)) = second
  BY <1>1 DEF Range, Last
<1>7. Sound(first)
  BY <1>2, <1>4 DEF Sound
<1>8. /\ n \in Inodes /\ b \in DataBlocks /\ b # NoBlock /\ MAX_BLOCKS # 0
      /\ free_blocks[b] = BLOCK_FREE /\ inodes[n].block_no = NoBlock
  BY FreeInodeFacts, FreeBlockFacts, Sizes DEF CanCreate, ListsInv, StateType
<1>9. /\ IdWithBlock(inodes) /\ Apart(inodes)
      /\ \A c \in DataBlocks, i \in Inodes : free_blocks[c] = BLOCK_FREE => inodes[i].block_no # c
  BY <1>8, NamesOfMemory
<1>10. \A i \in Inodes : inodes[i].id # id
  BY DEF CanCreate, Exists, WithId
<1>. HIDE DEF n, b
<1>11. IdWithBlock(CreatedInodes(id))
  BY <1>3, <1>8, <1>9 DEF IdWithBlock
<1>12. Apart(CreatedInodes(id))
  BY <1>3, <1>8, <1>9, <1>10 DEF Apart
<1>13. Unnamed(second)
  BY <1>3, <1>5, <1>8, <1>9, Sizes DEF Unnamed, BLOCK_USED, BLOCK_FREE
<1>. QED
  BY <1>4, <1>5, <1>6, <1>7, <1>11, <1>12, <1>13 DEF Sound, first, second

LEMMA DeletedFacts ==
    ASSUME StateType, NEW id \in Ids, CanDelete(id)
    PROVE  /\ DeletedInodes(id) \in ListType /\ DeletedFree(id) \in FreeType
           /\ LookupFile(id) \in Inodes /\ DeletedBlock(id) \in DataBlocks
           /\ \A i \in Inodes :
                 DeletedInodes(id)[i] = IF i = LookupFile(id) THEN FreeInode ELSE inodes[i]
           /\ \A b \in Blocks :
                 DeletedFree(id)[b] = IF b = DeletedBlock(id) THEN BLOCK_FREE ELSE free_blocks[b]
<1>1. inodes \in ListType /\ free_blocks \in FreeType
  BY DEF StateType
<1>2. LookupFile(id) \in Inodes
  BY LookupFacts
<1>3. DeletedBlock(id) \in DataBlocks
  BY <1>1, <1>2 DEF DeletedBlock, CanDelete, ListType, InodeType, DataBlocks
<1>4. FreeInode \in InodeType
  BY Sizes DEF FreeInode, InodeType
<1>. QED
  BY <1>1, <1>2, <1>3, <1>4, Sizes
     DEF DeletedInodes, DeletedFree, ListType, FreeType, BLOCK_FREE

LEMMA DeleteDisks ==
    ASSUME ListsInv, NEW id \in Ids, mounted, CanDelete(id)
    PROVE  LET first  == [disk EXCEPT !.data[DeletedBlock(id)] = Zeros]
               second == [first EXCEPT !.free = DeletedFree(id)]
               third  == [second EXCEPT !.inodes = DeletedInodes(id)]
           IN  /\ Range(DeleteWrites(id)) = {first, second, third}
               /\ Last(DeleteWrites(id)) = third
               /\ Sound(first) /\ Sound(second) /\ Sound(third)
               /\ MAX_BLOCKS # 0 => Unnamed(third)
               /\ first.inodes = disk.inodes /\ second.inodes = disk.inodes
               /\ third.inodes = DeletedInodes(id) /\ third.free = DeletedFree(id)
               /\ first.data = [disk.data EXCEPT ![DeletedBlock(id)] = Zeros]
               /\ second.data = first.data /\ third.data = first.data
               /\ \A d \in Range(DeleteWrites(id)) :
                     /\ d.data = [disk.data EXCEPT ![DeletedBlock(id)] = Zeros]
                     /\ d.inodes \in {disk.inodes, DeletedInodes(id)}
                     /\ Sound(d)
<1>. DEFINE k == LookupFile(id)
            c == DeletedBlock(id)
            first  == [disk EXCEPT !.data[c] = Zeros]
            second == [first EXCEPT !.free = DeletedFree(id)]
            third  == [second EXCEPT !.inodes = DeletedInodes(id)]
<1>1. DeleteWrites(id) = <<first, second, third>>
  BY DEF DeleteWrites
<1>2. disk \in DiskType /\ Sound(disk) /\ InMemory
  BY DEF ListsInv, Sound
<1>3. /\ DeletedInodes(id) \in ListType /\ DeletedFree(id) \in FreeType
      /\ k \in Inodes /\ c \in DataBlocks /\ c \in Blocks /\ c \in PlainBlocks
      /\ \A i \in Inodes : DeletedInodes(id)[i] = IF i = k THEN FreeInode ELSE inodes[i]
      /\ \A b \in Blocks : DeletedFree(id)[b] = IF b = c THEN BLOCK_FREE ELSE free_blocks[b]
  BY DeletedFacts, Sizes DEF ListsInv
<1>4. inodes[k].block_no = c /\ c # NoBlock
  BY <1>3, Sizes DEF DeletedBlock
<1>5. Zeros \in Contents
  BY DEF Zeros, Contents, Chars
<1>. HIDE DEF k, c
<1>6. /\ first \in DiskType /\ first.inodes = disk.inodes /\ first.free = disk.free
      /\ first.data = [disk.data EXCEPT ![c] = Zeros]
  BY <1>2, <1>3, <1>5 DEF DiskType
<1>7. /\ second \in DiskType /\ second.inodes = disk.inodes /\ second.free = DeletedFree(id)
      /\ second.data = first.data
  BY <1>3, <1>6 DEF DiskType
<1>8. /\ third \in DiskType /\ third.inodes = DeletedInodes(id) /\ third.free = DeletedFree(id)
      /\ third.data = first.data
  BY <1>3, <1>7 DEF DiskType
<1>. HIDE DEF first, second, third
<1>9. Range(DeleteWrites(id)) = {first, second, third} /\ Last(DeleteWrites(id)) = third
  BY <1>1 DEF Range, Last
<1>10. Sound(first) /\ Sound(second)
  BY <1>2, <1>6, <1>7 DEF Sound
<1>11. /\ IdWithBlock(inodes) /\ Apart(inodes)
       /\ MAX_BLOCKS # 0 => \A b \in DataBlocks, i \in Inodes :
             free_blocks[b] = BLOCK_FREE => inodes[i].block_no # b
  BY NamesOfMemory
<1>12. NoId \notin Ids /\ FreeInode.id = NoId /\ FreeInode.block_no = NoBlock
  BY FileSystemAssumption DEF FreeInode
<1>13. IdWithBlock(DeletedInodes(id))
  BY <1>3, <1>11, <1>12 DEF IdWithBlock
<1>14. Apart(DeletedInodes(id))
  BY <1>3, <1>11, <1>12 DEF Apart, IdWithBlock
<1>15. ASSUME MAX_BLOCKS # 0 PROVE Unnamed(third)
  <2>1. ASSUME NEW b \in DataBlocks, NEW i \in Inodes, DeletedFree(id)[b] = BLOCK_FREE
        PROVE  DeletedInodes(id)[i].block_no # b
    <3>1. CASE i = k
      BY <1>3, <1>12, <3>1, Sizes
    <3>2. CASE i # k /\ b = c
      BY <1>3, <1>4, <1>11, <3>2 DEF Apart
    <3>3. CASE i # k /\ b # c
      BY <1>3, <1>11, <1>15, <2>1, <3>3, Sizes
    <3>. QED
      BY <3>1, <3>2, <3>3
  <2>. QED
    BY <1>8, <2>1 DEF Unnamed
<1>. QED
  BY <1>6, <1>7, <1>8, <1>9, <1>10, <1>13, <1>14, <1>15 DEF Sound, first, second, third, c

-----------------------------------------------------------------------------
(***************************************************************************)
(* The invariant of the lists is kept by every call, and by a stop.        *)
(***************************************************************************)
LEMMA FormattedSound ==
    ASSUME NEW data \in [PlainBlocks -> Contents]
    PROVE  /\ Sound(Formatted(data)) /\ Unnamed(Formatted(data))
           /\ Formatted(data).inodes = [i \in Inodes |-> FreeInode]
           /\ Formatted(data).free = [b \in Blocks |-> IF b < 2 THEN BLOCK_USED ELSE BLOCK_FREE]
           /\ Formatted(data).data = data
<1>. DEFINE d == Formatted(data)
            free == [b \in Blocks |-> IF b < 2 THEN BLOCK_USED ELSE BLOCK_FREE]
            nodes == [i \in Inodes |-> FreeInode]
<1>1. FreeInode \in InodeType /\ FreeInode.id = NoId /\ FreeInode.block_no = NoBlock
  BY Sizes DEF FreeInode, InodeType
<1>2. free \in FreeType
  BY DEF FreeType
<1>3. nodes \in ListType
  BY <1>1 DEF ListType
<1>4. d = [inodes |-> nodes, free |-> free, data |-> data]
  BY DEF Formatted
<1>. HIDE DEF d, free
<1>5. d \in DiskType /\ d.inodes = nodes /\ d.free = free /\ d.data = data
  BY <1>2, <1>3, <1>4 DEF DiskType
<1>6. IdWithBlock(nodes) /\ Apart(nodes)
  BY <1>1, FileSystemAssumption DEF IdWithBlock, Apart
<1>7. Unnamed(d)
  BY <1>1, <1>5, Sizes DEF Unnamed
<1>. QED
  BY <1>5, <1>6, <1>7 DEF Sound, d, free

LEMMA InitLists == Init => ListsInv
<1>. SUFFICES ASSUME Init PROVE ListsInv
  OBVIOUS
<1>1. [b \in PlainBlocks |-> Zeros] \in [PlainBlocks -> Contents]
  BY DEF Zeros, Contents, Chars
<1>2. Sound(disk) /\ Unnamed(disk)
  BY <1>1, FormattedSound DEF Init
<1>3. inodes \in ListType /\ free_blocks \in FreeType
  BY Sizes DEF Init, ListType, FreeType, FreeInode, InodeType
<1>4. StateType
  <2>1. handles \in [Handles -> HandleType \cup {NoHandle}]
    BY Zenon DEF Init
  <2>2. MAX_BLOCKS = NumBlocks /\ size = 0 /\ mounted = FALSE
    BY DEF Init
  <2>3. MAX_BLOCKS \in {0, NumBlocks}
    BY <2>2
  <2>4. size \in Int
    BY <2>2
  <2>5. mounted \in BOOLEAN
    BY <2>2
  <2>. QED
    BY <1>3, <2>1, <2>3, <2>4, <2>5, Zenon DEF StateType
<1>5. OnFiles
  BY DEF OnFiles, InUse, Init
<1>. QED
  BY <1>2, <1>4, <1>5 DEF Init, ListsInv

LEMMA FormatLists == ListsInv /\ Format => ListsInv'
<1>. SUFFICES ASSUME ListsInv, Format PROVE ListsInv'
  OBVIOUS
<1>1. disk.data \in [PlainBlocks -> Contents]
  BY DEF ListsInv, Sound, DiskType
<1>2. Sound(disk') /\ Unnamed(disk')
  BY <1>1, FormattedSound DEF Format
<1>3. StateType' /\ OnFiles' /\ mounted' = FALSE
  BY DEF Format, ListsInv, StateType, OnFiles, InUse
<1>. QED
  BY <1>2, <1>3 DEF ListsInv, Sound, Unnamed

LEMMA MountLists == ListsInv /\ (Mount \/ Unmount) => ListsInv'
<1>. SUFFICES ASSUME ListsInv, Mount \/ Unmount PROVE ListsInv'
  OBVIOUS
<1>1. disk' = disk /\ MAX_BLOCKS' = MAX_BLOCKS
  BY DEF Mount, Unmount
<1>2. StateType' /\ OnFiles' /\ (mounted' => InMemory')
  <2>1. CASE Mount
    BY <2>1, 2 \in Int DEF Mount, ListsInv, StateType, Sound, DiskType, InMemory, OnFiles, InUse
  <2>2. CASE Unmount
    BY <2>2 DEF Unmount, ListsInv, StateType, OnFiles, InUse
  <2>. QED
    BY <2>1, <2>2
<1>. QED
  BY <1>1, <1>2 DEF ListsInv, Sound, Unnamed

LEMMA CreateLists == ASSUME ListsInv, NEW id \in Ids, CreateFile(id) PROVE ListsInv'
<1>1. MAX_BLOCKS' = MAX_BLOCKS /\ mounted' = mounted /\ handles' = handles /\ mounted
  BY DEF CreateFile
<1>2. CASE CanCreate(id)
  <2>1. /\ free_blocks' = CreatedFree /\ inodes' = CreatedInodes(id)
        /\ disk' = Last(CreateWrites(id)) /\ size' = size + 1
    BY <1>2 DEF CreateFile
  <2>2. /\ Sound(disk') /\ Unnamed(disk')
        /\ disk'.inodes = inodes' /\ disk'.free = free_blocks'
    BY <1>1, <1>2, <2>1, CreateDisks
  <2>3. StateType' /\ InMemory' /\ OnFiles'
    BY <1>1, <2>1, <2>2 DEF ListsInv, StateType, InMemory, Sound, DiskType, OnFiles, InUse
  <2>. QED
    BY <2>2, <2>3 DEF ListsInv, Sound, Unnamed
<1>3. CASE ~CanCreate(id)
  <2>1. UNCHANGED <<disk, inodes, free_blocks, size>>
    BY <1>3 DEF CreateFile
  <2>. QED
    BY <1>1, <2>1 DEF ListsInv, StateType, Sound, Unnamed, InMemory, OnFiles, InUse
<1>. QED
  BY <1>2, <1>3

LEMMA DeleteLists == ASSUME ListsInv, NEW id \in Ids, DeleteFile(id) PROVE ListsInv'
<1>1. MAX_BLOCKS' = MAX_BLOCKS /\ mounted' = mounted /\ handles' = handles /\ mounted
  BY DEF DeleteFile, IsDeleted
<1>2. CASE CanDelete(id)
  <2>1. /\ free_blocks' = DeletedFree(id) /\ inodes' = DeletedInodes(id)
        /\ disk' = Last(DeleteWrites(id)) /\ size' = size - 1
    BY <1>2 DEF DeleteFile
  <2>2. /\ Sound(disk') /\ (MAX_BLOCKS # 0 => Unnamed(disk'))
        /\ disk'.inodes = inodes' /\ disk'.free = free_blocks'
    BY <1>1, <1>2, <2>1, DeleteDisks
  <2>3. StateType' /\ InMemory' /\ OnFiles'
    BY <1>1, <2>1, <2>2 DEF ListsInv, StateType, InMemory, Sound, DiskType, OnFiles, InUse
  <2>. QED
    BY <1>1, <2>2, <2>3 DEF ListsInv, Sound, Unnamed
<1>3. CASE ~CanDelete(id)
  <2>1. UNCHANGED <<disk, inodes, free_blocks, size>>
    BY <1>3 DEF DeleteFile
  <2>. QED
    BY <1>1, <2>1 DEF ListsInv, StateType, Sound, Unnamed, InMemory, OnFiles, InUse
<1>. QED
  BY <1>2, <1>3

(***************************************************************************)
(* What the calls on handles do to the types, whatever the handle is.      *)
(***************************************************************************)
Typed ==
    /\ StateType
    /\ disk \in [inodes : ListType \cup {Overwritten}, free : FreeType \cup {Overwritten},
                 data : [PlainBlocks -> Contents]]

LEMMA HandleInUse ==
    ASSUME StateType, NEW h \in InUse
    PROVE  /\ h \in Handles /\ handles[h] \in HandleType
           /\ handles[h].id \in Ids /\ handles[h].inode \in Inodes
           /\ handles[h].block_no \in {NoBlock} \cup 0 .. DiskSize - 1
           /\ handles[h].last \in 0 .. BlockSize /\ handles[h].size \in 0 .. BlockSize
<1>1. h \in Handles /\ handles[h] \in HandleType
  BY DEF StateType, InUse
<1>. QED
  BY <1>1 DEF HandleType

LEMMA OpenType ==
    ASSUME StateType, NEW id \in Ids, NEW h \in Handles, Open(h, id)
    PROVE  /\ StateType' /\ mounted
           /\ UNCHANGED <<disk, inodes, free_blocks, MAX_BLOCKS, size, mounted>>
           /\ \E b : /\ Exists(id) => b = inodes[LookupFile(id)].block_no
                     /\ handles'[h].block_no = b
           /\ \A o \in Handles : o # h => handles'[o] = handles[o]
<1>. DEFINE i == LookupFile(id)
            n == IF Exists(id) THEN inodes[i].file_size ELSE 0
<1>1. mounted /\ UNCHANGED <<disk, inodes, free_blocks, MAX_BLOCKS, size, mounted>>
  BY DEF Open
<1>2. PICK b \in IF Exists(id) THEN {inodes[i].block_no} ELSE {NoBlock} \cup 0 .. DiskSize - 1 :
         handles' = [handles EXCEPT ![h] =
            [id |-> id, inode |-> i, block_no |-> b, last |-> 0, size |-> n]]
  BY DEF Open
<1>3. i \in Inodes
  BY LookupFacts
<1>4. inodes \in ListType /\ handles \in [Handles -> HandleType \cup {NoHandle}]
  BY DEF StateType
<1>. HIDE DEF i
<1>5. inodes[i].block_no \in {NoBlock} \cup DataBlocks /\ inodes[i].file_size \in 0 .. BlockSize
  BY <1>3, <1>4 DEF ListType, InodeType, DataBlocks
<1>6. b \in {NoBlock} \cup 0 .. DiskSize - 1
  BY <1>2, <1>5, Sizes DEF DataBlocks
<1>7. n \in 0 .. BlockSize /\ 0 \in 0 .. BlockSize
  BY <1>5, Sizes
<1>. HIDE DEF n
<1>8. [id |-> id, inode |-> i, block_no |-> b, last |-> 0, size |-> n] \in HandleType
  BY <1>3, <1>6, <1>7 DEF HandleType
<1>9. handles' \in [Handles -> HandleType \cup {NoHandle}]
  BY <1>2, <1>4, <1>8
<1>10. handles'[h].block_no = b /\ \A o \in Handles : o # h => handles'[o] = handles[o]
  BY <1>2, <1>4
<1>11. Exists(id) => b = inodes[i].block_no
  BY <1>2
<1>12. StateType'
  BY <1>1, <1>9 DEF StateType
<1>. QED
  BY <1>1, <1>10, <1>11, <1>12 DEF i

LEMMA ClosedFacts ==
    ASSUME StateType, NEW h \in InUse
    PROVE  /\ ClosedInodes(h) \in ListType
           /\ \A i \in Inodes : /\ ClosedInodes(h)[i].id = inodes[i].id
                                /\ ClosedInodes(h)[i].block_no = inodes[i].block_no
<1>. DEFINE k == handles[h].inode
            n == handles[h].size
<1>1. k \in Inodes /\ n \in 0 .. BlockSize /\ inodes \in ListType
  BY HandleInUse DEF StateType
<1>2. ClosedInodes(h) = [inodes EXCEPT ![k] = [@ EXCEPT !.file_size = n]]
  BY DEF ClosedInodes
<1>. HIDE DEF k, n
<1>3. /\ [inodes[k] EXCEPT !.file_size = n] \in InodeType
      /\ [inodes[k] EXCEPT !.file_size = n].id = inodes[k].id
      /\ [inodes[k] EXCEPT !.file_size = n].block_no = inodes[k].block_no
  BY <1>1 DEF ListType, InodeType
<1>. QED
  BY <1>1, <1>2, <1>3 DEF ListType

LEMMA CloseType ==
    ASSUME StateType, NEW h \in Handles, Close(h)
    PROVE  /\ StateType' /\ h \in InUse /\ inodes' = ClosedInodes(h)
           /\ UNCHANGED <<disk, free_blocks, MAX_BLOCKS, size, mounted>>
           /\ InUse' = InUse \ {h} /\ \A o \in InUse' : handles'[o] = handles[o]
<1>1. h \in InUse /\ inodes' = ClosedInodes(h) /\ handles' = [handles EXCEPT ![h] = NoHandle]
      /\ UNCHANGED <<disk, free_blocks, MAX_BLOCKS, size, mounted>>
  BY DEF Close
<1>2. handles \in [Handles -> HandleType \cup {NoHandle}]
  BY DEF StateType
<1>3. handles' \in [Handles -> HandleType \cup {NoHandle}]
  BY <1>1, <1>2
<1>4. InUse' = InUse \ {h} /\ \A o \in InUse' : handles'[o] = handles[o]
  BY <1>1, <1>2 DEF InUse
<1>5. StateType'
  BY <1>1, <1>3, ClosedFacts DEF StateType
<1>. QED
  BY <1>1, <1>4, <1>5

\* A handle that moves, or learns of a longer text, keeps its file and its block.
Keeps(h, new) ==
    /\ new \in HandleType /\ new.id = handles[h].id /\ new.inode = handles[h].inode
    /\ new.block_no = handles[h].block_no

LEMMA MovedHandle ==
    ASSUME StateType, NEW h \in InUse, NEW last \in 0 .. BlockSize, NEW n \in 0 .. BlockSize
    PROVE  /\ Keeps(h, [handles[h] EXCEPT !.last = last])
           /\ Keeps(h, [[handles[h] EXCEPT !.last = last] EXCEPT !.size = n])
<1>1. handles[h] \in HandleType
  BY HandleInUse
<1>2. [handles[h] EXCEPT !.last = last] \in HandleType
  BY <1>1 DEF HandleType
<1>3. [[handles[h] EXCEPT !.last = last] EXCEPT !.size = n] \in HandleType
  BY <1>2 DEF HandleType
<1>. QED
  BY <1>1, <1>2, <1>3 DEF Keeps, HandleType

MovesOnly(h) ==
    /\ h \in InUse
    /\ \E new : Keeps(h, new) /\ handles' = [handles EXCEPT ![h] = new]
    /\ UNCHANGED <<inodes, free_blocks, MAX_BLOCKS, size, mounted>>

LEMMA ReadMoves ==
    ASSUME StateType, NEW h \in Handles, NEW n \in Counts, Read(h, n)
    PROVE  MovesOnly(h) /\ UNCHANGED disk
<1>1. h \in InUse /\ handles' = [handles EXCEPT ![h].last = ReadTo(h, n)]
      /\ UNCHANGED <<disk, inodes, free_blocks, MAX_BLOCKS, size, mounted>>
  BY DEF Read
<1>2. n \in Nat /\ handles[h].last \in 0 .. BlockSize /\ handles[h].size \in 0 .. BlockSize
  BY <1>1, HandleInUse, FileSystemAssumption
<1>3. ReadTo(h, n) \in 0 .. BlockSize
  BY <1>2, Sizes DEF ReadTo, Greater, Lesser
<1>. DEFINE new == [handles[h] EXCEPT !.last = ReadTo(h, n)]
<1>4. Keeps(h, new)
  BY <1>1, <1>2, <1>3, MovedHandle
<1>5. handles' = [handles EXCEPT ![h] = new]
  BY <1>1
<1>. HIDE DEF new
<1>. QED
  BY <1>1, <1>4, <1>5 DEF MovesOnly

LEMMA ResetMoves ==
    ASSUME StateType, NEW h \in Handles, Reset(h) PROVE MovesOnly(h) /\ UNCHANGED disk
<1>1. h \in InUse /\ handles' = [handles EXCEPT ![h].last = 0]
      /\ UNCHANGED <<disk, inodes, free_blocks, MAX_BLOCKS, size, mounted>>
  BY DEF Reset
<1>2. 0 \in 0 .. BlockSize
  BY Sizes
<1>. DEFINE new == [handles[h] EXCEPT !.last = 0]
<1>4. Keeps(h, new)
  BY <1>1, <1>2, MovedHandle
<1>5. handles' = [handles EXCEPT ![h] = new]
  BY <1>1
<1>. HIDE DEF new
<1>. QED
  BY <1>1, <1>4, <1>5 DEF MovesOnly

LEMMA WriteMoves ==
    ASSUME StateType, NEW h \in Handles, NEW s \in Texts, Write(h, s)
    PROVE  MovesOnly(h) /\ WriteTo(h, s) \in 0 .. BlockSize
<1>1. h \in InUse /\ UNCHANGED <<inodes, free_blocks, MAX_BLOCKS, size, mounted>>
      /\ handles' = [handles EXCEPT ![h].last = WriteTo(h, s),
                                    ![h].size = Greater(@, WriteTo(h, s))]
  BY DEF Write
<1>2. /\ Len(s) \in Nat /\ handles[h].last \in 0 .. BlockSize /\ handles[h].size \in 0 .. BlockSize
      /\ handles[h] \in HandleType /\ h \in Handles
  BY <1>1, HandleInUse, TextLength
<1>3. WriteTo(h, s) \in 0 .. BlockSize
  BY <1>2, Sizes DEF WriteTo, Lesser
<1>4. Greater(handles[h].size, WriteTo(h, s)) \in 0 .. BlockSize
  BY <1>2, <1>3 DEF Greater
<1>. DEFINE new == [[handles[h] EXCEPT !.last = WriteTo(h, s)]
                                EXCEPT !.size = Greater(handles[h].size, WriteTo(h, s))]
<1>5. Keeps(h, new)
  BY <1>1, <1>3, <1>4, MovedHandle
<1>6. handles' = [handles EXCEPT ![h] = new]
  <2>1. DOMAIN handles = Handles
    BY DEF StateType
  <2>. QED
    BY <1>1, <1>2, <2>1 DEF HandleType
<1>. HIDE DEF new
<1>. QED
  BY <1>1, <1>3, <1>5, <1>6 DEF MovesOnly

LEMMA MovesType ==
    ASSUME StateType, NEW h \in Handles, MovesOnly(h)
    PROVE  /\ StateType' /\ InUse' = InUse
           /\ \A o \in InUse : /\ handles'[o].id = handles[o].id
                               /\ handles'[o].inode = handles[o].inode
                               /\ handles'[o].block_no = handles[o].block_no
<1>1. PICK new : Keeps(h, new) /\ handles' = [handles EXCEPT ![h] = new]
  BY DEF MovesOnly
<1>2. handles \in [Handles -> HandleType \cup {NoHandle}] /\ h \in InUse
  BY DEF StateType, MovesOnly
<1>3. new \in HandleType /\ new # NoHandle
  BY <1>1, HandleAssumption DEF Keeps
<1>4. handles' \in [Handles -> HandleType \cup {NoHandle}]
      /\ \A o \in Handles : handles'[o] = IF o = h THEN new ELSE handles[o]
  BY <1>1, <1>2, <1>3
<1>5. InUse' = InUse
  BY <1>2, <1>3, <1>4 DEF InUse
<1>6. StateType'
  BY <1>4 DEF StateType, MovesOnly
<1>. QED
  BY <1>1, <1>4, <1>5, <1>6 DEF Keeps, InUse

\* What Write leaves in a block is text.
LEMMA WrittenText ==
    ASSUME StateType, disk.data \in [PlainBlocks -> Contents], NEW h \in InUse, NEW s \in Texts,
           handles[h].block_no \in PlainBlocks
    PROVE  Written(h, s) \in Contents
<1>. DEFINE b == handles[h].block_no
<1>1. handles[h].last \in 0 .. BlockSize /\ Len(s) \in Nat
  BY HandleInUse, TextLength
<1>2. WriteTo(h, s) \in Int /\ WriteTo(h, s) <= handles[h].last + Len(s)
  BY <1>1, Sizes DEF WriteTo, Lesser
<1>3. ASSUME NEW c \in 1 .. BlockSize
      PROVE  (IF c > handles[h].last /\ c <= WriteTo(h, s) THEN s[c - handles[h].last]
              ELSE disk.data[b][c]) \in Chars
  <2>1. CASE c > handles[h].last /\ c <= WriteTo(h, s)
    <3>1. c - handles[h].last \in 1 .. Len(s)
      BY <1>1, <1>2, <2>1
    <3>. QED
      BY <2>1, <3>1 DEF Chars
  <2>2. CASE ~(c > handles[h].last /\ c <= WriteTo(h, s))
    <3>1. disk.data[b] \in Contents
      OBVIOUS
    <3>. QED
      BY <2>2, <3>1 DEF Contents
  <2>. QED
    BY <2>1, <2>2
<1>. QED
  BY <1>3 DEF Written, Contents

-----------------------------------------------------------------------------
(***************************************************************************)
(* The lists, under handles that have the block of a file.                 *)
(***************************************************************************)
LEMMA SameLists ==
    ASSUME ListsInv, UNCHANGED <<free_blocks, MAX_BLOCKS, size, mounted>>,
           disk' \in DiskType, disk'.inodes = disk.inodes, disk'.free = disk.free,
           \A i \in Inodes : /\ inodes'[i].id = inodes[i].id
                             /\ inodes'[i].block_no = inodes[i].block_no,
           StateType', OnFiles'
    PROVE  ListsInv'
<1>1. Sound(disk)' /\ (MAX_BLOCKS' # 0 => Unnamed(disk)')
  BY DEF ListsInv, Sound, Unnamed
<1>2. mounted' => InMemory'
  BY DEF ListsInv, InMemory
<1>. QED
  BY <1>1, <1>2 DEF ListsInv

LEMMA OpenLists ==
    ASSUME "open missing" \notin Uses,
           ListsInv, NEW id \in Ids, NEW h \in Handles, Open(h, id)
    PROVE  ListsInv'
<1>1. StateType /\ OnFiles /\ disk \in DiskType /\ Exists(id)
  BY DEF ListsInv, Sound, Open
<1>2. /\ StateType' /\ mounted
      /\ UNCHANGED <<disk, inodes, free_blocks, MAX_BLOCKS, size, mounted>>
      /\ handles'[h].block_no = inodes[LookupFile(id)].block_no
      /\ \A o \in Handles : o # h => handles'[o] = handles[o]
  BY <1>1, OpenType
<1>3. IdWithBlock(inodes) /\ inodes \in ListType
  BY <1>2, NamesOfMemory
<1>4. LookupFile(id) \in Inodes /\ inodes[LookupFile(id)].id = id
  BY <1>1, LookupFacts
<1>5. inodes[LookupFile(id)].block_no \in DataBlocks
  BY <1>3, <1>4 DEF IdWithBlock, ListType, InodeType, DataBlocks
<1>6. OnFiles'
  BY <1>1, <1>2, <1>5 DEF OnFiles, InUse
<1>. QED
  BY <1>1, <1>2, <1>6, SameLists

LEMMA CloseLists == ASSUME ListsInv, NEW h \in Handles, Close(h) PROVE ListsInv'
<1>1. StateType /\ OnFiles /\ disk \in DiskType
  BY DEF ListsInv, Sound
<1>2. /\ StateType' /\ h \in InUse /\ inodes' = ClosedInodes(h)
      /\ UNCHANGED <<disk, free_blocks, MAX_BLOCKS, size, mounted>>
      /\ InUse' = InUse \ {h} /\ \A o \in InUse' : handles'[o] = handles[o]
  BY <1>1, CloseType
<1>3. OnFiles'
  BY <1>1, <1>2 DEF OnFiles
<1>. QED
  BY <1>1, <1>2, <1>3, ClosedFacts, SameLists

\* Write changes the contents of one block, that of the handle.
LEMMA WriteFacts ==
    ASSUME ListsInv, NEW h \in InUse, NEW s \in Texts, Write(h, s)
    PROVE  LET b == handles[h].block_no
           IN  /\ b \in DataBlocks /\ b \in PlainBlocks
               /\ disk' \in DiskType /\ disk'.inodes = disk.inodes /\ disk'.free = disk.free
               /\ disk'.data = [disk.data EXCEPT ![b] = Written(h, s)]
<1>. DEFINE b == handles[h].block_no
<1>1. StateType /\ disk \in DiskType /\ disk.data \in [PlainBlocks -> Contents]
  BY DEF ListsInv, Sound, DiskType
<1>2. b \in DataBlocks /\ b \in PlainBlocks /\ b # NoBlock /\ b # 0 /\ b # 1
  <2>1. b \in DataBlocks
    BY DEF ListsInv, OnFiles
  <2>. QED
    BY <2>1, Sizes DEF DataBlocks, NoBlock
<1>3. Written(h, s) \in Contents
  BY <1>1, <1>2, WrittenText
<1>4. CASE WriteTo(h, s) # handles[h].last
  <2>1. disk' = [disk EXCEPT !.data = [disk.data EXCEPT ![b] = Written(h, s)]]
    BY <1>2, <1>4 DEF Write, AfterWrite
  <2>. HIDE DEF b
  <2>2. [disk.data EXCEPT ![b] = Written(h, s)] \in [PlainBlocks -> Contents]
    BY <1>1, <1>3
  <2>. QED
    BY <1>1, <1>2, <2>1, <2>2 DEF DiskType, b
<1>5. CASE WriteTo(h, s) = handles[h].last
  <2>1. disk' = disk
    BY <1>5 DEF Write, AfterWrite
  <2>2. handles[h].last \in 0 .. BlockSize
    BY <1>1, HandleInUse
  <2>3. Written(h, s) = [c \in 1 .. BlockSize |-> disk.data[b][c]]
    BY <1>5, <2>2 DEF Written
  <2>4. disk.data[b] \in Contents
    BY <1>1, <1>2
  <2>5. Written(h, s) = disk.data[b]
    BY <2>3, <2>4 DEF Contents
  <2>. HIDE DEF b
  <2>6. disk.data = [disk.data EXCEPT ![b] = Written(h, s)]
    BY <1>1, <1>2, <2>5
  <2>. QED
    BY <1>1, <1>2, <2>1, <2>6 DEF b
<1>. QED
  BY <1>4, <1>5

LEMMA MovesLists ==
    ASSUME ListsInv, NEW h \in Handles, MovesOnly(h),
           disk' \in DiskType, disk'.inodes = disk.inodes, disk'.free = disk.free
    PROVE  ListsInv'
<1>1. StateType /\ OnFiles
  BY DEF ListsInv
<1>2. StateType' /\ OnFiles'
  BY <1>1, MovesType DEF OnFiles
<1>3. UNCHANGED <<inodes, free_blocks, MAX_BLOCKS, size, mounted>>
  BY DEF MovesOnly
<1>. QED
  BY <1>2, <1>3, SameLists

LEMMA HandleLists ==
    ASSUME ListsInv, NEW h \in Handles
    PROVE  /\ Reset(h) => ListsInv'
           /\ \A n \in Counts : Read(h, n) => ListsInv'
           /\ \A s \in Texts : Write(h, s) => ListsInv'
<1>1. StateType /\ disk \in DiskType
  BY DEF ListsInv, Sound
<1>2. Reset(h) => ListsInv'
  BY <1>1, ResetMoves, MovesLists
<1>3. ASSUME NEW n \in Counts, Read(h, n) PROVE ListsInv'
  BY <1>1, <1>3, ReadMoves, MovesLists
<1>4. ASSUME NEW s \in Texts, Write(h, s) PROVE ListsInv'
  <2>1. h \in InUse
    BY <1>4 DEF Write
  <2>2. disk' \in DiskType /\ disk'.inodes = disk.inodes /\ disk'.free = disk.free
    BY <1>4, <2>1, WriteFacts
  <2>. QED
    BY <1>1, <1>4, <2>2, WriteMoves, MovesLists
<1>. QED
  BY <1>2, <1>3, <1>4

LEMMA StoppedDisk ==
    ASSUME ListsInv, mounted, NEW id \in Ids, NEW d \in DisksDuring(id)
    PROVE  Sound(d)
<1>1. CASE CanCreate(id) /\ d \in Range(CreateWrites(id))
  BY <1>1, CreateDisks
<1>2. CASE CanDelete(id) /\ d \in Range(DeleteWrites(id))
  BY <1>2, DeleteDisks
<1>. QED
  BY <1>1, <1>2 DEF DisksDuring

LEMMA StopLists == ListsInv /\ Stop => ListsInv'
<1>. SUFFICES ASSUME ListsInv, Stop PROVE ListsInv'
  OBVIOUS
<1>1. Sound(disk') /\ mounted' = FALSE /\ MAX_BLOCKS' = 0
      /\ handles' = [h \in Handles |-> NoHandle] /\ UNCHANGED <<inodes, free_blocks, size>>
  <2>1. CASE Stopped(NoId, disk)
    BY <2>1 DEF Stopped, ListsInv, BlocksAfterStop
  <2>2. ASSUME mounted, NEW id \in Ids, NEW d \in DisksDuring(id), Stopped(id, d)
        PROVE  Sound(disk') /\ mounted' = FALSE /\ MAX_BLOCKS' = 0
               /\ handles' = [h \in Handles |-> NoHandle] /\ UNCHANGED <<inodes, free_blocks, size>>
    BY <2>2, StoppedDisk DEF Stopped, BlocksAfterStop
  <2>. QED
    BY <2>1, <2>2 DEF Stop
<1>2. StateType' /\ OnFiles'
  BY <1>1 DEF ListsInv, StateType, OnFiles, InUse
<1>. QED
  BY <1>1, <1>2 DEF ListsInv, Sound

LEMMA NextLists ==
    ASSUME "open missing" \notin Uses, ListsInv, [Next]_vars PROVE ListsInv'
<1>1. CASE Format \/ Mount \/ Unmount \/ Stop
  BY <1>1, FormatLists, MountLists, StopLists
<1>2. ASSUME NEW id \in Ids, CreateFile(id) \/ DeleteFile(id) \/ \E h \in Handles : Open(h, id)
      PROVE  ListsInv'
  BY <1>2, CreateLists, DeleteLists, OpenLists
<1>3. ASSUME NEW h \in Handles, Close(h) PROVE ListsInv'
  BY <1>3, CloseLists
<1>4. ASSUME NEW h \in Handles, NEW n \in Counts, Reset(h) \/ Read(h, n) PROVE ListsInv'
  BY <1>4, HandleLists
<1>5. ASSUME NEW h \in Handles, Reset(h) \/ \E s \in Texts : Write(h, s) PROVE ListsInv'
  BY <1>5, HandleLists
<1>6. CASE UNCHANGED vars
  BY <1>6 DEF vars, ListsInv, StateType, Sound, Unnamed, InMemory, OnFiles, InUse
<1>. QED
  BY <1>1, <1>2, <1>3, <1>4, <1>5, <1>6 DEF Next

LEMMA AlwaysLists == ASSUME "open missing" \notin Uses PROVE Spec => []ListsInv
<1>1. ListsInv /\ [Next]_vars => ListsInv'
  BY NextLists
<1>. QED
  BY <1>1, InitLists, PTL DEF Spec

-----------------------------------------------------------------------------
(***************************************************************************)
(* Types need no careful clients, but more of a disk: a list that a handle *)
(* without a file has written to.                                          *)
(***************************************************************************)
LEMMA InitTyped == Init => Typed
<1>. SUFFICES ASSUME Init PROVE Typed
  OBVIOUS
<1>1. ListsInv
  BY InitLists
<1>. QED
  BY <1>1 DEF ListsInv, Sound, DiskType, Typed

\* The lists of the disk are replaced by typed ones, or the contents are.
TypedFrom(d, e) ==
    /\ d.inodes \in ListType \cup {e.inodes} /\ d.free \in FreeType \cup {e.free}
    /\ d.data \in [PlainBlocks -> Contents]
    /\ d = [inodes |-> d.inodes, free |-> d.free, data |-> d.data]

LEMMA TypedFromTyped ==
    ASSUME Typed, StateType', TypedFrom(disk', disk) PROVE Typed'
BY DEF Typed, TypedFrom

LEMMA CreateDiskType ==
    ASSUME Typed, NEW id \in Ids, CanCreate(id)
    PROVE  \A d \in Range(CreateWrites(id)) \cup {Last(CreateWrites(id))} : TypedFrom(d, disk)
<1>. DEFINE first  == [disk EXCEPT !.free = CreatedFree]
            second == [first EXCEPT !.inodes = CreatedInodes(id)]
<1>1. CreateWrites(id) = <<first, second>>
  BY DEF CreateWrites
<1>2. CreatedInodes(id) \in ListType /\ CreatedFree \in FreeType
  BY CreatedFacts DEF Typed
<1>3. disk.data \in [PlainBlocks -> Contents]
      /\ disk = [inodes |-> disk.inodes, free |-> disk.free, data |-> disk.data]
  BY DEF Typed
<1>4. first = [inodes |-> disk.inodes, free |-> CreatedFree, data |-> disk.data]
  BY <1>3
<1>. HIDE DEF first
<1>5. second = [inodes |-> CreatedInodes(id), free |-> CreatedFree, data |-> disk.data]
  BY <1>4
<1>. HIDE DEF second
<1>6. TypedFrom(first, disk) /\ TypedFrom(second, disk)
  BY <1>2, <1>3, <1>4, <1>5 DEF TypedFrom
<1>7. Range(CreateWrites(id)) \cup {Last(CreateWrites(id))} = {first, second}
  BY <1>1 DEF Range, Last
<1>. QED
  BY <1>6, <1>7

LEMMA DeleteDiskType ==
    ASSUME Typed, NEW id \in Ids, CanDelete(id)
    PROVE  \A d \in Range(DeleteWrites(id)) \cup {Last(DeleteWrites(id))} : TypedFrom(d, disk)
<1>. DEFINE c == DeletedBlock(id)
            cleared == [disk.data EXCEPT ![c] = Zeros]
            first  == [disk EXCEPT !.data[c] = Zeros]
            second == [first EXCEPT !.free = DeletedFree(id)]
            third  == [second EXCEPT !.inodes = DeletedInodes(id)]
<1>1. DeleteWrites(id) = <<first, second, third>>
  BY DEF DeleteWrites
<1>2. DeletedInodes(id) \in ListType /\ DeletedFree(id) \in FreeType /\ c \in PlainBlocks
  BY DeletedFacts, Sizes DEF Typed
<1>3. disk.data \in [PlainBlocks -> Contents]
      /\ disk = [inodes |-> disk.inodes, free |-> disk.free, data |-> disk.data]
  BY DEF Typed
<1>4. Zeros \in Contents
  BY DEF Zeros, Contents, Chars
<1>. HIDE DEF c
<1>5. cleared \in [PlainBlocks -> Contents]
  BY <1>2, <1>3, <1>4
<1>6. first = [disk EXCEPT !.data = cleared]
  OBVIOUS
<1>. HIDE DEF cleared
<1>7. first = [inodes |-> disk.inodes, free |-> disk.free, data |-> cleared]
  BY <1>3, <1>6
<1>. HIDE DEF first
<1>8. second = [inodes |-> disk.inodes, free |-> DeletedFree(id), data |-> cleared]
  BY <1>7
<1>. HIDE DEF second
<1>9. third = [inodes |-> DeletedInodes(id), free |-> DeletedFree(id), data |-> cleared]
  BY <1>8
<1>. HIDE DEF third
<1>10. TypedFrom(first, disk) /\ TypedFrom(second, disk) /\ TypedFrom(third, disk)
  BY <1>2, <1>5, <1>7, <1>8, <1>9 DEF TypedFrom
<1>11. Range(DeleteWrites(id)) \cup {Last(DeleteWrites(id))} = {first, second, third}
  BY <1>1 DEF Range, Last
<1>. QED
  BY <1>10, <1>11

LEMMA WriteTyped ==
    ASSUME Typed, NEW h \in Handles, NEW s \in Texts, Write(h, s) PROVE Typed'
<1>. DEFINE b == handles[h].block_no
<1>1. /\ StateType /\ disk.data \in [PlainBlocks -> Contents]
      /\ disk = [inodes |-> disk.inodes, free |-> disk.free, data |-> disk.data]
      /\ disk.inodes \in ListType \cup {Overwritten} /\ disk.free \in FreeType \cup {Overwritten}
  BY DEF Typed
<1>2. StateType'
  BY <1>1, WriteMoves, MovesType
<1>3. h \in InUse /\ disk' = AfterWrite(h, s)
  BY DEF Write
<1>4. b \in {NoBlock} \cup 0 .. DiskSize - 1
  BY <1>1, <1>3, HandleInUse
<1>5. CASE b = NoBlock \/ WriteTo(h, s) = handles[h].last
  <2>1. WriteTo(h, s) = handles[h].last
    BY <1>5 DEF WriteTo
  <2>2. disk' = disk
    BY <1>3, <2>1 DEF AfterWrite
  <2>. QED
    BY <1>1, <1>2, <2>2 DEF Typed
<1>6. CASE b = 0 /\ WriteTo(h, s) # handles[h].last
  <2>1. disk' = [disk EXCEPT !.inodes = Overwritten]
    BY <1>3, <1>6 DEF AfterWrite
  <2>. QED
    BY <1>1, <1>2, <2>1 DEF Typed
<1>7. CASE b = 1 /\ WriteTo(h, s) # handles[h].last
  <2>1. disk' = [disk EXCEPT !.free = Overwritten]
    BY <1>3, <1>7 DEF AfterWrite
  <2>. QED
    BY <1>1, <1>2, <2>1 DEF Typed
<1>8. CASE b \in PlainBlocks /\ WriteTo(h, s) # handles[h].last
  <2>1. disk' = [disk EXCEPT !.data = [disk.data EXCEPT ![b] = Written(h, s)]]
    BY <1>3, <1>8 DEF AfterWrite, PlainBlocks
  <2>2. Written(h, s) \in Contents
    BY <1>1, <1>3, <1>8, WrittenText
  <2>3. [disk.data EXCEPT ![b] = Written(h, s)] \in [PlainBlocks -> Contents]
    BY <1>1, <2>2
  <2>. QED
    BY <1>1, <1>2, <2>1, <2>3 DEF Typed
<1>. QED
  BY <1>4, <1>5, <1>6, <1>7, <1>8, Sizes DEF PlainBlocks

LEMMA NextTyped == Typed /\ [Next]_vars => Typed'
<1>. SUFFICES ASSUME Typed, [Next]_vars PROVE Typed'
  OBVIOUS
<1>0. StateType
  BY DEF Typed
<1>1. CASE Format
  <2>1. StateType'
    BY <1>0, <1>1 DEF Format, StateType
  <2>2. Sound(disk')
    BY <1>1, FormattedSound DEF Format, Typed
  <2>. QED
    BY <2>1, <2>2 DEF Typed, Sound, DiskType
<1>2. CASE Mount
  <2>1. disk' = disk /\ StateType'
    BY <1>2, 2 \in Int DEF Mount, Typed, StateType
  <2>. QED
    BY <2>1 DEF Typed
<1>3. CASE Unmount
  <2>1. disk' = disk /\ StateType'
    BY <1>3 DEF Unmount, Typed, StateType
  <2>. QED
    BY <2>1 DEF Typed
<1>4. ASSUME NEW id \in Ids, CreateFile(id) PROVE Typed'
  <2>1. CASE CanCreate(id)
    <3>1. StateType'
      BY <1>0, <1>4, <2>1, CreatedFacts DEF CreateFile, StateType
    <3>2. TypedFrom(disk', disk)
      BY <1>4, <2>1, CreateDiskType DEF CreateFile
    <3>. QED
      BY <3>1, <3>2, TypedFromTyped
  <2>2. CASE ~CanCreate(id)
    BY <1>4, <2>2 DEF CreateFile, Typed, StateType
  <2>. QED
    BY <2>1, <2>2
<1>5. ASSUME NEW id \in Ids, DeleteFile(id) PROVE Typed'
  <2>1. CASE CanDelete(id)
    <3>1. StateType'
      BY <1>0, <1>5, <2>1, DeletedFacts DEF DeleteFile, StateType
    <3>2. TypedFrom(disk', disk)
      BY <1>5, <2>1, DeleteDiskType DEF DeleteFile
    <3>. QED
      BY <3>1, <3>2, TypedFromTyped
  <2>2. CASE ~CanDelete(id)
    BY <1>5, <2>2 DEF DeleteFile, Typed, StateType
  <2>. QED
    BY <2>1, <2>2
<1>6. ASSUME NEW id \in Ids, NEW h \in Handles, Open(h, id) PROVE Typed'
  <2>1. StateType' /\ disk' = disk
    BY <1>0, <1>6, OpenType
  <2>. QED
    BY <2>1 DEF Typed
<1>7. ASSUME NEW h \in Handles, Close(h) PROVE Typed'
  <2>1. StateType' /\ disk' = disk
    BY <1>0, <1>7, CloseType
  <2>. QED
    BY <2>1 DEF Typed
<1>8. ASSUME NEW h \in Handles, Reset(h) \/ \E n \in Counts : Read(h, n) PROVE Typed'
  <2>1. MovesOnly(h) /\ disk' = disk
    BY <1>0, <1>8, ReadMoves, ResetMoves
  <2>2. StateType'
    BY <1>0, <2>1, MovesType
  <2>. QED
    BY <2>1, <2>2 DEF Typed
<1>9. ASSUME NEW h \in Handles, NEW s \in Texts, Write(h, s) PROVE Typed'
  BY <1>9, WriteTyped
<1>10. ASSUME NEW id, NEW d, Stopped(id, d), TypedFrom(d, disk) PROVE Typed'
  <2>1. StateType' /\ disk' = d
    BY <1>0, <1>10 DEF Stopped, BlocksAfterStop, StateType
  <2>. QED
    BY <1>10, <2>1, TypedFromTyped
<1>11. CASE Stop
  <2>1. TypedFrom(disk, disk)
    BY DEF Typed, TypedFrom
  <2>2. ASSUME NEW id \in Ids, NEW d \in DisksDuring(id) PROVE TypedFrom(d, disk)
    <3>1. CASE CanCreate(id) /\ d \in Range(CreateWrites(id))
      BY <3>1, CreateDiskType
    <3>2. CASE CanDelete(id) /\ d \in Range(DeleteWrites(id))
      BY <3>2, DeleteDiskType
    <3>. QED
      BY <2>2, <3>1, <3>2 DEF DisksDuring
  <2>. QED
    BY <1>10, <1>11, <2>1, <2>2 DEF Stop
<1>12. CASE UNCHANGED vars
  BY <1>12 DEF vars, Typed, StateType
<1>. QED
  BY <1>1, <1>2, <1>3, <1>4, <1>5, <1>6, <1>7, <1>8, <1>9, <1>11, <1>12 DEF Next

(***************************************************************************)
(* Whatever the clients do and wherever the machine stops, what the file   *)
(* system and its handles hold keeps the types declared in file_system.H   *)
(* and file.H: no index, block number or position leaves its range, as     *)
(* long as no list that was overwritten is mounted.                        *)
(***************************************************************************)
THEOREM TypeCorrect == Spec => []TypeOK
<1>1. Typed => TypeOK
  <2>. SUFFICES ASSUME Typed PROVE TypeOK
    OBVIOUS
  <2>1. /\ disk.inodes \in [Inodes -> InodeType] \cup {Overwritten}
        /\ disk.free \in FreeType \cup {Overwritten}
        /\ disk.data \in [PlainBlocks -> Contents]
    BY DEF Typed, ListType
  <2>2. ASSUME NEW b \in PlainBlocks PROVE Len(disk.data[b]) = BlockSize
    <3>1. disk.data[b] \in [1 .. BlockSize -> Chars]
      BY <2>1 DEF Contents
    <3>2. BlockSize \in Nat
      BY Sizes
    <3>. QED
      BY <3>1, <3>2
  <2>. QED
    BY <2>1, <2>2 DEF Typed, StateType, ListType, TypeOK
<1>. QED
  BY <1>1, InitTyped, NextTyped, PTL DEF Spec

-----------------------------------------------------------------------------
\* Every other action reports its own call.
LEMMA OnlyStopStops == ASSUME Next, done'.call = "Stop" PROVE Stop
<1>1. \A call, id, answer : Called(call, id, answer).call = call
  BY DEF Called
<1>2. Format => done'.call = "Format"
  BY <1>1 DEF Format
<1>3. Mount => done'.call = "Mount"
  BY <1>1 DEF Mount
<1>4. Unmount => done'.call = "Unmount"
  BY <1>1 DEF Unmount
<1>5. \A id \in Ids : /\ CreateFile(id) => done'.call = "CreateFile"
                      /\ DeleteFile(id) => done'.call = "DeleteFile"
                      /\ \A h \in Handles : Open(h, id) => done'.call = "Open"
  BY <1>1 DEF CreateFile, DeleteFile, Open
<1>6. \A h \in Handles : /\ Close(h) => done'.call = "Close"
                         /\ Reset(h) => done'.call = "Reset"
                         /\ \A n \in Counts : Read(h, n) => done'.call = "Read"
                         /\ \A s \in Texts : Write(h, s) => done'.call = "Write"
  BY <1>1 DEF Close, Reset, Read, Write
<1>. QED
  BY <1>2, <1>3, <1>4, <1>5, <1>6 DEF Next

(***************************************************************************)
(* The inode that is filled in was nobody's, and the block that is cleared *)
(* only the deleted file's; with a missing file it is inode 0's.           *)
(***************************************************************************)
LEMMA StopStep ==
    ASSUME "delete missing" \notin Uses
    PROVE  ListsInv /\ [Next]_vars =>
        [done'.call = "Stop" =>
            \A i \in Inodes : disk.inodes[i].id \notin {NoId, done'.id} =>
                disk'.inodes[i].id = disk.inodes[i].id /\ OnDisk(disk', i) = OnDisk(disk, i)]_vars
<1>. SUFFICES ASSUME ListsInv, Next, done'.call = "Stop",
                     NEW i \in Inodes, disk.inodes[i].id \notin {NoId, done'.id}
              PROVE  disk'.inodes[i].id = disk.inodes[i].id /\ OnDisk(disk', i) = OnDisk(disk, i)
  OBVIOUS
<1>1. Stop
  BY OnlyStopStops
<1>2. CASE Stopped(NoId, disk)
  BY <1>2 DEF Stopped, OnDisk
<1>3. ASSUME mounted, NEW id \in Ids, NEW d \in DisksDuring(id), Stopped(id, d)
      PROVE  disk'.inodes[i].id = disk.inodes[i].id /\ OnDisk(disk', i) = OnDisk(disk, i)
  <2>1. disk' = d /\ done'.id = id
    BY <1>3 DEF Stopped, Called
  <2>2. /\ InMemory /\ Sound(disk) /\ disk.inodes \in ListType
        /\ disk.data \in [PlainBlocks -> Contents]
    BY <1>3 DEF ListsInv, Sound, DiskType
  <2>3. disk.inodes[i].id \in Ids /\ disk.inodes[i].id # id
    BY <2>1, <2>2 DEF ListType, InodeType
  <2>4. /\ disk.inodes[i].block_no # NoBlock /\ inodes[i].id = disk.inodes[i].id
        /\ inodes[i].block_no = disk.inodes[i].block_no
    BY <2>2, <2>3 DEF Sound, IdWithBlock, InMemory
  <2>5. CASE CanCreate(id) /\ d \in Range(CreateWrites(id))
    <3>1. i # GetFreeInode
      BY <2>4, <2>5, FreeInodeFacts DEF CanCreate
    <3>2. CreatedInodes(id)[i] = inodes[i]
      BY <1>3, <2>5, <3>1, CreatedFacts DEF ListsInv
    <3>3. /\ d.data = disk.data
          /\ d.inodes = disk.inodes \/ d.inodes = CreatedInodes(id)
      BY <1>3, <2>5, CreateDisks
    <3>. QED
      BY <2>1, <2>4, <3>2, <3>3 DEF OnDisk
  <2>6. CASE IsDeleted(id) /\ CanDelete(id) /\ d \in Range(DeleteWrites(id))
    <3>1. /\ LookupFile(id) \in Inodes /\ inodes[LookupFile(id)].id = id
          /\ CanDelete(id)
      BY <2>6, LookupFacts DEF IsDeleted
    <3>2. i # LookupFile(id)
      BY <2>3, <2>4, <3>1
    <3>3. DeletedInodes(id)[i] = inodes[i]
      BY <1>3, <3>1, <3>2, DeletedFacts DEF ListsInv
    <3>4. DeletedBlock(id) # disk.inodes[i].block_no
      BY <1>3, <2>4, <3>1, <3>2, NamesOfMemory DEF DeletedBlock, Apart
    <3>5. /\ d.data = [disk.data EXCEPT ![DeletedBlock(id)] = Zeros]
          /\ d.inodes \in {disk.inodes, DeletedInodes(id)}
      BY <1>3, <2>6, <3>1, DeleteDisks
    <3>6. disk.inodes[i].block_no \in PlainBlocks
      BY <2>2, <2>4, Sizes DEF ListType, InodeType, DataBlocks
    <3>7. d.data[disk.inodes[i].block_no] = disk.data[disk.inodes[i].block_no]
      BY <2>2, <3>4, <3>5, <3>6
    <3>. QED
      BY <2>1, <2>4, <3>3, <3>5, <3>7 DEF OnDisk
  <2>. QED
    BY <1>3, <2>5, <2>6 DEF DisksDuring
<1>. QED
  BY <1>1, <1>2, <1>3 DEF Stop

(***************************************************************************)
(* With clients that open and delete only files that exist, a stop between *)
(* any two writes of CreateFile or DeleteFile (file_system.C) leaves every *)
(* other file on the disk with its data.                                   *)
(***************************************************************************)
THEOREM StopsKeepFiles ==
    ASSUME Uses \cap {"open missing", "delete missing"} = {} PROVE Spec => StopKeepsFiles
<1>1. ListsInv /\ [Next]_vars =>
        [done'.call = "Stop" =>
            \A i \in Inodes : disk.inodes[i].id \notin {NoId, done'.id} =>
                disk'.inodes[i].id = disk.inodes[i].id /\ OnDisk(disk', i) = OnDisk(disk, i)]_vars
  BY StopStep
<1>2. Spec => []ListsInv
  BY AlwaysLists
<1>. QED
  BY <1>1, <1>2, PTL DEF Spec, StopKeepsFiles

-----------------------------------------------------------------------------
(***************************************************************************)
(* Handles: they exist only while the file system is mounted, and name     *)
(* their file's inode and block.  A client that deletes an open file, or   *)
(* opens a file that does not exist, breaks this.                          *)
(***************************************************************************)
HandlesInv == (InUse # {} => mounted) /\ HandlesOwnBlock

Careful == Uses \cap {"stale", "open missing", "delete missing"} = {}

LEMMA InitHandles == Init => HandlesInv
BY DEF Init, HandlesInv, InUse, HandlesOwnBlock

\* Handles that keep their file, on inodes that keep their names.
LEMMA SameHandles ==
    ASSUME HandlesInv, mounted' = mounted, InUse' \subseteq InUse,
           \A h \in InUse' : /\ handles'[h].id = handles[h].id
                             /\ handles'[h].inode = handles[h].inode
                             /\ handles'[h].block_no = handles[h].block_no,
           \A h \in InUse :
              /\ inodes'[handles[h].inode].id = inodes[handles[h].inode].id
              /\ inodes'[handles[h].inode].block_no = inodes[handles[h].inode].block_no
    PROVE  HandlesInv'
BY DEF HandlesInv, HandlesOwnBlock, Named

LEMMA OwnedInode ==
    ASSUME ListsInv, HandlesInv, NEW h \in InUse
    PROVE  LET k == handles[h].inode
           IN  /\ k \in Inodes /\ inodes[k].id = handles[h].id
               /\ inodes[k].block_no = handles[h].block_no
               /\ inodes[k].block_no \in DataBlocks /\ inodes[k].block_no # NoBlock
               /\ mounted
BY HandleInUse, Sizes DEF ListsInv, OnFiles, HandlesInv, HandlesOwnBlock, Named

LEMMA CreateHandles ==
    ASSUME ListsInv, HandlesInv, NEW id \in Ids, CreateFile(id) PROVE HandlesInv'
<1>1. mounted /\ mounted' = mounted /\ handles' = handles
  BY DEF CreateFile
<1>2. InUse' = InUse
  BY <1>1 DEF InUse
<1>3. ASSUME NEW h \in InUse
      PROVE  inodes'[handles[h].inode] = inodes[handles[h].inode]
  <2>1. CASE CanCreate(id)
    <3>1. handles[h].inode # GetFreeInode /\ handles[h].inode \in Inodes
      BY <2>1, OwnedInode, FreeInodeFacts DEF CanCreate
    <3>2. inodes' = CreatedInodes(id)
      BY <2>1 DEF CreateFile
    <3>. QED
      BY <1>1, <2>1, <3>1, <3>2, CreatedFacts DEF ListsInv
  <2>2. CASE ~CanCreate(id)
    BY <2>2 DEF CreateFile
  <2>. QED
    BY <2>1, <2>2
<1>. QED
  BY <1>1, <1>2, <1>3, SameHandles

LEMMA DeleteHandles ==
    ASSUME Careful,
           ListsInv, HandlesInv, NEW id \in Ids, DeleteFile(id)
    PROVE  HandlesInv'
<1>1. mounted /\ mounted' = mounted /\ handles' = handles /\ Exists(id) /\ ~HasHandle(id)
  BY DEF DeleteFile, IsDeleted, Careful
<1>2. InUse' = InUse
  BY <1>1 DEF InUse
<1>3. ASSUME NEW h \in InUse
      PROVE  inodes'[handles[h].inode] = inodes[handles[h].inode]
  <2>1. CASE CanDelete(id)
    <3>1. handles[h].inode # LookupFile(id) /\ handles[h].inode \in Inodes
      BY <1>1, OwnedInode, LookupFacts DEF HasHandle
    <3>2. inodes' = DeletedInodes(id)
      BY <2>1 DEF DeleteFile
    <3>. QED
      BY <1>1, <2>1, <3>1, <3>2, DeletedFacts DEF ListsInv
  <2>2. CASE ~CanDelete(id)
    BY <2>2 DEF DeleteFile
  <2>. QED
    BY <2>1, <2>2
<1>. QED
  BY <1>1, <1>2, <1>3, SameHandles

LEMMA OpenHandles ==
    ASSUME Careful,
           ListsInv, HandlesInv, NEW id \in Ids, NEW h \in Handles, Open(h, id)
    PROVE  HandlesInv'
<1>. DEFINE i == LookupFile(id)
            new == [id |-> id, inode |-> i, block_no |-> inodes[i].block_no, last |-> 0,
                    size |-> inodes[i].file_size]
<1>1. Exists(id) /\ mounted /\ h \notin InUse
  BY DEF Open, Careful
<1>2. mounted' = mounted /\ inodes' = inodes /\ handles' = [handles EXCEPT ![h] = new]
  BY <1>1 DEF Open
<1>3. inodes[i].id = id
  BY <1>1, LookupFacts
<1>4. new.id = id /\ new.inode = i /\ new.block_no = inodes[i].block_no
  OBVIOUS
<1>. HIDE DEF i, new
<1>5. DOMAIN handles = Handles
  BY DEF ListsInv, StateType
<1>6. \A o \in Handles : handles'[o] = IF o = h THEN new ELSE handles[o]
  BY <1>2, <1>5
<1>7. ASSUME NEW o \in InUse'
      PROVE  Named(handles[o].inode)' = <<handles'[o].id, handles'[o].block_no>>
  <2>1. CASE o = h
    BY <1>2, <1>3, <1>4, <1>6, <2>1 DEF Named
  <2>2. CASE o # h
    <3>1. o \in InUse /\ handles'[o] = handles[o]
      BY <1>6, <1>7, <2>2 DEF InUse
    <3>. QED
      BY <1>2, <3>1 DEF HandlesInv, HandlesOwnBlock, Named
  <2>. QED
    BY <2>1, <2>2
<1>. QED
  BY <1>1, <1>2, <1>7 DEF HandlesInv, HandlesOwnBlock

LEMMA CloseHandles ==
    ASSUME ListsInv, HandlesInv, NEW h \in Handles, Close(h) PROVE HandlesInv'
<1>1. h \in InUse /\ mounted' = mounted /\ inodes' = ClosedInodes(h)
      /\ handles' = [handles EXCEPT ![h] = NoHandle]
  BY DEF Close
<1>2. DOMAIN handles = Handles
  BY DEF ListsInv, StateType
<1>3. InUse' = InUse \ {h} /\ \A o \in InUse' : handles'[o] = handles[o]
  BY <1>1, <1>2 DEF InUse
<1>4. \A o \in InUse : /\ inodes'[handles[o].inode].id = inodes[handles[o].inode].id
                       /\ inodes'[handles[o].inode].block_no = inodes[handles[o].inode].block_no
  BY <1>1, ClosedFacts, HandleInUse DEF ListsInv
<1>. QED
  BY <1>1, <1>3, <1>4, SameHandles

LEMMA MovedHandles ==
    ASSUME ListsInv, HandlesInv, NEW h \in Handles, MovesOnly(h) PROVE HandlesInv'
<1>1. StateType
  BY DEF ListsInv
<1>2. /\ InUse' = InUse
      /\ \A o \in InUse : /\ handles'[o].id = handles[o].id
                          /\ handles'[o].inode = handles[o].inode
                          /\ handles'[o].block_no = handles[o].block_no
  BY <1>1, MovesType
<1>. QED
  BY <1>2, SameHandles DEF MovesOnly

LEMMA NextHandles ==
    ASSUME Careful, ListsInv, HandlesInv, [Next]_vars
    PROVE  HandlesInv'
<1>1. CASE Format
  BY <1>1 DEF Format, HandlesInv, HandlesOwnBlock, Named, InUse
<1>2. CASE Mount
  <2>1. InUse = {} /\ handles' = handles /\ mounted'
    BY <1>2 DEF Mount, HandlesInv
  <2>. QED
    BY <2>1 DEF HandlesInv, HandlesOwnBlock, InUse
<1>3. CASE Unmount
  BY <1>3 DEF Unmount, HandlesInv, HandlesOwnBlock, InUse
<1>4. CASE Stop
  BY <1>4 DEF Stop, Stopped, HandlesInv, HandlesOwnBlock, InUse
<1>5. ASSUME NEW id \in Ids, CreateFile(id) \/ DeleteFile(id) \/ \E h \in Handles : Open(h, id)
      PROVE  HandlesInv'
  BY <1>5, CreateHandles, DeleteHandles, OpenHandles
<1>6. ASSUME NEW h \in Handles, Close(h) PROVE HandlesInv'
  BY <1>6, CloseHandles
<1>7. ASSUME NEW h \in Handles, Reset(h) PROVE HandlesInv'
  BY <1>7, ResetMoves, MovedHandles DEF ListsInv
<1>8. ASSUME NEW h \in Handles, NEW n \in Counts, Read(h, n) PROVE HandlesInv'
  BY <1>8, ReadMoves, MovedHandles DEF ListsInv
<1>9. ASSUME NEW h \in Handles, NEW s \in Texts, Write(h, s) PROVE HandlesInv'
  BY <1>9, WriteMoves, MovedHandles DEF ListsInv
<1>10. CASE UNCHANGED vars
  BY <1>10 DEF vars, HandlesInv, HandlesOwnBlock, Named, InUse
<1>. QED
  BY <1>1, <1>2, <1>3, <1>4, <1>5, <1>6, <1>7, <1>8, <1>9, <1>10 DEF Next

LEMMA AlwaysHandles ==
    ASSUME Careful PROVE Spec => []HandlesInv
<1>1. ListsInv /\ HandlesInv /\ [Next]_vars => HandlesInv'
  BY NextHandles
<1>2. Spec => []ListsInv
  BY AlwaysLists DEF Careful
<1>. QED
  BY <1>1, <1>2, InitHandles, PTL DEF Spec

-----------------------------------------------------------------------------
(***************************************************************************)
(* As long as no file that does not exist is opened, two files never have  *)
(* the same block or the same id (file_system.C), with clients that delete *)
(* open and missing files, and at whichever write the machine stops.       *)
(***************************************************************************)
THEOREM FilesNeverShareBlocks ==
    ASSUME "open missing" \notin Uses PROVE Spec => []OneFilePerBlock
<1>1. ListsInv => OneFilePerBlock
  BY NamesOfMemory DEF OneFilePerBlock, Apart
<1>2. Spec => []ListsInv
  BY AlwaysLists
<1>. QED
  BY <1>1, <1>2, PTL

(***************************************************************************)
(* With clients that delete no open file, and open and delete only files   *)
(* that exist, a handle (file.C) keeps to the block of its file, through   *)
(* all deletions, stops and mounts, even with several handles on a file.   *)
(***************************************************************************)
THEOREM BlocksStayApart ==
    ASSUME Uses \cap {"stale", "open missing", "delete missing"} = {}
    PROVE  Spec => []BlocksKeptApart
<1>1. HandlesInv => HandlesOwnBlock
  BY DEF HandlesInv
<1>2. OneFilePerBlock /\ HandlesOwnBlock => BlocksKeptApart
  BY DEF BlocksKeptApart
<1>3. Spec => []OneFilePerBlock
  BY FilesNeverShareBlocks
<1>4. Spec => []HandlesInv
  BY AlwaysHandles DEF Careful
<1>. QED
  BY <1>1, <1>2, <1>3, <1>4, PTL

-----------------------------------------------------------------------------
(***************************************************************************)
(* While the machine does not stop no block is lost: a block marked used   *)
(* is named by an inode.  It can then be formatted only once, so that      *)
(* MAX_BLOCKS is never 0.                                                  *)
(***************************************************************************)
UsedNamed(d) ==
    \A b \in DataBlocks : d.free[b] = BLOCK_USED => \E i \in Inodes : d.inodes[i].block_no = b

UsedInv == MAX_BLOCKS # 0 /\ UsedNamed(disk)

LEMMA InitUsed == Init => UsedInv
<1>. SUFFICES ASSUME Init PROVE UsedInv
  OBVIOUS
<1>1. [b \in PlainBlocks |-> Zeros] \in [PlainBlocks -> Contents]
  BY DEF Zeros, Contents, Chars
<1>2. disk.free = [b \in Blocks |-> IF b < 2 THEN BLOCK_USED ELSE BLOCK_FREE]
  BY <1>1, FormattedSound DEF Init
<1>3. \A b \in DataBlocks : disk.free[b] = BLOCK_FREE
  BY <1>2, Sizes DEF DataBlocks
<1>. QED
  BY <1>3, Sizes DEF Init, UsedInv, UsedNamed, BLOCK_FREE, BLOCK_USED

LEMMA CreateUsed ==
    ASSUME ListsInv, UsedInv, NEW id \in Ids, CreateFile(id) PROVE UsedInv'
<1>1. MAX_BLOCKS' = MAX_BLOCKS /\ mounted
  BY DEF CreateFile
<1>2. CASE CanCreate(id)
  <2>1. disk'.inodes = CreatedInodes(id) /\ disk'.free = CreatedFree
    BY <1>1, <1>2, CreateDisks DEF CreateFile
  <2>2. InMemory
    BY <1>1 DEF ListsInv
  <2>3. /\ GetFreeInode \in Inodes /\ inodes[GetFreeInode].block_no = NoBlock
        /\ CreatedInodes(id)[GetFreeInode].block_no = GetFreeBlock
    <3>1. GetFreeInode \in Inodes /\ inodes[GetFreeInode].block_no = NoBlock
      BY <1>2, FreeInodeFacts DEF CanCreate
    <3>2. CreatedInodes(id)[GetFreeInode]
          = [id |-> id, block_no |-> GetFreeBlock, file_size |-> inodes[GetFreeInode].file_size]
      BY <1>1, <1>2, <3>1, CreatedFacts DEF ListsInv
    <3>. QED
      BY <3>1, <3>2
  <2>4. ASSUME NEW b \in DataBlocks, CreatedFree[b] = BLOCK_USED
        PROVE  \E i \in Inodes : CreatedInodes(id)[i].block_no = b
    <3>1. CASE b = GetFreeBlock
      BY <2>3, <3>1
    <3>2. CASE b # GetFreeBlock
      <4>1. disk.free[b] = BLOCK_USED
        BY <1>1, <1>2, <2>2, <2>4, <3>2, CreatedFacts, Sizes DEF InMemory, ListsInv
      <4>2. PICK i \in Inodes : inodes[i].block_no = b
        BY <2>2, <4>1 DEF UsedInv, UsedNamed, InMemory
      <4>3. i # GetFreeInode
        BY <2>3, <4>2, Sizes
      <4>. QED
        BY <1>1, <1>2, <4>2, <4>3, CreatedFacts DEF ListsInv
    <3>. QED
      BY <3>1, <3>2
  <2>. QED
    BY <1>1, <2>1, <2>4 DEF UsedInv, UsedNamed
<1>3. CASE ~CanCreate(id)
  BY <1>1, <1>3 DEF CreateFile, UsedInv, UsedNamed
<1>. QED
  BY <1>2, <1>3

LEMMA DeleteUsed ==
    ASSUME ListsInv, UsedInv, NEW id \in Ids, DeleteFile(id) PROVE UsedInv'
<1>1. MAX_BLOCKS' = MAX_BLOCKS /\ mounted
  BY DEF DeleteFile, IsDeleted
<1>2. CASE CanDelete(id)
  <2>1. disk'.inodes = DeletedInodes(id) /\ disk'.free = DeletedFree(id)
    BY <1>1, <1>2, DeleteDisks DEF DeleteFile
  <2>2. InMemory
    BY <1>1 DEF ListsInv
  <2>3. ASSUME NEW b \in DataBlocks, DeletedFree(id)[b] = BLOCK_USED
        PROVE  \E i \in Inodes : DeletedInodes(id)[i].block_no = b
    <3>1. b # DeletedBlock(id) /\ free_blocks[b] = BLOCK_USED
      BY <1>1, <1>2, <2>3, DeletedFacts, Sizes DEF ListsInv, BLOCK_USED, BLOCK_FREE
    <3>2. PICK i \in Inodes : inodes[i].block_no = b
      BY <2>2, <3>1 DEF UsedInv, UsedNamed, InMemory
    <3>3. i # LookupFile(id)
      BY <3>1, <3>2 DEF DeletedBlock
    <3>. QED
      BY <1>1, <1>2, <3>2, <3>3, DeletedFacts DEF ListsInv
  <2>. QED
    BY <1>1, <2>1, <2>3 DEF UsedInv, UsedNamed
<1>3. CASE ~CanDelete(id)
  BY <1>1, <1>3 DEF DeleteFile, UsedInv, UsedNamed
<1>. QED
  BY <1>2, <1>3

LEMMA NextUsed ==
    ASSUME "stop" \notin Uses, ListsInv, UsedInv, [Next]_vars PROVE UsedInv'
<1>1. ASSUME NEW id \in Ids, CreateFile(id) \/ DeleteFile(id) PROVE UsedInv'
  BY <1>1, CreateUsed, DeleteUsed
<1>2. ASSUME NEW h \in Handles, NEW s \in Texts, Write(h, s) PROVE UsedInv'
  <2>1. h \in InUse /\ MAX_BLOCKS' = MAX_BLOCKS
    BY <1>2 DEF Write
  <2>2. disk'.inodes = disk.inodes /\ disk'.free = disk.free
    BY <1>2, <2>1, WriteFacts
  <2>. QED
    BY <2>1, <2>2 DEF UsedInv, UsedNamed
<1>3. CASE Format \/ Stop
  BY <1>3 DEF Format, Stop, Stopped, UsedInv
<1>4. CASE UNCHANGED <<disk, MAX_BLOCKS>>
  BY <1>4 DEF UsedInv, UsedNamed
<1>5. Mount \/ Unmount \/ UNCHANGED vars => UNCHANGED <<disk, MAX_BLOCKS>>
  BY DEF Mount, Unmount, vars
<1>6. \A id \in Ids, h \in Handles : Open(h, id) => UNCHANGED <<disk, MAX_BLOCKS>>
  BY DEF Open
<1>7. \A h \in Handles : /\ Close(h) \/ Reset(h) => UNCHANGED <<disk, MAX_BLOCKS>>
                         /\ \A n \in Counts : Read(h, n) => UNCHANGED <<disk, MAX_BLOCKS>>
  BY DEF Close, Reset, Read
<1>. QED
  BY <1>1, <1>2, <1>3, <1>4, <1>5, <1>6, <1>7 DEF Next

(***************************************************************************)
(* DeleteFile clears what it frees, and nothing writes into a free block:  *)
(* handles write into the blocks of their files.                           *)
(***************************************************************************)
ZeroInv == \A b \in DataBlocks : disk.free[b] = BLOCK_FREE => disk.data[b] = Zeros

LEMMA InitZero == Init => ZeroInv
<1>. SUFFICES ASSUME Init PROVE ZeroInv
  OBVIOUS
<1>1. [b \in PlainBlocks |-> Zeros] \in [PlainBlocks -> Contents]
  BY DEF Zeros, Contents, Chars
<1>2. disk.data = [b \in PlainBlocks |-> Zeros]
  BY <1>1, FormattedSound DEF Init
<1>. QED
  BY <1>2, Sizes DEF ZeroInv

LEMMA CreateZero ==
    ASSUME ListsInv, ZeroInv, NEW id \in Ids, CreateFile(id) PROVE ZeroInv'
<1>1. mounted
  BY DEF CreateFile
<1>2. CASE CanCreate(id)
  <2>1. disk'.data = disk.data /\ disk'.free = CreatedFree
    BY <1>1, <1>2, CreateDisks DEF CreateFile
  <2>2. \A b \in DataBlocks : CreatedFree[b] = BLOCK_FREE => disk.free[b] = BLOCK_FREE
    BY <1>1, <1>2, CreatedFacts, Sizes DEF ListsInv, InMemory, BLOCK_FREE, BLOCK_USED
  <2>. QED
    BY <2>1, <2>2 DEF ZeroInv
<1>3. CASE ~CanCreate(id)
  BY <1>3 DEF CreateFile, ZeroInv
<1>. QED
  BY <1>2, <1>3

LEMMA DeleteZero ==
    ASSUME ListsInv, ZeroInv, NEW id \in Ids, DeleteFile(id) PROVE ZeroInv'
<1>1. mounted
  BY DEF DeleteFile, IsDeleted
<1>2. CASE CanDelete(id)
  <2>1. /\ disk'.data = [disk.data EXCEPT ![DeletedBlock(id)] = Zeros]
        /\ disk'.free = DeletedFree(id)
    BY <1>1, <1>2, DeleteDisks DEF DeleteFile
  <2>2. \A b \in DataBlocks :
           DeletedFree(id)[b] = BLOCK_FREE => b = DeletedBlock(id) \/ disk.free[b] = BLOCK_FREE
    BY <1>1, <1>2, DeletedFacts, Sizes DEF ListsInv, InMemory
  <2>3. DOMAIN disk.data = PlainBlocks
    BY DEF ListsInv, Sound, DiskType
  <2>. QED
    BY <2>1, <2>2, <2>3, Sizes DEF ZeroInv
<1>3. CASE ~CanDelete(id)
  BY <1>3 DEF DeleteFile, ZeroInv
<1>. QED
  BY <1>2, <1>3

LEMMA WriteZero ==
    ASSUME ListsInv, HandlesInv, UsedInv, ZeroInv, NEW h \in Handles, NEW s \in Texts, Write(h, s)
    PROVE  ZeroInv'
<1>. DEFINE c == handles[h].block_no
<1>1. h \in InUse
  BY DEF Write
<1>2. /\ disk'.free = disk.free /\ disk'.data = [disk.data EXCEPT ![c] = Written(h, s)]
      /\ DOMAIN disk.data = PlainBlocks
  BY <1>1, WriteFacts DEF ListsInv, Sound, DiskType
<1>3. disk.free[c] # BLOCK_FREE
  BY <1>1, OwnedInode, NamesOfMemory DEF UsedInv, ListsInv, InMemory
<1>4. \A b \in DataBlocks : b # c => disk'.data[b] = disk.data[b]
  BY <1>2, Sizes
<1>. QED
  BY <1>2, <1>3, <1>4 DEF ZeroInv

LEMMA NextZero ==
    ASSUME "stop" \notin Uses, ListsInv, HandlesInv, UsedInv, ZeroInv, [Next]_vars
    PROVE  ZeroInv'
<1>1. ASSUME NEW id \in Ids, CreateFile(id) \/ DeleteFile(id) PROVE ZeroInv'
  BY <1>1, CreateZero, DeleteZero
<1>2. ASSUME NEW h \in Handles, NEW s \in Texts, Write(h, s) PROVE ZeroInv'
  BY <1>2, WriteZero
<1>3. CASE Format \/ Stop
  BY <1>3 DEF Format, Stop, Stopped, UsedInv
<1>4. CASE UNCHANGED disk
  BY <1>4 DEF ZeroInv
<1>5. Mount \/ Unmount \/ UNCHANGED vars => UNCHANGED disk
  BY DEF Mount, Unmount, vars
<1>6. \A id \in Ids, h \in Handles : Open(h, id) => UNCHANGED disk
  BY DEF Open
<1>7. \A h \in Handles : /\ Close(h) \/ Reset(h) => UNCHANGED disk
                         /\ \A n \in Counts : Read(h, n) => UNCHANGED disk
  BY DEF Close, Reset, Read
<1>. QED
  BY <1>1, <1>2, <1>3, <1>4, <1>5, <1>6, <1>7 DEF Next

-----------------------------------------------------------------------------
(***************************************************************************)
(* While the machine does not stop, the free list marks exactly the blocks *)
(* of files as used, and both lists on the disk are those in memory, even  *)
(* with clients that delete open or missing files (but open none that are  *)
(* missing: such a handle may write into a list).                          *)
(***************************************************************************)
THEOREM ListsStayInStep ==
    ASSUME Uses \cap {"stop", "open missing"} = {} PROVE Spec => []ListsAgree
<1>1. ListsInv /\ UsedInv => ListsAgree
  <2>. SUFFICES ASSUME ListsInv, UsedInv, mounted
                PROVE  /\ \A b \in DataBlocks :
                             Cardinality(NamedBy(b)) = IF free_blocks[b] = BLOCK_USED THEN 1 ELSE 0
                       /\ disk.free = free_blocks
                       /\ \A i \in Inodes :
                             Named(i) = <<disk.inodes[i].id, disk.inodes[i].block_no>>
    BY DEF ListsAgree, DataBlocks
  <2>1. InMemory /\ Apart(inodes) /\ free_blocks \in FreeType
        /\ \A b \in DataBlocks, i \in Inodes : free_blocks[b] = BLOCK_FREE => inodes[i].block_no # b
    BY NamesOfMemory DEF ListsInv, UsedInv
  <2>2. ASSUME NEW b \in DataBlocks
        PROVE  Cardinality(NamedBy(b)) = IF free_blocks[b] = BLOCK_USED THEN 1 ELSE 0
    <3>1. CASE free_blocks[b] = BLOCK_USED
      <4>1. PICK i \in Inodes : inodes[i].block_no = b
        BY <2>1, <3>1 DEF UsedInv, UsedNamed, InMemory
      <4>2. NamedBy(b) = {i}
        BY <2>1, <4>1, Sizes DEF NamedBy, Apart
      <4>. QED
        BY <3>1, <4>2, FS_Singleton
    <3>2. CASE free_blocks[b] # BLOCK_USED
      <4>1. free_blocks[b] = BLOCK_FREE
        BY <2>1, <3>2, Sizes DEF FreeType
      <4>2. NamedBy(b) = {}
        BY <2>1, <4>1 DEF NamedBy
      <4>. QED
        BY <3>2, <4>2, FS_EmptySet
    <3>. QED
      BY <3>1, <3>2
  <2>. QED
    BY <2>1, <2>2 DEF InMemory, Named
<1>2. ListsInv /\ UsedInv /\ [Next]_vars => UsedInv'
  BY NextUsed
<1>3. Spec => []ListsInv
  BY AlwaysLists
<1>. QED
  BY <1>1, <1>2, <1>3, InitUsed, PTL DEF Spec

(***************************************************************************)
(* With careful clients and a machine that does not stop, what             *)
(* GetFreeBlock (file_system.C) finds may be given to a file: nobody has   *)
(* it, and nothing of the file that had it is left in it.                  *)
(***************************************************************************)
THEOREM BlocksAreReusable ==
    ASSUME Uses \cap {"stop", "stale", "open missing", "delete missing"} = {}
    PROVE  Spec => []BlocksReusable
<1>1. "stop" \notin Uses /\ Careful
  BY DEF Careful
<1>2. ListsInv /\ UsedInv /\ [Next]_vars => UsedInv'
  BY <1>1, NextUsed
<1>3. ListsInv /\ HandlesInv /\ UsedInv /\ ZeroInv /\ [Next]_vars => ZeroInv'
  BY <1>1, NextZero
<1>4. ListsInv /\ ZeroInv => FreeBlocksZero
  BY DEF ListsInv, InMemory, ZeroInv, FreeBlocksZero, DataBlocks
<1>5. ListsAgree /\ FreeBlocksZero => BlocksReusable
  BY DEF BlocksReusable
<1>6. Spec => []HandlesInv
  BY <1>1, AlwaysHandles
<1>7. Spec => []ListsAgree
  BY <1>1, ListsStayInStep DEF Careful
<1>8. Spec => []ListsInv
  BY <1>1, AlwaysLists DEF Careful
<1>. QED
  BY <1>2, <1>3, <1>4, <1>5, <1>6, <1>7, <1>8, InitUsed, InitZero, PTL DEF Spec
=============================================================================
