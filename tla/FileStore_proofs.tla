--------------------------- MODULE FileStore_proofs ---------------------------
(***************************************************************************)
(* With one handle per file, files that exist, one mount and no stop, the  *)
(* file system of mp7 implements the store of texts of FileStore, for any  *)
(* number of files and handles and any sizes of the disk and its lists.    *)
(***************************************************************************)
EXTENDS FileSystem_proofs

\* The refinement mapping of Store, by name.
FileIds == {f \in Ids : Exists(f)}
Text(id) == SubSeq(disk.data[inodes[LookupFile(id)].block_no], 1, SizeOf(id))
Files  == [id \in FileIds |-> Text(id)]
Opened == [h \in InUse |-> [id |-> handles[h].id, position |-> handles[h].last]]
Answer == CASE done.call \in {"CreateFile", "DeleteFile"} -> <<done.answer>>
            [] done.call \in {"Read", "Write"} -> done.answer
            [] OTHER -> Quiet

(***************************************************************************)
(* What the mapping needs beyond the invariants of the lists and handles:  *)
(* before the mount there are no files; an inode that is free has no size; *)
(* a file has one handle, which alone knows its size; and that handle is   *)
(* not behind the end of the text.                                         *)
(***************************************************************************)
BeforeMount ==
    ~mounted => /\ done.call = "Format"
                /\ \A i \in Inodes : inodes[i] = FreeInode /\ disk.inodes[i] = FreeInode
FreeSizes   == \A i \in Inodes : inodes[i].block_no = NoBlock => inodes[i].file_size = 0
OneHandle   == \A g, h \in InUse : g # h => handles[g].id # handles[h].id
WithinText  == \A h \in InUse : handles[h].last <= handles[h].size

StoreInv == BeforeMount /\ FreeSizes /\ OneHandle /\ WithinText
FilesInv == ListsInv /\ HandlesInv /\ UsedInv /\ StoreInv

-----------------------------------------------------------------------------
LEMMA InitStore == Init => StoreInv
<1>. SUFFICES ASSUME Init PROVE StoreInv
  OBVIOUS
<1>1. [b \in PlainBlocks |-> Zeros] \in [PlainBlocks -> Contents]
  BY DEF Zeros, Contents, Chars
<1>2. disk.inodes = [i \in Inodes |-> FreeInode] /\ inodes = [i \in Inodes |-> FreeInode]
  BY <1>1, FormattedSound DEF Init
<1>3. done.call = "Format" /\ InUse = {}
  BY DEF Init, Called, InUse
<1>. QED
  BY <1>2, <1>3 DEF StoreInv, BeforeMount, FreeSizes, OneHandle, WithinText, FreeInode

\* A call on a mounted file system leaves it mounted: what is left to show.
LEMMA StillMounted ==
    ASSUME mounted' = TRUE, FreeSizes', OneHandle', WithinText' PROVE StoreInv'
BY DEF StoreInv, BeforeMount

LEMMA SameOpen ==
    ASSUME StoreInv, handles' = handles PROVE OneHandle' /\ WithinText'
BY DEF StoreInv, OneHandle, WithinText, InUse

LEMMA CreateStore == ASSUME FilesInv, NEW id \in Ids, CreateFile(id) PROVE StoreInv'
<1>1. mounted /\ mounted' /\ handles' = handles /\ ListsInv /\ StoreInv
  BY DEF CreateFile, FilesInv
<1>2. FreeSizes'
  <2>1. CASE CanCreate(id)
    <3>1. inodes' = CreatedInodes(id) /\ GetFreeBlock # NoBlock
      BY <1>1, <2>1, FreeBlockFacts, Sizes DEF CreateFile, CanCreate, ListsInv, StateType
    <3>2. ASSUME NEW i \in Inodes, inodes'[i].block_no = NoBlock PROVE inodes'[i].file_size = 0
      <4>1. i = GetFreeInode =>
               inodes'[i] = [id |-> id, block_no |-> GetFreeBlock, file_size |-> inodes[i].file_size]
        BY <1>1, <2>1, <3>1, CreatedFacts DEF ListsInv
      <4>2. i # GetFreeInode
        BY <3>1, <3>2, <4>1
      <4>3. inodes'[i] = inodes[i]
        BY <1>1, <2>1, <3>1, <4>2, CreatedFacts DEF ListsInv
      <4>. QED
        BY <1>1, <3>2, <4>3 DEF StoreInv, FreeSizes
    <3>. QED
      BY <3>2 DEF FreeSizes
  <2>2. CASE ~CanCreate(id)
    BY <1>1, <2>2 DEF CreateFile, StoreInv, FreeSizes
  <2>. QED
    BY <2>1, <2>2
<1>. QED
  BY <1>1, <1>2, SameOpen, StillMounted

LEMMA DeleteStore == ASSUME FilesInv, NEW id \in Ids, DeleteFile(id) PROVE StoreInv'
<1>1. mounted /\ mounted' /\ handles' = handles /\ ListsInv /\ StoreInv
  BY DEF DeleteFile, IsDeleted, FilesInv
<1>2. FreeSizes'
  <2>1. CASE CanDelete(id)
    <3>1. inodes' = DeletedInodes(id)
      BY <2>1 DEF DeleteFile
    <3>2. \A i \in Inodes : inodes'[i] = inodes[i] \/ inodes'[i] = FreeInode
      BY <1>1, <2>1, <3>1, DeletedFacts DEF ListsInv
    <3>. QED
      BY <1>1, <3>2 DEF StoreInv, FreeSizes, FreeInode
  <2>2. CASE ~CanDelete(id)
    BY <1>1, <2>2 DEF DeleteFile, StoreInv, FreeSizes
  <2>. QED
    BY <2>1, <2>2
<1>. QED
  BY <1>1, <1>2, SameOpen, StillMounted

\* The handle that Open fills in.
LEMMA OpenedHandle ==
    ASSUME Uses = {}, ListsInv, NEW id \in Ids, NEW h \in Handles, Open(h, id)
    PROVE  /\ mounted /\ h \notin InUse /\ Exists(id) /\ ~HasHandle(id)
           /\ handles'[h] = [id |-> id, inode |-> LookupFile(id),
                             block_no |-> inodes[LookupFile(id)].block_no, last |-> 0,
                             size |-> inodes[LookupFile(id)].file_size]
           /\ handles'[h].id = id /\ handles'[h].last = 0
           /\ handles'[h].size = inodes[LookupFile(id)].file_size
           /\ inodes[LookupFile(id)].file_size \in 0 .. BlockSize
           /\ \A o \in Handles : o # h => handles'[o] = handles[o]
           /\ InUse' = InUse \cup {h}
<1>. DEFINE i == LookupFile(id)
            new == [id |-> id, inode |-> i, block_no |-> inodes[i].block_no, last |-> 0,
                    size |-> inodes[i].file_size]
<1>1. mounted /\ h \notin InUse /\ Exists(id) /\ ~HasHandle(id)
  BY DEF Open
<1>2. handles' = [handles EXCEPT ![h] = new]
  BY <1>1 DEF Open
<1>3. DOMAIN handles = Handles /\ inodes \in ListType /\ i \in Inodes
      /\ handles' \in [Handles -> HandleType \cup {NoHandle}]
  BY OpenLists, LookupFacts DEF ListsInv, StateType
<1>4. new.id = id /\ new.last = 0 /\ new.size = inodes[i].file_size
  OBVIOUS
<1>. HIDE DEF i, new
<1>5. handles'[h] = new /\ \A o \in Handles : o # h => handles'[o] = handles[o]
  BY <1>2, <1>3
<1>6. inodes[i].file_size \in 0 .. BlockSize
  BY <1>3 DEF ListType, InodeType
<1>7. new # NoHandle
  <2>1. Exists(id) /\ inodes[i].id = id
    BY <1>1, LookupFacts DEF i
  <2>2. /\ i \in Inodes /\ IdWithBlock(inodes) /\ inodes[i].file_size \in 0 .. BlockSize
        /\ inodes[i].block_no \in {NoBlock} \cup DataBlocks
    BY <1>1, <1>3, NamesOfMemory DEF ListType, InodeType, DataBlocks
  <2>3. inodes[i].block_no \in 2 .. NumBlocks - 1 /\ 0 \in 0 .. BlockSize
    BY <2>1, <2>2, Sizes DEF IdWithBlock, DataBlocks
  <2>4. new \in HandleType
    BY <2>2, <2>3, Sizes DEF HandleType, new
  <2>. QED
    BY <2>4, HandleAssumption
<1>. QED
  BY <1>1, <1>4, <1>5, <1>6, <1>7 DEF InUse, i, new

LEMMA OpenStore ==
    ASSUME Uses = {}, FilesInv, NEW id \in Ids, NEW h \in Handles, Open(h, id) PROVE StoreInv'
<1>1. ListsInv /\ StoreInv /\ mounted' = mounted /\ inodes' = inodes
  BY DEF FilesInv, Open
<1>2. /\ mounted /\ h \notin InUse /\ ~HasHandle(id)
      /\ handles'[h].id = id /\ handles'[h].last = 0 /\ handles'[h].size \in 0 .. BlockSize
      /\ \A o \in Handles : o # h => handles'[o] = handles[o]
      /\ InUse' = InUse \cup {h}
  BY <1>1, OpenedHandle
<1>3. \A o \in InUse : o \in Handles /\ o # h /\ handles[o].id # id
  BY <1>2 DEF InUse, HasHandle
<1>4. OneHandle'
  BY <1>1, <1>2, <1>3 DEF StoreInv, OneHandle
<1>5. WithinText'
  BY <1>1, <1>2, <1>3 DEF StoreInv, WithinText
<1>. QED
  BY <1>1, <1>2, <1>4, <1>5, StillMounted DEF StoreInv, FreeSizes

LEMMA CloseStore == ASSUME FilesInv, NEW h \in Handles, Close(h) PROVE StoreInv'
<1>1. /\ ListsInv /\ HandlesInv /\ StoreInv /\ mounted' = mounted /\ h \in InUse
      /\ inodes' = ClosedInodes(h) /\ handles' = [handles EXCEPT ![h] = NoHandle]
  BY DEF FilesInv, Close
<1>2. mounted /\ inodes[handles[h].inode].block_no # NoBlock /\ DOMAIN handles = Handles
  BY <1>1, OwnedInode DEF ListsInv, StateType
<1>3. InUse' \subseteq InUse /\ \A o \in InUse' : handles'[o] = handles[o]
  BY <1>1, <1>2 DEF InUse
<1>4. FreeSizes'
  <2>1. ASSUME NEW i \in Inodes, inodes'[i].block_no = NoBlock PROVE inodes'[i].file_size = 0
    <3>1. inodes[i].block_no = NoBlock
      BY <1>1, <2>1, ClosedFacts DEF ListsInv
    <3>2. i # handles[h].inode
      BY <1>2, <3>1
    <3>3. inodes'[i] = inodes[i]
      BY <1>1, <3>2 DEF ClosedInodes, ListsInv, StateType, ListType
    <3>. QED
      BY <1>1, <3>1, <3>3 DEF StoreInv, FreeSizes
  <2>. QED
    BY <2>1 DEF FreeSizes
<1>5. OneHandle' /\ WithinText'
  BY <1>1, <1>3 DEF StoreInv, OneHandle, WithinText
<1>. QED
  BY <1>1, <1>2, <1>4, <1>5, StillMounted

\* Read, Write and Reset: one handle moves, within its text.
LEMMA MoveStore ==
    ASSUME FilesInv, NEW h \in InUse, mounted' = mounted, inodes' = inodes,
           InUse' = InUse, \A o \in InUse : handles'[o].id = handles[o].id,
           \A o \in InUse : o # h => handles'[o] = handles[o],
           handles'[h].last <= handles'[h].size
    PROVE  StoreInv'
<1>1. mounted /\ StoreInv
  BY OwnedInode DEF FilesInv
<1>2. FreeSizes' /\ OneHandle' /\ WithinText'
  BY <1>1 DEF StoreInv, FreeSizes, OneHandle, WithinText
<1>. QED
  BY <1>1, <1>2, StillMounted

\* A move of a handle, field by field.
LEMMA NewHandle ==
    ASSUME ListsInv, NEW h \in InUse, NEW x \in HandleType,
           handles' = [handles EXCEPT ![h] = x], x.id = handles[h].id
    PROVE  /\ InUse' = InUse
           /\ \A o \in InUse : handles'[o].id = handles[o].id
           /\ \A o \in InUse : o # h => handles'[o] = handles[o]
           /\ handles'[h] = x
<1>1. DOMAIN handles = Handles /\ h \in Handles
  BY HandleInUse DEF ListsInv, StateType
<1>2. \A o \in Handles : handles'[o] = IF o = h THEN x ELSE handles[o]
  BY <1>1
<1>3. x # NoHandle
  BY HandleAssumption
<1>. QED
  BY <1>1, <1>2, <1>3 DEF InUse

LEMMA MoveFacts ==
    ASSUME ListsInv, NEW h \in InUse, NEW last \in 0 .. BlockSize,
           handles' = [handles EXCEPT ![h].last = last]
    PROVE  /\ InUse' = InUse
           /\ \A o \in InUse : handles'[o].id = handles[o].id
           /\ \A o \in InUse : o # h => handles'[o] = handles[o]
           /\ handles'[h].last = last /\ handles'[h].size = handles[h].size
<1>. DEFINE x == [handles[h] EXCEPT !.last = last]
<1>1. handles[h] \in HandleType
  BY HandleInUse DEF ListsInv
<1>2. x \in HandleType /\ x.id = handles[h].id /\ x.last = last /\ x.size = handles[h].size
  BY <1>1 DEF HandleType
<1>3. handles' = [handles EXCEPT ![h] = x]
  OBVIOUS
<1>. HIDE DEF x
<1>. QED
  BY <1>2, <1>3, NewHandle

LEMMA WrittenHandle ==
    ASSUME ListsInv, NEW h \in InUse, NEW last \in 0 .. BlockSize, NEW n \in 0 .. BlockSize,
           handles' = [handles EXCEPT ![h].last = last, ![h].size = n]
    PROVE  /\ InUse' = InUse
           /\ \A o \in InUse : handles'[o].id = handles[o].id
           /\ \A o \in InUse : o # h => handles'[o] = handles[o]
           /\ handles'[h].last = last /\ handles'[h].size = n
<1>. DEFINE x == [[handles[h] EXCEPT !.last = last] EXCEPT !.size = n]
<1>1. handles[h] \in HandleType /\ DOMAIN handles = Handles /\ h \in Handles
  BY HandleInUse DEF ListsInv, StateType
<1>2. x \in HandleType /\ x.id = handles[h].id /\ x.last = last /\ x.size = n
  BY <1>1 DEF HandleType
<1>3. handles' = [handles EXCEPT ![h] = x]
  BY <1>1
<1>. HIDE DEF x
<1>. QED
  BY <1>2, <1>3, NewHandle

LEMMA ReadFacts ==
    ASSUME FilesInv, NEW h \in InUse, NEW n \in Counts
    PROVE  /\ ReadTo(h, n) \in 0 .. BlockSize
           /\ ReadTo(h, n) = Lesser(handles[h].last + n, handles[h].size)
           /\ ReadTo(h, n) <= handles[h].size
<1>1. n \in Nat /\ handles[h].last \in 0 .. BlockSize /\ handles[h].size \in 0 .. BlockSize
  BY HandleInUse, FileSystemAssumption DEF ListsInv, FilesInv
<1>2. handles[h].last <= handles[h].size
  BY DEF FilesInv, StoreInv, WithinText
<1>. QED
  BY <1>1, <1>2, Sizes DEF ReadTo, Greater, Lesser

LEMMA NextStore == ASSUME Uses = {}, FilesInv, [Next]_vars PROVE StoreInv'
<1>1. ListsInv /\ HandlesInv /\ UsedInv /\ StoreInv
  BY DEF FilesInv
<1>2. ~(Format \/ Unmount \/ Stop)
  BY <1>1 DEF Format, Unmount, Stop, Stopped, UsedInv
<1>3. CASE Mount
  <2>1. mounted' = TRUE /\ ~mounted /\ inodes' = disk.inodes /\ handles' = handles
    BY <1>3 DEF Mount
  <2>2. FreeSizes'
    BY <1>1, <2>1 DEF StoreInv, BeforeMount, FreeSizes, FreeInode
  <2>. QED
    BY <1>1, <2>1, <2>2, SameOpen, StillMounted
<1>4. ASSUME NEW id \in Ids, CreateFile(id) \/ DeleteFile(id) \/ \E h \in Handles : Open(h, id)
      PROVE  StoreInv'
  BY <1>4, CreateStore, DeleteStore, OpenStore
<1>5. ASSUME NEW h \in Handles, Close(h) PROVE StoreInv'
  BY <1>5, CloseStore
<1>6. ASSUME NEW h \in Handles, Reset(h) PROVE StoreInv'
  <2>1. h \in InUse /\ mounted' = mounted /\ inodes' = inodes
        /\ handles' = [handles EXCEPT ![h].last = 0]
    BY <1>6 DEF Reset
  <2>2. 0 \in 0 .. BlockSize /\ handles[h].size \in 0 .. BlockSize
    BY <1>1, <2>1, Sizes, HandleInUse DEF ListsInv
  <2>3. /\ InUse' = InUse /\ \A o \in InUse : handles'[o].id = handles[o].id
        /\ \A o \in InUse : o # h => handles'[o] = handles[o]
        /\ handles'[h].last = 0 /\ handles'[h].size = handles[h].size
    BY <1>1, <2>1, <2>2, MoveFacts
  <2>4. handles'[h].last <= handles'[h].size
    BY <2>2, <2>3
  <2>. QED
    BY <2>1, <2>3, <2>4, MoveStore
<1>7. ASSUME NEW h \in Handles, NEW n \in Counts, Read(h, n) PROVE StoreInv'
  <2>1. h \in InUse /\ mounted' = mounted /\ inodes' = inodes
        /\ handles' = [handles EXCEPT ![h].last = ReadTo(h, n)]
    BY <1>7 DEF Read
  <2>2. ReadTo(h, n) \in 0 .. BlockSize /\ handles[h].size \in 0 .. BlockSize
        /\ ReadTo(h, n) <= handles[h].size
    BY <1>1, <2>1, HandleInUse, ReadFacts DEF ListsInv
  <2>3. /\ InUse' = InUse /\ \A o \in InUse : handles'[o].id = handles[o].id
        /\ \A o \in InUse : o # h => handles'[o] = handles[o]
        /\ handles'[h].last = ReadTo(h, n) /\ handles'[h].size = handles[h].size
    BY <1>1, <2>1, <2>2, MoveFacts
  <2>. QED
    BY <2>1, <2>2, <2>3, MoveStore
<1>8. ASSUME NEW h \in Handles, NEW s \in Texts, Write(h, s) PROVE StoreInv'
  <2>. DEFINE to == WriteTo(h, s)
              m  == Greater(handles[h].size, to)
  <2>1. h \in InUse /\ mounted' = mounted /\ inodes' = inodes
        /\ handles' = [handles EXCEPT ![h].last = to, ![h].size = m]
    BY <1>8 DEF Write
  <2>2. to \in 0 .. BlockSize /\ handles[h].size \in 0 .. BlockSize
    BY <1>1, <1>8, <2>1, HandleInUse, WriteMoves DEF ListsInv
  <2>3. m \in 0 .. BlockSize /\ to <= m
    BY <2>2 DEF Greater
  <2>. HIDE DEF to, m
  <2>4. /\ InUse' = InUse /\ \A o \in InUse : handles'[o].id = handles[o].id
        /\ \A o \in InUse : o # h => handles'[o] = handles[o]
        /\ handles'[h].last = to /\ handles'[h].size = m
    BY <1>1, <2>1, <2>2, <2>3, WrittenHandle, Zenon
  <2>. QED
    BY <2>1, <2>3, <2>4, MoveStore
<1>9. CASE UNCHANGED vars
  BY <1>1, <1>9 DEF vars, StoreInv, BeforeMount, FreeSizes, OneHandle, WithinText, InUse
<1>. QED
  BY <1>2, <1>3, <1>4, <1>5, <1>6, <1>7, <1>8, <1>9 DEF Next

LEMMA AlwaysFiles == ASSUME Uses = {} PROVE Spec => []FilesInv
<1>1. "stop" \notin Uses /\ "open missing" \notin Uses /\ Careful
  BY DEF Careful
<1>2. FilesInv /\ [Next]_vars => StoreInv'
  BY NextStore
<1>3. ListsInv /\ UsedInv /\ [Next]_vars => UsedInv'
  BY <1>1, NextUsed
<1>4. FilesInv <=> ListsInv /\ HandlesInv /\ UsedInv /\ StoreInv
  BY DEF FilesInv
<1>5. Spec => []HandlesInv
  BY <1>1, AlwaysHandles
<1>6. Spec => []ListsInv
  BY <1>1, AlwaysLists
<1>. QED
  BY <1>2, <1>3, <1>4, <1>5, <1>6, InitUsed, InitStore, PTL DEF Spec

-----------------------------------------------------------------------------
(***************************************************************************)
(* Where a file is: LookupFile finds the one inode with its id, and the    *)
(* size is that of the file's handle, if there is one.                     *)
(***************************************************************************)
LEMMA FileAt ==
    FilesInv /\ mounted =>
        \A i \in Inodes, id \in Ids : inodes[i].id = id =>
            Exists(id) /\ LookupFile(id) = i /\ inodes[i].block_no \in DataBlocks
            /\ inodes[i].file_size \in 0 .. BlockSize
<1>. SUFFICES ASSUME FilesInv, mounted, NEW i \in Inodes, NEW id \in Ids, inodes[i].id = id
              PROVE  Exists(id) /\ LookupFile(id) = i /\ inodes[i].block_no \in DataBlocks
                     /\ inodes[i].file_size \in 0 .. BlockSize
  OBVIOUS
<1>1. /\ ListsInv /\ inodes \in ListType
      /\ IdWithBlock(inodes) /\ Apart(inodes)
  BY NamesOfMemory DEF FilesInv
<1>2. Exists(id)
  BY DEF Exists, WithId
<1>3. LookupFile(id) \in Inodes /\ inodes[LookupFile(id)].id = id
  BY <1>2, LookupFacts
<1>4. inodes[i].block_no # NoBlock
  BY <1>1 DEF IdWithBlock
<1>5. inodes[i].block_no \in DataBlocks /\ inodes[i].file_size \in 0 .. BlockSize
  BY <1>1, <1>4 DEF ListType, InodeType, DataBlocks
<1>. QED
  BY <1>1, <1>2, <1>3, <1>4, <1>5 DEF Apart

LEMMA ExistsAt == \A id \in Ids : Exists(id) <=> \E i \in Inodes : inodes[i].id = id
BY DEF Exists, WithId

LEMMA SizeOfOpen ==
    FilesInv => \A h \in InUse : SizeOf(handles[h].id) = handles[h].size
<1>. SUFFICES ASSUME FilesInv, NEW h \in InUse PROVE SizeOf(handles[h].id) = handles[h].size
  OBVIOUS
<1>. DEFINE g == CHOOSE o \in InUse : handles[o].id = handles[h].id
<1>1. g \in InUse /\ handles[g].id = handles[h].id
  OBVIOUS
<1>2. g = h
  BY <1>1 DEF FilesInv, StoreInv, OneHandle
<1>3. HasHandle(handles[h].id)
  BY DEF HasHandle
<1>. HIDE DEF g
<1>4. SizeOf(handles[h].id) = handles[g].size
  BY <1>3 DEF SizeOf, g
<1>. QED
  BY <1>2, <1>4

LEMMA SizeOfClosed ==
    \A id \in Ids : (\A h \in InUse : handles[h].id # id) =>
        SizeOf(id) = inodes[LookupFile(id)].file_size
BY DEF SizeOf, HasHandle

LEMMA OpenAt ==
    FilesInv => \A h \in InUse :
        /\ mounted /\ handles[h].id \in Ids /\ handles[h].inode \in Inodes
        /\ Exists(handles[h].id) /\ LookupFile(handles[h].id) = handles[h].inode
        /\ inodes[handles[h].inode].id = handles[h].id
        /\ inodes[handles[h].inode].block_no = handles[h].block_no
        /\ handles[h].block_no \in DataBlocks
        /\ handles[h].last \in 0 .. BlockSize /\ handles[h].size \in 0 .. BlockSize
        /\ handles[h].last <= handles[h].size
<1>. SUFFICES ASSUME FilesInv, NEW h \in InUse
              PROVE  /\ mounted /\ handles[h].id \in Ids /\ handles[h].inode \in Inodes
                     /\ Exists(handles[h].id) /\ LookupFile(handles[h].id) = handles[h].inode
                     /\ inodes[handles[h].inode].id = handles[h].id
                     /\ inodes[handles[h].inode].block_no = handles[h].block_no
                     /\ handles[h].block_no \in DataBlocks
                     /\ handles[h].last \in 0 .. BlockSize /\ handles[h].size \in 0 .. BlockSize
                     /\ handles[h].last <= handles[h].size
  OBVIOUS
<1>1. ListsInv /\ HandlesInv /\ StoreInv
  BY DEF FilesInv
<1>2. /\ handles[h].id \in Ids /\ handles[h].inode \in Inodes
      /\ handles[h].last \in 0 .. BlockSize /\ handles[h].size \in 0 .. BlockSize
  BY <1>1, HandleInUse DEF ListsInv
<1>3. /\ inodes[handles[h].inode].id = handles[h].id /\ mounted
      /\ inodes[handles[h].inode].block_no = handles[h].block_no
      /\ handles[h].block_no \in DataBlocks
  BY <1>1, OwnedInode
<1>4. handles[h].last <= handles[h].size
  BY <1>1 DEF StoreInv, WithinText
<1>. QED
  BY <1>2, <1>3, <1>4, FileAt

\* The contents of a file, character by character.
LEMMA TextOf ==
    FilesInv /\ mounted => \A id \in FileIds :
        /\ SizeOf(id) \in 0 .. BlockSize
        /\ LookupFile(id) \in Inodes /\ inodes[LookupFile(id)].id = id
        /\ inodes[LookupFile(id)].block_no \in DataBlocks
        /\ Text(id) = [c \in 1 .. SizeOf(id) |-> disk.data[inodes[LookupFile(id)].block_no][c]]
        /\ Text(id) \in Seq(Chars) /\ Len(Text(id)) = SizeOf(id)
<1>. SUFFICES ASSUME FilesInv, mounted, NEW id \in FileIds
              PROVE  /\ SizeOf(id) \in 0 .. BlockSize
                     /\ LookupFile(id) \in Inodes /\ inodes[LookupFile(id)].id = id
                     /\ inodes[LookupFile(id)].block_no \in DataBlocks
                     /\ Text(id) = [c \in 1 .. SizeOf(id) |->
                                       disk.data[inodes[LookupFile(id)].block_no][c]]
                     /\ Text(id) \in Seq(Chars) /\ Len(Text(id)) = SizeOf(id)
  OBVIOUS
<1>. DEFINE i == LookupFile(id)
            d == disk.data[inodes[i].block_no]
<1>1. id \in Ids /\ i \in Inodes /\ inodes[i].id = id
  BY LookupFacts DEF FileIds
<1>2. inodes[i].block_no \in DataBlocks /\ inodes[i].file_size \in 0 .. BlockSize
  BY <1>1, FileAt
<1>3. SizeOf(id) \in 0 .. BlockSize
  <2>1. CASE \E h \in InUse : handles[h].id = id
    BY <2>1, SizeOfOpen, OpenAt
  <2>2. CASE \A h \in InUse : handles[h].id # id
    BY <1>1, <1>2, <2>2, SizeOfClosed
  <2>. QED
    BY <2>1, <2>2
<1>4. d \in [1 .. BlockSize -> Chars]
  BY <1>2, Sizes DEF FilesInv, ListsInv, Sound, DiskType, Contents
<1>. HIDE DEF d
<1>5. d \in Seq(Chars) /\ Len(d) = BlockSize
  BY <1>4, Sizes
<1>6. /\ SubSeq(d, 1, SizeOf(id)) \in Seq(Chars)
      /\ Len(SubSeq(d, 1, SizeOf(id))) = SizeOf(id)
      /\ \A c \in 1 .. SizeOf(id) : SubSeq(d, 1, SizeOf(id))[c] = d[c]
  BY <1>3, <1>5, Sizes, SubSeqProperties
<1>7. SubSeq(d, 1, SizeOf(id)) = [c \in 1 .. SizeOf(id) |-> d[c]]
  BY <1>6
<1>. QED
  BY <1>1, <1>2, <1>3, <1>6, <1>7 DEF Text, d

-----------------------------------------------------------------------------
(***************************************************************************)
(* CreateFile succeeds exactly if fewer files exist than fit: files, used  *)
(* inodes and used blocks are equally many.                                *)
(***************************************************************************)
LEMMA CapacityLemma ==
    ASSUME FilesInv, mounted
    PROVE  GetFreeBlock # -1 /\ GetFreeInode # -1
           <=> Cardinality(FileIds) < Lesser(MAX_INODES, NumBlocks - 2)
<1>. DEFINE nodes  == {i \in Inodes : inodes[i].block_no # NoBlock}
            blocks == {b \in DataBlocks : free_blocks[b] = BLOCK_USED}
            idOf    == [i \in nodes |-> inodes[i].id]
            blockOf == [i \in nodes |-> inodes[i].block_no]
<1>1. /\ ListsInv /\ UsedInv /\ InMemory /\ inodes \in ListType /\ free_blocks \in FreeType
      /\ IdWithBlock(inodes) /\ Apart(inodes) /\ MAX_BLOCKS = NumBlocks
      /\ \A b \in DataBlocks, i \in Inodes : free_blocks[b] = BLOCK_FREE => inodes[i].block_no # b
  BY NamesOfMemory DEF FilesInv, UsedInv, ListsInv, StateType
<1>2. IsFiniteSet(Inodes) /\ Cardinality(Inodes) = MAX_INODES
  BY Sizes, FS_Interval DEF Inodes
<1>3. IsFiniteSet(DataBlocks) /\ Cardinality(DataBlocks) = NumBlocks - 2
  BY Sizes, FS_Interval DEF DataBlocks
<1>4. /\ IsFiniteSet(nodes) /\ Cardinality(nodes) <= MAX_INODES
      /\ Cardinality(nodes) = MAX_INODES => nodes = Inodes
      /\ Cardinality(nodes) \in Nat
  BY <1>2, FS_Subset, FS_CardinalityType
<1>5. /\ IsFiniteSet(blocks) /\ Cardinality(blocks) <= NumBlocks - 2
      /\ Cardinality(blocks) = NumBlocks - 2 => blocks = DataBlocks
      /\ Cardinality(blocks) \in Nat
  BY <1>3, FS_Subset, FS_CardinalityType
<1>6. Cardinality(FileIds) = Cardinality(nodes)
  <2>1. idOf \in [nodes -> FileIds]
    BY <1>1, ExistsAt DEF IdWithBlock, FileIds
  <2>2. \A i, j \in nodes : idOf[i] = idOf[j] => i = j
    BY <1>1 DEF Apart
  <2>3. \A id \in FileIds : \E i \in nodes : idOf[i] = id
    BY <1>1, ExistsAt DEF FileIds, IdWithBlock
  <2>4. idOf \in Bijection(nodes, FileIds)
    BY <2>1, <2>2, <2>3 DEF Bijection, Injection, Surjection, IsInjective
  <2>. QED
    BY <1>4, <2>4, FS_Bijection DEF ExistsBijection
<1>7. Cardinality(blocks) = Cardinality(nodes)
  <2>1. blockOf \in [nodes -> blocks]
    BY <1>1, Sizes DEF ListType, InodeType, FreeType, DataBlocks
  <2>2. \A i, j \in nodes : blockOf[i] = blockOf[j] => i = j
    BY <1>1 DEF Apart
  <2>3. \A b \in blocks : \E i \in nodes : blockOf[i] = b
    BY <1>1, Sizes DEF UsedInv, UsedNamed, InMemory
  <2>4. blockOf \in Bijection(nodes, blocks)
    BY <2>1, <2>2, <2>3 DEF Bijection, Injection, Surjection, IsInjective
  <2>. QED
    BY <1>4, <2>4, FS_Bijection DEF ExistsBijection
<1>8. GetFreeInode # -1 <=> nodes # Inodes
  <2>. DEFINE T == {i \in Inodes : inodes[i].block_no = NoBlock}
  <2>1. T \subseteq Nat /\ (T # {} <=> nodes # Inodes)
    BY Sizes
  <2>2. GetFreeInode = Least(T)
    BY DEF GetFreeInode
  <2>3. Least(T) # -1 <=> T # {}
    BY <2>1, LeastLemma
  <2>. QED
    BY <2>1, <2>2, <2>3
<1>9. GetFreeBlock # -1 <=> blocks # DataBlocks
  <2>. DEFINE T == {b \in 2 .. MAX_BLOCKS - 1 : free_blocks[b] = BLOCK_FREE}
  <2>1. T \subseteq Nat /\ T = {b \in DataBlocks : free_blocks[b] = BLOCK_FREE}
    BY <1>1, Sizes DEF DataBlocks
  <2>2. T # {} <=> blocks # DataBlocks
    BY <1>1, <2>1, Sizes DEF FreeType, BLOCK_FREE, BLOCK_USED
  <2>3. GetFreeBlock = Least(T)
    BY DEF GetFreeBlock
  <2>4. Least(T) # -1 <=> T # {}
    BY <2>1, LeastLemma
  <2>. QED
    BY <2>2, <2>3, <2>4
<1>. HIDE DEF nodes, blocks
<1>10. /\ nodes = Inodes <=> Cardinality(nodes) = MAX_INODES
       /\ blocks = DataBlocks <=> Cardinality(blocks) = NumBlocks - 2
  BY <1>2, <1>3, <1>4, <1>5
<1>. QED
  BY <1>4, <1>5, <1>6, <1>7, <1>8, <1>9, <1>10, Sizes DEF Lesser

-----------------------------------------------------------------------------
(***************************************************************************)
(* The same facts, of files and inodes that the next step does not move:   *)
(* which files exist, what size they have, and what is in them.            *)
(***************************************************************************)
FilesAt ==
    /\ FileIds = {id \in Ids : \E i \in Inodes : inodes[i].id = id}
    /\ \A id \in Ids : \A h \in InUse : handles[h].id = id => SizeOf(id) = handles[h].size
    /\ \A id \in Ids : \A i \in Inodes :
          inodes[i].id = id /\ (\A h \in InUse : handles[h].id # id) =>
              SizeOf(id) = inodes[i].file_size
    /\ \A id \in Ids : \A i \in Inodes : inodes[i].id = id =>
          /\ SizeOf(id) \in 0 .. BlockSize
          /\ Text(id) = [c \in 1 .. SizeOf(id) |-> disk.data[inodes[i].block_no][c]]
          /\ Text(id) \in Seq(Chars) /\ Len(Text(id)) = SizeOf(id)

LEMMA FilesAreAt == FilesInv /\ mounted => FilesAt
<1>. SUFFICES ASSUME FilesInv, mounted PROVE FilesAt
  OBVIOUS
<1>1. FileIds = {id \in Ids : \E i \in Inodes : inodes[i].id = id}
  BY ExistsAt DEF FileIds
<1>2. ASSUME NEW id \in Ids, NEW h \in InUse, handles[h].id = id
      PROVE  SizeOf(id) = handles[h].size
  BY <1>2, SizeOfOpen
<1>3. ASSUME NEW id \in Ids, NEW i \in Inodes, inodes[i].id = id
      PROVE  /\ id \in FileIds /\ LookupFile(id) = i
  BY <1>3, FileAt DEF FileIds
<1>4. ASSUME NEW id \in Ids, NEW i \in Inodes, inodes[i].id = id,
             \A h \in InUse : handles[h].id # id
      PROVE  SizeOf(id) = inodes[i].file_size
  BY <1>3, <1>4, SizeOfClosed
<1>5. ASSUME NEW id \in Ids, NEW i \in Inodes, inodes[i].id = id
      PROVE  /\ SizeOf(id) \in 0 .. BlockSize
             /\ Text(id) = [c \in 1 .. SizeOf(id) |-> disk.data[inodes[i].block_no][c]]
             /\ Text(id) \in Seq(Chars) /\ Len(Text(id)) = SizeOf(id)
  BY <1>3, <1>5, TextOf
<1>. QED
  BY <1>1, <1>2, <1>4, <1>5 DEF FilesAt

LEMMA FilesAreAtNext == FilesInv' /\ mounted' => FilesAt'
BY FilesAreAt, PTL

\* A file that a step does not touch: its size, and then its text.
LEMMA KeptSize ==
    ASSUME FilesAt, FilesAt', NEW id \in Ids, NEW i \in Inodes, inodes[i].id = id,
           inodes'[i].id = id, inodes'[i].file_size = inodes[i].file_size,
           \A h \in InUse : handles[h].id = id =>
               h \in InUse' /\ handles'[h].id = id /\ handles'[h].size = handles[h].size,
           \A h \in InUse' : handles'[h].id = id => h \in InUse /\ handles[h].id = id
    PROVE  SizeOf(id)' = SizeOf(id)
BY DEF FilesAt

LEMMA KeptText ==
    ASSUME FilesAt, FilesAt', NEW id \in Ids, NEW i \in Inodes, inodes[i].id = id,
           inodes'[i].id = id, inodes'[i].block_no = inodes[i].block_no,
           disk'.data[inodes[i].block_no] = disk.data[inodes[i].block_no],
           SizeOf(id)' = SizeOf(id)
    PROVE  id \in FileIds /\ id \in FileIds' /\ Text(id)' = Text(id)
BY DEF FilesAt

\* The file that a handle is open on.
LEMMA OpenText ==
    ASSUME FilesInv, NEW h \in InUse
    PROVE  /\ handles[h].id \in FileIds
           /\ Files[handles[h].id] = Text(handles[h].id)
           /\ Opened[h].id = handles[h].id /\ Opened[h].position = handles[h].last
           /\ Text(handles[h].id)
              = [c \in 1 .. handles[h].size |-> disk.data[handles[h].block_no][c]]
           /\ Text(handles[h].id) \in Seq(Chars) /\ Len(Text(handles[h].id)) = handles[h].size
<1>1. /\ mounted /\ handles[h].id \in Ids /\ handles[h].inode \in Inodes
      /\ inodes[handles[h].inode].id = handles[h].id
      /\ inodes[handles[h].inode].block_no = handles[h].block_no
      /\ Exists(handles[h].id)
  BY OpenAt
<1>2. FilesAt
  BY <1>1, FilesAreAt
<1>3. handles[h].id \in FileIds
  BY <1>1 DEF FileIds
<1>4. Files[handles[h].id] = Text(handles[h].id)
  BY <1>3 DEF Files
<1>5. Opened[h].id = handles[h].id /\ Opened[h].position = handles[h].last
  BY DEF Opened
<1>6. PICK id \in Ids, i \in Inodes : id = handles[h].id /\ i = handles[h].inode
  BY <1>1
<1>7. SizeOf(id) = handles[h].size
  BY <1>2, <1>6 DEF FilesAt
<1>8. /\ Text(id) = [c \in 1 .. SizeOf(id) |-> disk.data[inodes[i].block_no][c]]
      /\ Text(id) \in Seq(Chars) /\ Len(Text(id)) = SizeOf(id)
  BY <1>1, <1>2, <1>6 DEF FilesAt
<1>. QED
  BY <1>1, <1>3, <1>4, <1>5, <1>6, <1>7, <1>8

-----------------------------------------------------------------------------
(***************************************************************************)
(* Each call is the call of the store of the same name.                    *)
(***************************************************************************)
\* The instance of FileStore has a Cardinality of its own, defined in the same words.
LEMMA SameCardinality == \A S : Store!Cardinality(S) = Cardinality(S)
BY Zenon DEF Store!Cardinality, Cardinality

LEMMA CreateIsCreate ==
    ASSUME FilesInv, FilesInv', NEW id \in Ids, CreateFile(id)
    PROVE  Store!CreateFile(id)
<1>1. /\ mounted /\ mounted' /\ handles' = handles /\ ListsInv /\ FilesAt /\ FilesAt'
      /\ InUse' = InUse
  BY FilesAreAt, FilesAreAtNext DEF CreateFile, FilesInv, InUse
<1>2. DOMAIN Files = FileIds /\ (id \in FileIds <=> Exists(id))
  BY DEF Files, FileIds
<1>3. CanCreate(id) <=> /\ id \notin DOMAIN Files
                        /\ Cardinality(DOMAIN Files) < Lesser(MAX_INODES, NumBlocks - 2)
  BY <1>1, <1>2, CapacityLemma DEF CanCreate
<1>4. CASE ~CanCreate(id)
  <2>1. Files' = Files
    <3>1. UNCHANGED <<disk, inodes, handles>>
      BY <1>1, <1>4 DEF CreateFile
    <3>. QED
      BY <3>1, Zenon DEF Files, FileIds, Exists, WithId, Text, LookupFile, SizeOf, HasHandle, InUse
  <2>2. Opened' = Opened
    BY <1>1 DEF Opened
  <2>3. done'.call = "CreateFile" /\ done'.answer = FALSE
    <3>1. CanCreate(id) = FALSE
      BY <1>4
    <3>2. done' = Called("CreateFile", id, FALSE)
      BY <3>1, Zenon DEF CreateFile
    <3>. QED
      BY <3>2 DEF Called
  <2>4. Answer' = <<FALSE>>
    BY <2>3 DEF Answer
  <2>5. ~(/\ id \notin DOMAIN Files
          /\ Store!Cardinality(DOMAIN Files) < Lesser(MAX_INODES, NumBlocks - 2))
    BY <1>3, <1>4, SameCardinality
  <2>. QED
    BY <2>1, <2>2, <2>4, <2>5 DEF Store!CreateFile, Files, FileIds, Text, Opened, Answer
<1>5. CASE CanCreate(id)
  <2>. DEFINE n == GetFreeInode
  <2>1. /\ inodes' = CreatedInodes(id) /\ n \in Inodes /\ inodes[n].block_no = NoBlock
        /\ disk'.data = disk.data
    BY <1>1, <1>5, CreateDisks, FreeInodeFacts DEF CreateFile, CanCreate
  <2>2. /\ inodes'[n].id = id /\ inodes'[n].file_size = inodes[n].file_size
        /\ \A i \in Inodes : i # n => inodes'[i] = inodes[i]
    <3>1. /\ inodes'[n] = [id |-> id, block_no |-> GetFreeBlock, file_size |-> inodes[n].file_size]
          /\ \A i \in Inodes : i # n => inodes'[i] = inodes[i]
      BY <1>1, <1>5, <2>1, CreatedFacts DEF ListsInv
    <3>. QED
      BY <3>1
  <2>3. inodes[n].id \notin Ids /\ inodes[n].file_size = 0
    BY <1>1, <2>1, NamesOfMemory DEF IdWithBlock, FilesInv, StoreInv, FreeSizes
  <2>. HIDE DEF n
  <2>4. FileIds' = FileIds \cup {id}
    BY <1>1, <2>1, <2>2, <2>3 DEF FilesAt
  <2>5. \A x \in FileIds : Text(x)' = Text(x)
    <3>. SUFFICES ASSUME NEW x \in FileIds PROVE Text(x)' = Text(x)
      OBVIOUS
    <3>1. PICK i \in Inodes : x \in Ids /\ inodes[i].id = x
      BY <1>1 DEF FilesAt
    <3>2. i # n /\ inodes'[i] = inodes[i]
      BY <2>2, <2>3, <3>1
    <3>3. SizeOf(x)' = SizeOf(x)
      BY <1>1, <3>1, <3>2, KeptSize
    <3>. QED
      BY <1>1, <2>1, <3>1, <3>2, <3>3, KeptText
  <2>6. Text(id)' = <<>>
    <3>1. \A h \in InUse' : handles'[h].id # id
      BY <1>1, <1>2, <1>3, <1>5, OpenText
    <3>2. SizeOf(id)' = 0
      BY <1>1, <2>1, <2>2, <2>3, <3>1 DEF FilesAt
    <3>3. Text(id)' \in Seq(Chars) /\ Len(Text(id)') = 0
      BY <1>1, <2>1, <2>2, <3>2 DEF FilesAt
    <3>. QED
      BY <3>3
  <2>7. Files' = Store!Put(Files, id, <<>>)
    <3>1. Store!Put(Files, id, <<>>) = [x \in FileIds \cup {id} |-> IF x = id THEN <<>> ELSE Text(x)]
      BY DEF Store!Put, Files
    <3>2. Files' = [x \in FileIds' |-> Text(x)']
      BY DEF Files
    <3>. QED
      BY <2>4, <2>5, <2>6, <3>1, <3>2
  <2>8. Opened' = Opened
    BY <1>1 DEF Opened
  <2>9. Answer' = <<TRUE>>
    <3>1. CanCreate(id) = TRUE
      BY <1>5
    <3>2. done' = Called("CreateFile", id, TRUE)
      BY <3>1, Zenon DEF CreateFile
    <3>3. done'.call = "CreateFile" /\ done'.answer = TRUE
      BY <3>2 DEF Called
    <3>. QED
      BY <3>3 DEF Answer
  <2>10. /\ id \notin DOMAIN Files
         /\ Store!Cardinality(DOMAIN Files) < Lesser(MAX_INODES, NumBlocks - 2)
    BY <1>3, <1>5, SameCardinality
  <2>. QED
    BY <2>7, <2>8, <2>9, <2>10 DEF Store!CreateFile, Files, FileIds, Text, Opened, Answer
<1>. QED
  BY <1>4, <1>5

LEMMA DeleteIsDelete ==
    ASSUME Uses = {}, FilesInv, FilesInv', NEW id \in Ids, DeleteFile(id)
    PROVE  Store!DeleteFile(id)
<1>1. /\ mounted /\ mounted' /\ handles' = handles /\ ListsInv /\ FilesAt /\ FilesAt'
      /\ InUse' = InUse /\ Exists(id) /\ ~HasHandle(id)
  BY FilesAreAt, FilesAreAtNext DEF DeleteFile, IsDeleted, FilesInv, InUse
<1>. DEFINE n == LookupFile(id)
<1>2. /\ n \in Inodes /\ inodes[n].id = id /\ inodes[n].block_no # NoBlock
      /\ IdWithBlock(inodes) /\ Apart(inodes)
  BY <1>1, LookupFacts, NamesOfMemory DEF IdWithBlock
<1>3. CanDelete(id)
  BY <1>2 DEF CanDelete
<1>4. /\ inodes' = DeletedInodes(id)
      /\ disk'.data = [disk.data EXCEPT ![DeletedBlock(id)] = Zeros]
      /\ \A i \in Inodes : inodes'[i] = IF i = n THEN FreeInode ELSE inodes[i]
      /\ DeletedBlock(id) = inodes[n].block_no
  <2>1. inodes' = DeletedInodes(id) /\ disk' = Last(DeleteWrites(id))
    BY <1>3 DEF DeleteFile
  <2>2. disk'.data = [disk.data EXCEPT ![DeletedBlock(id)] = Zeros]
    BY <1>1, <1>3, <2>1, DeleteDisks
  <2>3. \A i \in Inodes : inodes'[i] = IF i = n THEN FreeInode ELSE inodes[i]
    BY <1>1, <1>3, <2>1, DeletedFacts DEF ListsInv
  <2>. QED
    BY <2>1, <2>2, <2>3 DEF DeletedBlock
<1>5. FreeInode.id = NoId /\ NoId \notin Ids
  BY FileSystemAssumption DEF FreeInode
<1>. HIDE DEF n
<1>6. FileIds' = FileIds \ {id}
  <2>1. \A i \in Inodes : i # n => inodes[i].id # id
    BY <1>2 DEF Apart
  <2>. QED
    BY <1>1, <1>2, <1>4, <1>5, <2>1 DEF FilesAt
<1>7. \A x \in FileIds \ {id} : Text(x)' = Text(x)
  <2>. SUFFICES ASSUME NEW x \in FileIds \ {id} PROVE Text(x)' = Text(x)
    OBVIOUS
  <2>1. PICK i \in Inodes : x \in Ids /\ inodes[i].id = x
    BY <1>1 DEF FilesAt
  <2>2. i # n /\ inodes'[i] = inodes[i]
    BY <1>2, <1>4, <2>1
  <2>3. inodes[i].block_no # DeletedBlock(id)
    BY <1>2, <1>4, <2>2 DEF Apart
  <2>4. disk'.data[inodes[i].block_no] = disk.data[inodes[i].block_no]
    BY <1>1, <1>4, <2>3 DEF ListsInv, Sound, DiskType
  <2>5. SizeOf(x)' = SizeOf(x)
    BY <1>1, <2>1, <2>2, KeptSize
  <2>. QED
    BY <1>1, <2>1, <2>2, <2>4, <2>5, KeptText
<1>8. Files' = Store!Without(Files, id)
  <2>1. Store!Without(Files, id) = [x \in FileIds \ {id} |-> Text(x)]
    BY DEF Store!Without, Store!Restrict, Files
  <2>2. Files' = [x \in FileIds' |-> Text(x)']
    BY DEF Files
  <2>. QED
    BY <1>6, <1>7, <2>1, <2>2
<1>9. Opened' = Opened
  BY <1>1 DEF Opened
<1>10. Answer' = <<TRUE>>
  <2>1. CanDelete(id) = TRUE
    BY <1>3
  <2>2. done' = Called("DeleteFile", id, TRUE)
    BY <2>1, Zenon DEF DeleteFile
  <2>3. done'.call = "DeleteFile" /\ done'.answer = TRUE
    BY <2>2 DEF Called
  <2>. QED
    BY <2>3 DEF Answer
<1>11. id \in DOMAIN Files /\ \A h \in DOMAIN Opened : Opened[h].id # id
  BY <1>1 DEF HasHandle, Files, FileIds, Opened
<1>. QED
  BY <1>8, <1>9, <1>10, <1>11 DEF Store!DeleteFile, Files, FileIds, Text, Opened, Answer

\* Calls on handles leave all names and blocks: only the sizes are to be compared.
LEMMA SameFiles ==
    ASSUME FilesAt, FilesAt', disk' = disk,
           \A i \in Inodes : inodes'[i].id = inodes[i].id /\ inodes'[i].block_no = inodes[i].block_no,
           \A x \in Ids : \A i \in Inodes : inodes[i].id = x => SizeOf(x)' = SizeOf(x)
    PROVE  Files' = Files
<1>1. FileIds' = FileIds
  BY DEF FilesAt
<1>2. ASSUME NEW x \in FileIds PROVE Text(x)' = Text(x)
  <2>1. PICK i \in Inodes : x \in Ids /\ inodes[i].id = x
    BY DEF FilesAt
  <2>. QED
    BY <2>1, KeptText
<1>3. Files' = [x \in FileIds' |-> Text(x)']
  BY DEF Files
<1>. QED
  BY <1>1, <1>2, <1>3 DEF Files

LEMMA OpenIsOpen ==
    ASSUME Uses = {}, FilesInv, FilesInv', NEW id \in Ids, NEW h \in Handles, Open(h, id)
    PROVE  Store!Open(h, id)
<1>1. /\ ListsInv /\ UNCHANGED <<disk, inodes, mounted>>
      /\ done' = Called("Open", id, Quiet)
  BY DEF Open, FilesInv
<1>. DEFINE n == LookupFile(id)
<1>2. /\ mounted /\ h \notin InUse /\ Exists(id) /\ ~HasHandle(id)
      /\ handles'[h].id = id /\ handles'[h].last = 0
      /\ handles'[h].size = inodes[n].file_size
      /\ \A o \in Handles : o # h => handles'[o] = handles[o]
      /\ InUse' = InUse \cup {h} /\ InUse \subseteq Handles
  <2>1. InUse \subseteq Handles
    BY DEF InUse
  <2>. QED
    BY <1>1, <2>1, OpenedHandle
<1>3. /\ FilesAt /\ FilesAt' /\ n \in Inodes /\ inodes[n].id = id
      /\ Apart(inodes) /\ IdWithBlock(inodes)
  BY <1>1, <1>2, FilesAreAt, FilesAreAtNext, LookupFacts, NamesOfMemory
<1>. HIDE DEF n
<1>4. ASSUME NEW x \in Ids, NEW i \in Inodes, inodes[i].id = x PROVE SizeOf(x)' = SizeOf(x)
  <2>1. CASE x = id
    <3>1. \A o \in InUse : handles[o].id # id
      BY <1>2 DEF HasHandle
    <3>2. SizeOf(id) = inodes[n].file_size
      BY <1>3, <3>1 DEF FilesAt
    <3>3. SizeOf(id)' = handles'[h].size
      BY <1>2, <1>3 DEF FilesAt
    <3>. QED
      BY <1>2, <2>1, <3>2, <3>3
  <2>2. CASE x # id
    BY <1>1, <1>2, <1>3, <1>4, <2>2, KeptSize
  <2>. QED
    BY <2>1, <2>2
<1>5. Files' = Files
  BY <1>1, <1>3, <1>4, SameFiles
<1>6. Opened' = Store!Put(Opened, h, [id |-> id, position |-> 0])
  BY <1>2 DEF Opened, Store!Put
<1>7. Answer' = Quiet
  <2>1. done'.call = "Open"
    BY <1>1 DEF Called
  <2>. QED
    BY <2>1 DEF Answer
<1>8. id \in DOMAIN Files /\ h \notin DOMAIN Opened
  BY <1>2 DEF Files, FileIds, Opened
<1>. QED
  BY <1>5, <1>6, <1>7, <1>8 DEF Store!Open, Files, FileIds, Text, Opened, Answer

LEMMA CloseIsClose ==
    ASSUME FilesInv, FilesInv', NEW h \in Handles, Close(h)
    PROVE  Store!Close(h)
<1>1. /\ ListsInv /\ UNCHANGED <<disk, mounted>> /\ h \in InUse
      /\ inodes' = ClosedInodes(h) /\ handles' = [handles EXCEPT ![h] = NoHandle]
      /\ done' = Called("Close", handles[h].id, Quiet)
  BY DEF Close, FilesInv
<1>2. PICK id \in Ids, n \in Inodes :
         /\ id = handles[h].id /\ n = handles[h].inode /\ mounted /\ inodes[n].id = id
  BY <1>1, OpenAt
<1>3. FilesAt /\ FilesAt' /\ Apart(inodes) /\ IdWithBlock(inodes)
  BY <1>1, <1>2, FilesAreAt, FilesAreAtNext, NamesOfMemory
<1>4. InUse' = InUse \ {h} /\ \A o \in InUse' : handles'[o] = handles[o]
  BY <1>1 DEF InUse, ListsInv, StateType
<1>5. /\ \A i \in Inodes : /\ inodes'[i].id = inodes[i].id
                           /\ inodes'[i].block_no = inodes[i].block_no
      /\ \A i \in Inodes : i # n => inodes'[i] = inodes[i]
      /\ inodes'[n].file_size = handles[h].size
  <2>1. \A i \in Inodes : /\ inodes'[i].id = inodes[i].id
                          /\ inodes'[i].block_no = inodes[i].block_no
    BY <1>1, ClosedFacts DEF ListsInv
  <2>2. inodes' = [inodes EXCEPT ![n] = [inodes[n] EXCEPT !.file_size = handles[h].size]]
    BY <1>1, <1>2 DEF ClosedInodes
  <2>3. inodes \in ListType
    BY <1>1 DEF ListsInv, StateType
  <2>4. inodes[n] \in InodeType /\ DOMAIN inodes = Inodes
    BY <2>3 DEF ListType
  <2>5. [inodes[n] EXCEPT !.file_size = handles[h].size].file_size = handles[h].size
    BY <2>4 DEF InodeType
  <2>. QED
    BY <2>1, <2>2, <2>4, <2>5
<1>6. ASSUME NEW x \in Ids, NEW i \in Inodes, inodes[i].id = x PROVE SizeOf(x)' = SizeOf(x)
  <2>1. CASE x = id
    <3>1. SizeOf(id) = handles[h].size
      BY <1>1, <1>2, <1>3 DEF FilesAt
    <3>2. \A o \in InUse' : handles'[o].id # id
      BY <1>1, <1>2, <1>4 DEF FilesInv, StoreInv, OneHandle
    <3>3. SizeOf(id)' = inodes'[n].file_size
      BY <1>2, <1>3, <1>5, <3>2 DEF FilesAt
    <3>. QED
      BY <1>5, <2>1, <3>1, <3>3
  <2>2. CASE x # id
    <3>1. i # n /\ inodes'[i] = inodes[i]
      BY <1>2, <1>5, <1>6, <2>2
    <3>. QED
      BY <1>2, <1>3, <1>4, <1>6, <2>2, <3>1, KeptSize
  <2>. QED
    BY <2>1, <2>2
<1>7. Files' = Files
  BY <1>1, <1>3, <1>5, <1>6, SameFiles
<1>8. Opened' = Store!Without(Opened, h)
  BY <1>4 DEF Opened, Store!Without, Store!Restrict
<1>9. Answer' = Quiet
  <2>1. done'.call = "Close"
    BY <1>1 DEF Called
  <2>. QED
    BY <2>1 DEF Answer
<1>. QED
  BY <1>7, <1>8, <1>9 DEF Store!Close, Files, FileIds, Text, Opened, Answer

\* A handle that moves without writing.
LEMMA Moved ==
    ASSUME FilesInv, FilesInv', NEW h \in InUse, NEW last \in 0 .. BlockSize,
           UNCHANGED <<disk, inodes, mounted>>,
           handles' = [handles EXCEPT ![h].last = last]
    PROVE  /\ Files' = Files
           /\ Opened' = [Opened EXCEPT ![h].position = last]
<1>1. FilesAt /\ FilesAt' /\ handles[h].size \in 0 .. BlockSize /\ ListsInv
  BY OpenAt, FilesAreAt, FilesAreAtNext DEF FilesInv
<1>2. /\ InUse' = InUse
      /\ \A o \in InUse : handles'[o].id = handles[o].id
      /\ \A o \in InUse : o # h => handles'[o] = handles[o]
      /\ handles'[h].last = last /\ handles'[h].size = handles[h].size
  BY <1>1, MoveFacts
<1>3. \A x \in Ids : \A i \in Inodes : inodes[i].id = x => SizeOf(x)' = SizeOf(x)
  BY <1>1, <1>2, KeptSize
<1>4. Files' = Files
  BY <1>1, <1>3, SameFiles
<1>5. Opened' = [Opened EXCEPT ![h].position = last]
  BY <1>2 DEF Opened
<1>. QED
  BY <1>4, <1>5

LEMMA ResetIsReset ==
    ASSUME FilesInv, FilesInv', NEW h \in Handles, Reset(h)
    PROVE  Store!Reset(h)
<1>1. /\ h \in InUse /\ UNCHANGED <<disk, inodes, mounted>>
      /\ handles' = [handles EXCEPT ![h].last = 0]
      /\ done' = Called("Reset", handles[h].id, Quiet)
      /\ 0 \in 0 .. BlockSize
  BY Sizes DEF Reset
<1>2. Files' = Files /\ Opened' = [Opened EXCEPT ![h].position = 0]
  BY <1>1, Moved
<1>3. Answer' = Quiet
  <2>1. done'.call = "Reset"
    BY <1>1 DEF Called
  <2>. QED
    BY <2>1 DEF Answer
<1>. QED
  BY <1>2, <1>3 DEF Store!Reset, Files, FileIds, Text, Opened, Answer

LEMMA ReadIsRead ==
    ASSUME FilesInv, FilesInv', NEW h \in Handles, NEW n \in Counts, Read(h, n)
    PROVE  Store!Read(h, n)
<1>. DEFINE d    == disk.data[handles[h].block_no]
            text == Text(handles[h].id)
            from == handles[h].last
            to   == ReadTo(h, n)
<1>1. /\ h \in InUse /\ UNCHANGED <<disk, inodes, mounted>>
      /\ handles' = [handles EXCEPT ![h].last = to]
      /\ done' = Called("Read", handles[h].id, SubSeq(d, from + 1, to))
      /\ handles[h].block_no \in PlainBlocks
  <2>1. h \in InUse
    BY DEF Read
  <2>2. handles[h].block_no \in PlainBlocks
    BY <2>1, OpenAt, Sizes
  <2>. QED
    BY <2>1, <2>2 DEF Read, ReadFrom
<1>2. /\ to \in 0 .. BlockSize /\ to = Lesser(from + n, handles[h].size)
      /\ to <= handles[h].size /\ handles[h].size \in 0 .. BlockSize /\ from \in 0 .. BlockSize
  BY <1>1, ReadFacts, OpenAt
<1>3. Files' = Files /\ Opened' = [Opened EXCEPT ![h].position = to]
  BY <1>1, <1>2, Moved
<1>4. /\ Files[handles[h].id] = text /\ Opened[h].id = handles[h].id /\ Opened[h].position = from
      /\ text = [c \in 1 .. handles[h].size |-> d[c]]
      /\ text \in Seq(Chars) /\ Len(text) = handles[h].size
  BY <1>1, OpenText
<1>5. d \in Seq(Chars) /\ Len(d) = BlockSize
  <2>1. handles[h].block_no \in PlainBlocks
    BY <1>1
  <2>2. d \in [1 .. BlockSize -> Chars]
    BY <2>1 DEF FilesInv, ListsInv, Sound, DiskType, Contents
  <2>. HIDE DEF d
  <2>. QED
    BY <2>2, Sizes
<1>. HIDE DEF d, text, from, to
<1>6. SubSeq(d, from + 1, to) = SubSeq(text, from + 1, to)
  <2>1. \A c \in from + 1 .. to : c \in 1 .. Len(d) /\ c \in 1 .. Len(text) /\ d[c] = text[c]
    BY <1>2, <1>4, <1>5
  <2>. QED
    BY <1>2, <1>4, <1>5, <2>1
<1>7. Answer' = SubSeq(text, from + 1, to)
  <2>1. done'.call = "Read" /\ done'.answer = SubSeq(d, from + 1, to)
    BY <1>1 DEF Called
  <2>. QED
    BY <1>6, <2>1 DEF Answer
<1>8. to = Store!Lesser(from + n, Len(text))
  BY <1>2, <1>4 DEF Lesser, Store!Lesser
<1>9. /\ Answer' = SubSeq(Files[Opened[h].id], Opened[h].position + 1,
                          Store!Lesser(Opened[h].position + n, Len(Files[Opened[h].id])))
      /\ Opened' = [Opened EXCEPT ![h].position =
                       Store!Lesser(Opened[h].position + n, Len(Files[Opened[h].id]))]
  BY <1>3, <1>4, <1>7, <1>8
<1>. QED
  BY <1>3, <1>9 DEF Store!Read, Files, FileIds, Text, Opened, Answer

\* A text with a part written over, character by character.
Over(text, s, from, to) ==
    SubSeq(text, 1, from) \o SubSeq(s, 1, to - from) \o SubSeq(text, to + 1, Len(text))

LEMMA WrittenOver ==
    ASSUME NEW C, NEW text \in Seq(C), NEW s \in Seq(C), NEW from \in 0 .. Len(text),
           NEW to \in Nat, from <= to, to - from <= Len(s)
    PROVE  Over(text, s, from, to)
           = [c \in 1 .. Greater(Len(text), to) |->
                 IF c > from /\ c <= to THEN s[c - from] ELSE text[c]]
<1>. DEFINE a == SubSeq(text, 1, from)
            b == SubSeq(s, 1, to - from)
            e == SubSeq(text, to + 1, Len(text))
            n == Len(text)
<1>1. n \in Nat /\ from \in Nat /\ from <= n /\ Len(s) \in Nat
  OBVIOUS
<1>2. a \in Seq(C) /\ Len(a) = from /\ \A c \in 1 .. from : a[c] = text[c]
  BY <1>1
<1>3. b \in Seq(C) /\ Len(b) = to - from /\ \A c \in 1 .. to - from : b[c] = s[c]
  BY <1>1
<1>4. /\ e \in Seq(C) /\ Len(e) = IF to < n THEN n - to ELSE 0
      /\ \A c \in 1 .. Len(e) : e[c] = text[to + c]
  BY <1>1
<1>. HIDE DEF a, b, e, n
<1>5. Len(e) \in Nat /\ to + Len(e) = Greater(n, to)
  BY <1>1, <1>4 DEF Greater
<1>6. a \o b \in Seq(C) /\ Len(a \o b) = to
  <2>1. a \o b \in Seq(C) /\ Len(a \o b) = Len(a) + Len(b)
    BY <1>2, <1>3, ConcatProperties, Zenon
  <2>2. from + (to - from) = to
    BY <1>1
  <2>. QED
    BY <1>2, <1>3, <2>1, <2>2
<1>7. \A c \in 1 .. to : (a \o b)[c] = IF c > from THEN s[c - from] ELSE text[c]
  <2>. SUFFICES ASSUME NEW c \in 1 .. to
                PROVE  (a \o b)[c] = IF c > from THEN s[c - from] ELSE text[c]
    OBVIOUS
  <2>1. (a \o b)[c] = IF c <= from THEN a[c] ELSE b[c - from]
    <3>1. from + (to - from) = to
      BY <1>1
    <3>2. c \in 1 .. Len(a) + Len(b)
      BY <1>2, <1>3, <3>1
    <3>3. (a \o b)[c] = IF c <= Len(a) THEN a[c] ELSE b[c - Len(a)]
      BY <1>2, <1>3, <3>2, ConcatProperties, Zenon
    <3>. QED
      BY <1>2, <3>3
  <2>2. CASE c <= from
    <3>1. c \in 1 .. from /\ ~(c > from)
      BY <1>1, <2>2
    <3>. QED
      BY <1>2, <2>1, <2>2, <3>1
  <2>3. CASE c > from
    <3>1. c - from \in 1 .. to - from
      BY <1>1, <2>3
    <3>. QED
      BY <1>1, <1>3, <2>1, <2>3, <3>1
  <2>4. c <= from \/ c > from
    BY <1>1
  <2>. QED
    BY <2>2, <2>3, <2>4, Zenon
<1>. DEFINE d == a \o b
<1>8. d \in Seq(C) /\ Len(d) = to
  BY <1>6
<1>9. \A c \in 1 .. to : d[c] = IF c > from THEN s[c - from] ELSE text[c]
  BY <1>7
<1>. HIDE DEF d
<1>10. d \o e \in Seq(C) /\ Len(d \o e) = to + Len(e)
  BY <1>4, <1>8, ConcatProperties
<1>11. \A c \in 1 .. to + Len(e) : (d \o e)[c] = IF c <= to THEN d[c] ELSE e[c - to]
  BY <1>4, <1>8, ConcatProperties
<1>12. ASSUME NEW c \in 1 .. to + Len(e)
       PROVE  (d \o e)[c] = IF c > from /\ c <= to THEN s[c - from] ELSE text[c]
  <2>1. CASE c <= to
    <3>1. c \in 1 .. to
      BY <1>5, <2>1
    <3>2. (d \o e)[c] = d[c]
      BY <1>11, <2>1
    <3>. QED
      BY <1>9, <2>1, <3>1, <3>2
  <2>2. CASE c > to
    <3>1. c - to \in 1 .. Len(e) /\ to + (c - to) = c /\ ~(c <= to)
      BY <1>5, <2>2
    <3>2. (d \o e)[c] = text[c]
      BY <1>4, <1>11, <3>1
    <3>. QED
      BY <3>1, <3>2, Zenon
  <2>3. c <= to \/ c > to
    BY <1>5
  <2>. QED
    BY <2>1, <2>2, <2>3, Zenon
<1>13. DOMAIN (d \o e) = 1 .. to + Len(e)
  BY <1>10
<1>14. d \o e = [c \in 1 .. to + Len(e) |->
                    IF c > from /\ c <= to THEN s[c - from] ELSE text[c]]
  <2>. DEFINE g == d \o e
  <2>1. DOMAIN g = 1 .. to + Len(e) /\ g \in [1 .. to + Len(e) -> C]
    BY <1>10, <1>13, LenProperties
  <2>2. \A c \in 1 .. to + Len(e) : g[c] = IF c > from /\ c <= to THEN s[c - from] ELSE text[c]
    BY <1>12
  <2>3. g = [c \in DOMAIN g |-> g[c]]
    BY <2>1
  <2>. HIDE DEF g
  <2>4. g = [c \in 1 .. to + Len(e) |-> IF c > from /\ c <= to THEN s[c - from] ELSE text[c]]
    BY <2>1, <2>2, <2>3, Zenon
  <2>. QED
    BY <2>4 DEF g
<1>. QED
  BY <1>5, <1>14 DEF Over, a, b, d, e, n

LEMMA WriteIsWrite ==
    ASSUME FilesInv, FilesInv', NEW h \in Handles, NEW s \in Texts, Write(h, s)
    PROVE  Store!Write(h, s)
<1>. DEFINE b    == handles[h].block_no
            from == handles[h].last
            to   == WriteTo(h, s)
            m    == Greater(handles[h].size, to)
<1>1. /\ h \in InUse /\ UNCHANGED <<inodes, mounted>>
      /\ handles' = [handles EXCEPT ![h].last = to, ![h].size = m]
      /\ done' = Called("Write", handles[h].id, <<Len(s), WriteCount(h, s)>>)
      /\ ListsInv
  BY DEF Write, FilesInv
<1>2. PICK id \in Ids, n \in Inodes :
         /\ id = handles[h].id /\ n = handles[h].inode /\ mounted /\ inodes[n].id = id
         /\ inodes[n].block_no = b /\ b \in DataBlocks /\ b \in PlainBlocks /\ b # NoBlock
         /\ from \in 0 .. BlockSize /\ handles[h].size \in 0 .. BlockSize
         /\ from <= handles[h].size
  BY <1>1, OpenAt, Sizes
<1>3. /\ FilesAt /\ FilesAt' /\ Apart(inodes) /\ IdWithBlock(inodes)
      /\ disk.data \in [PlainBlocks -> Contents]
  BY <1>1, <1>2, FilesAreAt, FilesAreAtNext, NamesOfMemory DEF ListsInv, Sound, DiskType
<1>4. disk'.data = [disk.data EXCEPT ![b] = Written(h, s)] /\ to \in 0 .. BlockSize
  BY <1>1, WriteFacts, WriteMoves DEF ListsInv
<1>5. s \in Seq(Chars) /\ Len(s) \in Nat
  <2>1. s \in Seq(Range(s))
    BY FileSystemAssumption
  <2>2. Len(s) \in Nat /\ s \in [1 .. Len(s) -> Range(s)]
    BY <2>1, LenProperties
  <2>3. \A c \in 1 .. Len(s) : s[c] \in Chars
    BY DEF Chars
  <2>4. s \in [1 .. Len(s) -> Chars]
    BY <2>2, <2>3
  <2>. QED
    BY <2>2, <2>4, SeqDef
<1>6. to = Lesser(from + Len(s), BlockSize) /\ from <= to /\ to - from <= Len(s)
  BY <1>2, <1>5, Sizes DEF WriteTo, Lesser
<1>7. m \in 0 .. BlockSize
  BY <1>2, <1>4 DEF Greater
<1>8. Written(h, s) = [c \in 1 .. BlockSize |->
         IF c > from /\ c <= to THEN s[c - from] ELSE disk.data[b][c]]
  BY DEF Written
<1>. HIDE DEF b, from, to, m
<1>9. /\ InUse' = InUse
      /\ \A o \in InUse : handles'[o].id = handles[o].id
      /\ \A o \in InUse : o # h => handles'[o] = handles[o]
      /\ handles'[h].last = to /\ handles'[h].size = m
  <2>1. /\ h \in InUse /\ ListsInv
        /\ handles' = [handles EXCEPT ![h].last = to, ![h].size = m]
        /\ to \in 0 .. BlockSize /\ m \in 0 .. BlockSize
    BY <1>1, <1>4, <1>7
  <2>. QED
    BY <2>1, WrittenHandle, Zenon
<1>10. FileIds' = FileIds
  BY <1>1, <1>3 DEF FilesAt
<1>11. \A x \in FileIds \ {id} : Text(x)' = Text(x)
  <2>. SUFFICES ASSUME NEW x \in FileIds \ {id} PROVE Text(x)' = Text(x)
    OBVIOUS
  <2>1. PICK i \in Inodes : x \in Ids /\ inodes[i].id = x
    BY <1>3 DEF FilesAt
  <2>2. i # n /\ inodes[n].block_no # inodes[i].block_no
    BY <1>2, <1>3, <2>1 DEF Apart, IdWithBlock
  <2>3. disk'.data[inodes[i].block_no] = disk.data[inodes[i].block_no]
    BY <1>2, <1>3, <1>4, <2>2
  <2>4. SizeOf(x)' = SizeOf(x)
    BY <1>1, <1>2, <1>3, <1>9, <2>1, KeptSize
  <2>. QED
    BY <1>1, <1>3, <2>1, <2>3, <2>4, KeptText
<1>12. /\ id \in FileIds /\ Files[id] = Text(id)
       /\ Opened[h].id = id /\ Opened[h].position = from
       /\ Text(id) = [c \in 1 .. handles[h].size |-> disk.data[b][c]]
       /\ Text(id) \in Seq(Chars) /\ Len(Text(id)) = handles[h].size
  BY <1>1, <1>2, OpenText DEF b, from
<1>. DEFINE new == Over(Text(id), s, from, to)
<1>13. Text(id)' = new
  <2>1. SizeOf(id)' = m
    <3>1. h \in InUse' /\ handles'[h].id = id
      BY <1>1, <1>2, <1>9
    <3>. QED
      BY <1>3, <1>9, <3>1 DEF FilesAt
  <2>2. Text(id)' = [c \in 1 .. m |-> disk'.data[b][c]]
    <3>1. inodes'[n].id = id /\ inodes'[n].block_no = b
      BY <1>1, <1>2
    <3>2. Text(id)' = [c \in 1 .. SizeOf(id)' |-> disk'.data[inodes'[n].block_no][c]]
      BY <1>3, <3>1 DEF FilesAt
    <3>. QED
      BY <2>1, <3>1, <3>2
  <2>3. disk'.data[b] = Written(h, s)
    BY <1>2, <1>3, <1>4
  <2>4. Text(id)' = [c \in 1 .. m |-> IF c > from /\ c <= to THEN s[c - from] ELSE disk.data[b][c]]
    BY <1>7, <1>8, <2>2, <2>3, Sizes
  <2>5. from \in 0 .. Len(Text(id)) /\ to \in Nat
    BY <1>2, <1>4, <1>12, Sizes
  <2>6. new = [c \in 1 .. m |-> IF c > from /\ c <= to THEN s[c - from] ELSE Text(id)[c]]
    <3>1. m = Greater(Len(Text(id)), to)
      BY <1>12 DEF m
    <3>2. /\ Text(id) \in Seq(Chars) /\ s \in Seq(Chars)
          /\ from <= to /\ to - from <= Len(s)
      BY <1>5, <1>6, <1>12
    <3>3. new = [c \in 1 .. Greater(Len(Text(id)), to) |->
                    IF c > from /\ c <= to THEN s[c - from] ELSE Text(id)[c]]
      BY <2>5, <3>2, WrittenOver
    <3>. QED
      BY <3>1, <3>3, Zenon
  <2>7. \A c \in 1 .. m : ~(c > from /\ c <= to) => c \in 1 .. handles[h].size
    BY <1>2, <1>4, Sizes DEF m, Greater
  <2>8. \A c \in 1 .. m : ~(c > from /\ c <= to) => Text(id)[c] = disk.data[b][c]
    BY <1>12, <2>7
  <2>. HIDE DEF new
  <2>. QED
    BY <2>4, <2>6, <2>8
<1>14. Files' = [Files EXCEPT ![id] = new]
  <2>1. Files' = [x \in FileIds' |-> Text(x)']
    BY DEF Files
  <2>2. Files = [x \in FileIds |-> Text(x)]
    BY DEF Files
  <2>. HIDE DEF new
  <2>. QED
    BY <1>10, <1>11, <1>13, <2>1, <2>2
<1>15. Opened' = [Opened EXCEPT ![h].position = to]
  BY <1>9 DEF Opened
<1>16. /\ Answer' = <<Len(s), WriteCount(h, s)>>
       /\ WriteCount(h, s) \in Store!Counted(to - from, to = BlockSize)
  <2>1. done'.call = "Write" /\ done'.answer = <<Len(s), WriteCount(h, s)>>
    BY <1>1 DEF Called
  <2>2. to - from \in Nat
    BY <1>2, <1>4, <1>6
  <2>3. WriteCount(h, s) = IF to - from > 0 /\ to = BlockSize THEN to - from - 1 ELSE to - from
    BY DEF WriteCount, to, from
  <2>. QED
    BY <2>1, <2>2, <2>3 DEF Answer, Store!Counted
<1>17. to = Store!Lesser(from + Len(s), BlockSize)
  BY <1>6 DEF Lesser, Store!Lesser
<1>. DEFINE text == Files[Opened[h].id]
            position == Opened[h].position
            end  == Store!Lesser(position + Len(s), BlockSize)
<1>18. /\ Files' = [Files EXCEPT ![Opened[h].id] =
              SubSeq(text, 1, position) \o SubSeq(s, 1, end - position)
              \o SubSeq(text, end + 1, Len(text))]
       /\ Opened' = [Opened EXCEPT ![h].position = end]
       /\ \E k \in Store!Counted(end - position, end = BlockSize) : Answer' = <<Len(s), k>>
  BY <1>12, <1>14, <1>15, <1>16, <1>17 DEF Over
<1>. QED
  BY <1>18 DEF Store!Write, Files, FileIds, Text, Opened, Answer

-----------------------------------------------------------------------------
\* Mounting makes no difference to the store: it is empty before and after.
LEMMA MountIsNothing ==
    ASSUME FilesInv, FilesInv', Mount
    PROVE  UNCHANGED <<Files, Opened, Answer>>
<1>1. /\ ~mounted /\ mounted' /\ inodes' = disk.inodes /\ handles' = handles
      /\ done' = Called("Mount", NoId, TRUE)
  BY DEF Mount
<1>2. /\ done.call = "Format"
      /\ \A i \in Inodes : inodes[i] = FreeInode /\ inodes'[i] = FreeInode
  BY <1>1 DEF FilesInv, StoreInv, BeforeMount
<1>3. FreeInode.id = NoId /\ NoId \notin Ids
  BY FileSystemAssumption DEF FreeInode
<1>4. FileIds = {} /\ FileIds' = {}
  <2>1. FileIds = {}
    BY <1>2, <1>3, ExistsAt DEF FileIds
  <2>2. FilesAt'
    BY <1>1, FilesAreAtNext
  <2>. QED
    BY <1>2, <1>3, <2>1, <2>2 DEF FilesAt
<1>5. Files' = Files
  BY <1>4 DEF Files
<1>6. Opened' = Opened
  BY <1>1 DEF Opened, InUse
<1>7. done'.call = "Mount"
  BY <1>1 DEF Called
<1>. QED
  BY <1>2, <1>5, <1>6, <1>7 DEF Answer

LEMMA InitIsInit == Init => Store!Init
<1>. SUFFICES ASSUME Init PROVE Store!Init
  OBVIOUS
<1>1. \A i \in Inodes : inodes[i] = FreeInode
  BY DEF Init
<1>2. FreeInode.id = NoId /\ NoId \notin Ids
  BY FileSystemAssumption DEF FreeInode
<1>3. FileIds = {} /\ InUse = {}
  BY <1>1, <1>2, ExistsAt DEF FileIds, InUse, Init
<1>4. Files = <<>> /\ Opened = <<>>
  BY <1>3 DEF Files, Opened
<1>5. done.call = "Format"
  BY DEF Init, Called
<1>6. Answer = Quiet
  BY <1>5 DEF Answer
<1>. QED
  BY <1>4, <1>6 DEF Store!Init, Files, FileIds, Text, Opened, Answer

LEMMA NextIsNext ==
    ASSUME Uses = {}, FilesInv, FilesInv', [Next]_vars
    PROVE  Store!Next \/ UNCHANGED <<Files, Opened, Answer>>
<1>1. ~(Format \/ Unmount \/ Stop)
  BY DEF Format, Unmount, Stop, Stopped, UsedInv, FilesInv
<1>2. CASE Mount
  BY <1>2, MountIsNothing
<1>3. ASSUME NEW id \in Ids, CreateFile(id) \/ DeleteFile(id) PROVE Store!Next
  BY <1>3, CreateIsCreate, DeleteIsDelete DEF Store!Next
<1>4. ASSUME NEW id \in Ids, NEW h \in Handles, Open(h, id) PROVE Store!Next
  BY <1>4, OpenIsOpen DEF Store!Next
<1>5. ASSUME NEW h \in Handles,
             \/ Close(h) \/ Reset(h)
             \/ \E n \in Counts : Read(h, n)
             \/ \E s \in Texts : Write(h, s)
      PROVE  Store!Next
  <2>1. h \in InUse
    BY <1>5 DEF Close, Reset, Read, Write
  <2>2. \/ Store!Close(h) \/ Store!Reset(h)
        \/ \E n \in Counts : Store!Read(h, n)
        \/ \E s \in Texts : Store!Write(h, s)
    BY <1>5, CloseIsClose, ResetIsReset, ReadIsRead, WriteIsWrite
  <2>. QED
    BY <2>1, <2>2 DEF Store!Next
<1>6. CASE UNCHANGED vars
  <2>1. UNCHANGED <<disk, inodes, handles, done>>
    BY <1>6 DEF vars
  <2>. QED
    BY <2>1, Zenon
       DEF Files, FileIds, Exists, WithId, Text, LookupFile, SizeOf, HasHandle, InUse, Opened, Answer
<1>. QED
  BY <1>1, <1>2, <1>3, <1>4, <1>5, <1>6 DEF Next

(***************************************************************************)
(* For one user of each file, on a machine that does not stop, the file    *)
(* system of mp7 is the store its header files describe: what is read is   *)
(* what was written, at the position of the handle, a new file is empty,   *)
(* CreateFile fails only if the file exists or the disk is full, and Write *)
(* (file.C) answers how much it wrote, or one less at the end of a block.  *)
(***************************************************************************)
THEOREM FilesImplementStore == ASSUME Uses = {} PROVE Spec => ImplementsFileStore
<1>1. Init => Store!Init
  BY InitIsInit
<1>2. FilesInv /\ FilesInv' /\ [Next]_vars =>
         Store!Next \/ UNCHANGED <<Files, Opened, Answer>>
  BY NextIsNext
<1>3. Spec => []FilesInv
  BY AlwaysFiles
<1>. QED
  BY <1>1, <1>2, <1>3, PTL DEF Spec, ImplementsFileStore, Store!Spec, Files, FileIds, Text, Opened, Answer
=============================================================================
