----------------------------- MODULE FileSystem -----------------------------
(***************************************************************************)
(* The file system and the file handles of mp7 on a disk of blocks: block  *)
(* 0 is the inode list, block 1 the free list, a file has one block.  Both *)
(* lists are kept in memory and each is written as a whole.  The kernel    *)
(* has one thread, so calls are atomic until the machine stops: then what  *)
(* is on disk is whatever a prefix of the current call's writes left.      *)
(* Uses names what clients do beyond the sequence of kernel.C: "shared"    *)
(* (two handles on a file), "stale" (delete an open file), "open missing"  *)
(* and "delete missing" (a file that does not exist), "remount", "stop".   *)
(***************************************************************************)
EXTENDS Integers, Sequences, SequencesExt, FiniteSets, FiniteSetsExt

CONSTANTS
    Ids, NoId,          \* file ids, and the id -1 of a free inode
    Handles, NoHandle,  \* the File objects, and the contents of an unused one
    Texts, Counts,      \* what clients write, how much they read
    Zero,               \* the character 0
    MAX_INODES, NumBlocks, BlockSize,
    DiskSize,           \* blocks of the disk; the file system has the first NumBlocks
    Overwritten,        \* a list on the disk that was written to as if it were data
    Uses,
    Quiet               \* answer of a call that returns nothing we look at

ASSUME FileSystemAssumption ==
    /\ NoId \notin Ids
    /\ Counts \subseteq Nat /\ \A s \in Texts : s \in Seq(Range(s))
    /\ MAX_INODES \in Nat \ {0} /\ NumBlocks \in Nat /\ NumBlocks > 2
    /\ BlockSize \in Nat \ {0} /\ DiskSize \in Nat /\ DiskSize >= NumBlocks
    /\ Uses \subseteq {"shared", "stale", "open missing", "delete missing", "remount", "stop"}

VARIABLES
    disk,           \* blocks: the two lists and the data
    inodes,         \* the inode list in memory, at address 0
    free_blocks,    \* the free list in memory
    MAX_BLOCKS,     \* set by Format, 0 when the machine starts
    size,           \* in blocks
    mounted,
    handles,        \* the File objects
    done            \* the last call, its file and its answer

vars == <<disk, inodes, free_blocks, MAX_BLOCKS, size, mounted, handles, done>>

Inodes  == 0 .. MAX_INODES - 1
Blocks  == 0 .. NumBlocks - 1
PlainBlocks == 2 .. DiskSize - 1
NoBlock == -1
BLOCK_USED == 0
BLOCK_FREE == 1
FreeInode  == [id |-> NoId, block_no |-> NoBlock, file_size |-> 0]
Zeros      == [c \in 1 .. BlockSize |-> Zero]
InUse == {h \in Handles : handles[h] # NoHandle}
HasHandle(id) == \E h \in InUse : handles[h].id = id
Called(call, id, answer) == [call |-> call, id |-> id, answer |-> answer]

-----------------------------------------------------------------------------
(***************************************************************************)
(* Starting: Format writes empty lists, Mount reads them.  main() formats  *)
(* before it mounts.                                                       *)
(***************************************************************************)
Formatted(data) ==
    [inodes |-> [i \in Inodes |-> FreeInode],
     free   |-> [b \in Blocks |-> IF b < 2 THEN BLOCK_USED ELSE BLOCK_FREE],
     data   |-> data]

Init ==
    /\ disk = Formatted([b \in PlainBlocks |-> Zeros])
    /\ inodes = [i \in Inodes |-> FreeInode]
    /\ free_blocks = [b \in Blocks |-> BLOCK_USED]
    /\ MAX_BLOCKS = NumBlocks /\ size = 0 /\ mounted = FALSE
    /\ handles = [h \in Handles |-> NoHandle]
    /\ done = Called("Format", NoId, TRUE)

Format ==
    /\ ~mounted /\ MAX_BLOCKS = 0
    /\ disk' = Formatted(disk.data)
    /\ MAX_BLOCKS' = NumBlocks
    /\ done' = Called("Format", NoId, TRUE)
    /\ UNCHANGED <<inodes, free_blocks, size, mounted, handles>>

\* As what an overwritten list would be read is not followed.
Mount ==
    /\ ~mounted /\ Overwritten \notin {disk.inodes, disk.free}
    /\ inodes' = disk.inodes
    /\ free_blocks' = disk.free
    /\ size' = 2
    /\ mounted' = TRUE
    /\ done' = Called("Mount", NoId, TRUE)
    /\ UNCHANGED <<disk, MAX_BLOCKS, handles>>

\* The destructor saves nothing.
Unmount ==
    /\ mounted /\ "remount" \in Uses /\ InUse = {}
    /\ mounted' = FALSE
    /\ done' = Called("Unmount", NoId, Quiet)
    /\ UNCHANGED <<disk, inodes, free_blocks, MAX_BLOCKS, size, handles>>

-----------------------------------------------------------------------------
(***************************************************************************)
(* The inode list.  LookupFile answers NULL for a file it does not find;   *)
(* the inode list lies at that address.                                    *)
(***************************************************************************)
WithId(id)   == {i \in Inodes : inodes[i].id = id}
Exists(id)   == WithId(id) # {}
LookupFile(id) == IF Exists(id) THEN Min(WithId(id)) ELSE 0

Least(S) == IF S = {} THEN -1 ELSE Min(S)
GetFreeBlock == Least({b \in 2 .. MAX_BLOCKS - 1 : free_blocks[b] = BLOCK_FREE})
GetFreeInode_bySize == Least({i \in Inodes : inodes[i].file_size = 0})
GetFreeInode == Least({i \in Inodes : inodes[i].block_no = NoBlock})

(***************************************************************************)
(* CreateFile and DeleteFile: what is in memory afterwards, and the disk   *)
(* after each of their writes.                                             *)
(***************************************************************************)
CanCreate(id) == ~Exists(id) /\ GetFreeBlock # -1 /\ GetFreeInode # -1
CreatedFree == [free_blocks EXCEPT ![GetFreeBlock] = BLOCK_USED]
CreatedInodes(id) ==
    [inodes EXCEPT ![GetFreeInode].id = id, ![GetFreeInode].block_no = GetFreeBlock]
CreateWrites(id) ==
    LET first == [disk EXCEPT !.free = CreatedFree]
    IN  <<first, [first EXCEPT !.inodes = CreatedInodes(id)]>>

CreateFile(id) ==
    /\ mounted
    /\ IF CanCreate(id)
       THEN /\ free_blocks' = CreatedFree
            /\ inodes' = CreatedInodes(id)
            /\ disk' = Last(CreateWrites(id))
            /\ size' = size + 1
       ELSE UNCHANGED <<disk, inodes, free_blocks, size>>
    /\ done' = Called("CreateFile", id, CanCreate(id))
    /\ UNCHANGED <<MAX_BLOCKS, mounted, handles>>

CanDelete(id) == inodes[LookupFile(id)].block_no # NoBlock
DeletedBlock(id) == inodes[LookupFile(id)].block_no
DeletedFree(id) == [free_blocks EXCEPT ![DeletedBlock(id)] = BLOCK_FREE]
DeletedInodes(id) == [inodes EXCEPT ![LookupFile(id)] = FreeInode]
DeleteWrites_noClear(id) ==
    LET first == [disk EXCEPT !.free = DeletedFree(id)]
    IN  <<first, [first EXCEPT !.inodes = DeletedInodes(id)]>>
DeleteWrites(id) ==
    LET first  == [disk EXCEPT !.data[DeletedBlock(id)] = Zeros]
        second == [first EXCEPT !.free = DeletedFree(id)]
    IN  <<first, second, [second EXCEPT !.inodes = DeletedInodes(id)]>>

IsDeleted(id) ==
    /\ mounted
    /\ ~Exists(id) => "delete missing" \in Uses
    /\ HasHandle(id) => "stale" \in Uses

DeleteFile(id) ==
    /\ IsDeleted(id)
    /\ IF CanDelete(id)
       THEN /\ free_blocks' = DeletedFree(id)
            /\ inodes' = DeletedInodes(id)
            /\ disk' = Last(DeleteWrites(id))
            /\ size' = size - 1
       ELSE UNCHANGED <<disk, inodes, free_blocks, size>>
    /\ done' = Called("DeleteFile", id, CanDelete(id))
    /\ UNCHANGED <<MAX_BLOCKS, mounted, handles>>

-----------------------------------------------------------------------------
(***************************************************************************)
(* File: a handle copies the block and the size from the inode; if there   *)
(* is none, its block is whatever the handle's memory held before: none,   *)
(* one of the lists, or any other block of the disk.                       *)
(***************************************************************************)
Open(h, id) ==
    LET i == LookupFile(id)
    IN  /\ mounted /\ h \notin InUse
        /\ ~Exists(id) => "open missing" \in Uses
        /\ HasHandle(id) => "shared" \in Uses
        /\ \E b \in IF Exists(id) THEN {inodes[i].block_no} ELSE {NoBlock} \cup 0 .. DiskSize - 1 :
              handles' = [handles EXCEPT ![h] =
                  [id |-> id, inode |-> i, block_no |-> b, last |-> 0,
                   size |-> IF Exists(id) THEN inodes[i].file_size ELSE 0]]
        /\ done' = Called("Open", id, Quiet)
        /\ UNCHANGED <<disk, inodes, free_blocks, MAX_BLOCKS, size, mounted>>

ClosedInodes(h) == [inodes EXCEPT ![handles[h].inode].file_size = handles[h].size]

Close(h) ==
    /\ h \in InUse
    /\ inodes' = ClosedInodes(h)
    /\ handles' = [handles EXCEPT ![h] = NoHandle]
    /\ done' = Called("Close", handles[h].id, Quiet)
    /\ UNCHANGED <<disk, free_blocks, MAX_BLOCKS, size, mounted>>

Lesser(m, n) == IF m < n THEN m ELSE n
Greater(m, n) == IF m < n THEN n ELSE m

ReadTo_block(h, n) == Lesser(handles[h].last + n, BlockSize)
ReadTo(h, n) == Greater(handles[h].last, Lesser(handles[h].last + n, handles[h].size))

\* Nothing can be read without a block, and bytes of a list are no answer.
ReadFrom(b, from, to) == IF b \in PlainBlocks THEN SubSeq(disk.data[b], from, to) ELSE Quiet

Read(h, n) ==
    /\ h \in InUse
    /\ handles' = [handles EXCEPT ![h].last = ReadTo(h, n)]
    /\ done' = Called("Read", handles[h].id,
                      ReadFrom(handles[h].block_no, handles[h].last + 1, ReadTo(h, n)))
    /\ UNCHANGED <<disk, inodes, free_blocks, MAX_BLOCKS, size, mounted>>

(***************************************************************************)
(* Write: the characters that fit, nothing without a block.  The loop is   *)
(* left at the end of the block before the last character is counted.      *)
(***************************************************************************)
WriteTo_past(h, s) == handles[h].last + Len(s)
WriteTo(h, s) ==
    IF handles[h].block_no = NoBlock THEN handles[h].last
    ELSE Lesser(handles[h].last + Len(s), BlockSize)
Written(h, s) ==
    [c \in 1 .. BlockSize |->
        IF c > handles[h].last /\ c <= WriteTo(h, s) THEN s[c - handles[h].last]
        ELSE disk.data[handles[h].block_no][c]]
WriteCount(h, s) ==
    LET n == WriteTo(h, s) - handles[h].last
    IN  IF n > 0 /\ WriteTo(h, s) = BlockSize THEN n - 1 ELSE n

AfterWrite(h, s) ==
    LET block == handles[h].block_no
    IN  IF WriteTo(h, s) = handles[h].last THEN disk
        ELSE IF block = 0 THEN [disk EXCEPT !.inodes = Overwritten]
        ELSE IF block = 1 THEN [disk EXCEPT !.free = Overwritten]
        ELSE [disk EXCEPT !.data[block] = Written(h, s)]

Write(h, s) ==
    /\ h \in InUse
    /\ disk' = AfterWrite(h, s)
    /\ handles' = [handles EXCEPT ![h].last = WriteTo(h, s),
                                  ![h].size = Greater(@, WriteTo(h, s))]
    /\ done' = Called("Write", handles[h].id, <<Len(s), WriteCount(h, s)>>)
    /\ UNCHANGED <<inodes, free_blocks, MAX_BLOCKS, size, mounted>>

Reset(h) ==
    /\ h \in InUse
    /\ handles' = [handles EXCEPT ![h].last = 0]
    /\ done' = Called("Reset", handles[h].id, Quiet)
    /\ UNCHANGED <<disk, inodes, free_blocks, MAX_BLOCKS, size, mounted>>

(***************************************************************************)
(* The machine stops, between two calls or between the writes of one.      *)
(* MAX_BLOCKS is lost with the rest of the memory, and only Format sets it.*)
(***************************************************************************)
DisksDuring(id) ==
    (IF CanCreate(id) THEN Range(CreateWrites(id)) ELSE {}) \cup
    (IF IsDeleted(id) /\ CanDelete(id) THEN Range(DeleteWrites(id)) ELSE {})

BlocksAfterStop_kept == MAX_BLOCKS
BlocksAfterStop == 0

Stopped(id, d) ==
    /\ "stop" \in Uses
    /\ disk' = d
    /\ mounted' = FALSE
    /\ MAX_BLOCKS' = BlocksAfterStop
    /\ handles' = [h \in Handles |-> NoHandle]
    /\ done' = Called("Stop", id, Quiet)
    /\ UNCHANGED <<inodes, free_blocks, size>>

Stop ==
    \/ Stopped(NoId, disk)
    \/ mounted /\ \E id \in Ids : \E d \in DisksDuring(id) : Stopped(id, d)

Next ==
    \/ Format \/ Mount \/ Unmount \/ Stop
    \/ \E id \in Ids : CreateFile(id) \/ DeleteFile(id) \/ \E h \in Handles : Open(h, id)
    \/ \E h \in Handles :
          \/ Close(h)
          \/ Reset(h)
          \/ \E n \in Counts : Read(h, n)
          \/ \E s \in Texts : Write(h, s)

Spec == Init /\ [][Next]_vars

-----------------------------------------------------------------------------
(***************************************************************************)
(* Type invariant.                                                         *)
(***************************************************************************)
InodeType == [id : Ids \cup {NoId}, block_no : {NoBlock} \cup 2 .. NumBlocks - 1,
              file_size : 0 .. BlockSize]
FreeType  == [Blocks -> {BLOCK_USED, BLOCK_FREE}]
HandleType == [id : Ids, inode : Inodes, block_no : {NoBlock} \cup 0 .. DiskSize - 1,
               last : 0 .. BlockSize, size : 0 .. BlockSize]
ASSUME HandleAssumption == NoHandle \notin HandleType

TypeOK ==
    /\ disk.inodes \in [Inodes -> InodeType] \cup {Overwritten}
    /\ disk.free \in FreeType \cup {Overwritten}
    /\ \A b \in PlainBlocks : Len(disk.data[b]) = BlockSize
    /\ inodes \in [Inodes -> InodeType] /\ free_blocks \in FreeType
    /\ MAX_BLOCKS \in {0, NumBlocks} /\ size \in Int /\ mounted \in BOOLEAN
    /\ handles \in [Handles -> HandleType \cup {NoHandle}]

(***************************************************************************)
(* The two lists agree with each other and with their copies on the disk:  *)
(* a block is marked used exactly if it holds a list or one file has it.   *)
(* Only the sizes on the disk may be old.                                  *)
(***************************************************************************)
NamedBy(b) == {i \in Inodes : inodes[i].block_no = b}
Named(i) == <<inodes[i].id, inodes[i].block_no>>

ListsAgree ==
    mounted =>
    /\ \A b \in 2 .. NumBlocks - 1 :
          Cardinality(NamedBy(b)) = IF free_blocks[b] = BLOCK_USED THEN 1 ELSE 0
    /\ disk.free = free_blocks
    /\ \A i \in Inodes : Named(i) = <<disk.inodes[i].id, disk.inodes[i].block_no>>

(***************************************************************************)
(* DeleteFile clears the block before it frees it: whoever gets it next    *)
(* finds nothing of the old file in it.                                    *)
(***************************************************************************)
FreeBlocksZero ==
    mounted => \A b \in 2 .. NumBlocks - 1 : free_blocks[b] = BLOCK_FREE => disk.data[b] = Zeros

(***************************************************************************)
(* What GetFreeBlock finds may be given to a file: nobody has it, both     *)
(* copies of the list say so, and nothing is left in it.                   *)
(***************************************************************************)
BlocksReusable == ListsAgree /\ FreeBlocksZero

(***************************************************************************)
(* Whatever was deleted, stopped half-way and mounted again, two files     *)
(* never have the same block or the same id.                               *)
(***************************************************************************)
OneFilePerBlock ==
    mounted => \A i, j \in Inodes : i # j /\ inodes[i].block_no # NoBlock =>
        inodes[i].block_no # inodes[j].block_no /\ inodes[i].id # inodes[j].id

(***************************************************************************)
(* A handle goes on to read and write the block of the file it was opened  *)
(* for, whatever is done with other files.                                 *)
(***************************************************************************)
HandlesOwnBlock ==
    \A h \in InUse :
        Named(handles[h].inode) = <<handles[h].id, handles[h].block_no>>

(***************************************************************************)
(* Files and the handles on them keep to their blocks through deletions,   *)
(* stops and mounts.                                                       *)
(***************************************************************************)
BlocksKeptApart == OneFilePerBlock /\ HandlesOwnBlock

(***************************************************************************)
(* A stop in the middle of CreateFile or DeleteFile leaves every other     *)
(* file on the disk, with its data.                                        *)
(***************************************************************************)
OnDisk(d, i) == <<d.inodes[i].id, d.data[d.inodes[i].block_no]>>

StopKeepsFiles ==
    [][done'.call = "Stop" =>
        \A i \in Inodes : disk.inodes[i].id \notin {NoId, done'.id} =>
            disk'.inodes[i].id = disk.inodes[i].id /\ OnDisk(disk', i) = OnDisk(disk, i)]_vars

(***************************************************************************)
(* With one handle per file, and files that exist, the file system is the  *)
(* store of texts that its header files promise.                           *)
(***************************************************************************)
SizeOf(id) ==
    IF HasHandle(id)
    THEN handles[CHOOSE h \in InUse : handles[h].id = id].size
    ELSE inodes[LookupFile(id)].file_size

Store == INSTANCE FileStore WITH
    MaxLength <- BlockSize,
    Capacity  <- Lesser(MAX_INODES, NumBlocks - 2),
    files  <- [id \in {f \in Ids : Exists(f)} |->
                 SubSeq(disk.data[inodes[LookupFile(id)].block_no], 1, SizeOf(id))],
    open   <- [h \in InUse |-> [id |-> handles[h].id, position |-> handles[h].last]],
    answer <- CASE done.call \in {"CreateFile", "DeleteFile"} -> <<done.answer>>
                [] done.call \in {"Read", "Write"} -> done.answer
                [] OTHER -> Quiet

ImplementsFileStore == Store!Spec

-----------------------------------------------------------------------------
(***************************************************************************)
(* file.H: Write returns the number of characters written.                 *)
(***************************************************************************)
WriteReturnsCount ==
    [][done'.call = "Write" =>
        \A h \in Handles : handles'[h] # handles[h] =>
            done'.answer[2] = handles'[h].last - handles[h].last]_vars

(***************************************************************************)
(* file.C: closing a file writes what is cached to the disk and updates    *)
(* the inode list: a file without handles has its size on the disk.        *)
(***************************************************************************)
ClosedFilesSaved ==
    mounted => \A i \in Inodes :
        (\A h \in InUse : handles[h].inode # i) =>
            disk.inodes[i].file_size = inodes[i].file_size

(***************************************************************************)
(* file_system.C: CreateFile initializes all the data of the new file: it  *)
(* is empty.                                                               *)
(***************************************************************************)
NewFilesEmpty ==
    [][done'.call = "CreateFile" =>
        \A i \in Inodes : inodes'[i].id # inodes[i].id => inodes'[i].file_size = 0]_vars
=============================================================================
