------------------------------ MODULE FileStore ------------------------------
(***************************************************************************)
(* What file_system.H and file.H promise to one user of each file: a store *)
(* of at most Capacity files, texts of at most MaxLength characters, read  *)
(* and written at the current position of a handle.  One promise is        *)
(* weakened to what the code keeps: see Counted.                           *)
(***************************************************************************)
EXTENDS Integers, Sequences, FiniteSets, Functions

CONSTANTS Ids, Handles, Texts, Counts, MaxLength, Capacity, Quiet

VARIABLES
    files,      \* id -> text, for the files that exist
    open,       \* handle -> id and position, for the handles in use
    answer      \* of the last call, Quiet if it has none

Lesser(m, n) == IF m < n THEN m ELSE n
Put(f, x, y) == [z \in DOMAIN f \cup {x} |-> IF z = x THEN y ELSE f[z]]
Without(f, x) == Restrict(f, DOMAIN f \ {x})

Init == files = <<>> /\ open = <<>> /\ answer = Quiet

CreateFile(id) ==
    LET possible == id \notin DOMAIN files /\ Cardinality(DOMAIN files) < Capacity
    IN  /\ files' = IF possible THEN Put(files, id, <<>>) ELSE files
        /\ answer' = <<possible>>
        /\ UNCHANGED open

DeleteFile(id) ==
    /\ id \in DOMAIN files /\ \A h \in DOMAIN open : open[h].id # id
    /\ files' = Without(files, id)
    /\ answer' = <<TRUE>>
    /\ UNCHANGED open

Open(h, id) ==
    /\ id \in DOMAIN files /\ h \notin DOMAIN open
    /\ open' = Put(open, h, [id |-> id, position |-> 0])
    /\ answer' = Quiet
    /\ UNCHANGED files

Close(h) == open' = Without(open, h) /\ answer' = Quiet /\ UNCHANGED files

Reset(h) ==
    /\ open' = [open EXCEPT ![h].position = 0]
    /\ answer' = Quiet
    /\ UNCHANGED files

Read(h, n) ==
    LET text == files[open[h].id]
        to   == Lesser(open[h].position + n, Len(text))
    IN  /\ answer' = SubSeq(text, open[h].position + 1, to)
        /\ open' = [open EXCEPT ![h].position = to]
        /\ UNCHANGED files

(***************************************************************************)
(* A write answers what it was asked to write and how much it wrote.       *)
(* file.H:85 promises that count of every write.  It is demanded here but  *)
(* of a write that brings the text to its full length: there file.C:142    *)
(* counts one too little (WriteReturnsCount in FileSystem is the promise   *)
(* without the exception, and the code breaks it).                         *)
(***************************************************************************)
Counted(written, full) ==
    IF full /\ written > 0 THEN {written - 1, written} ELSE {written}

Write(h, s) ==
    LET text == files[open[h].id]
        from == open[h].position
        to   == Lesser(from + Len(s), MaxLength)
    IN  /\ files' = [files EXCEPT ![open[h].id] =
              SubSeq(text, 1, from) \o SubSeq(s, 1, to - from) \o SubSeq(text, to + 1, Len(text))]
        /\ open' = [open EXCEPT ![h].position = to]
        /\ \E n \in Counted(to - from, to = MaxLength) : answer' = <<Len(s), n>>

Next ==
    \/ \E id \in Ids : CreateFile(id) \/ DeleteFile(id) \/ \E h \in Handles : Open(h, id)
    \/ \E h \in DOMAIN open :
          \/ Close(h)
          \/ Reset(h)
          \/ \E n \in Counts : Read(h, n)
          \/ \E s \in Texts : Write(h, s)

Spec == Init /\ [][Next]_<<files, open, answer>>
=============================================================================
