----------------------------- MODULE AtomicDisk -----------------------------
(***************************************************************************)
(* What simple_disk.H promises of read() and write(): a read copies the    *)
(* given block to the caller's buffer, a write copies the caller's buffer  *)
(* to the given block, and nothing else changes.  The caller chooses the   *)
(* blocks between its calls.                                               *)
(***************************************************************************)
CONSTANTS Users, Blocks, Data

VARIABLES store, buf, from, to

Init ==
    /\ store \in [Blocks -> Data] /\ buf \in [Users -> Data]
    /\ from \in [Users -> Blocks] /\ to \in [Users -> Blocks]

Read(t)  == buf' = [buf EXCEPT ![t] = store[from[t]]] /\ UNCHANGED <<store, from, to>>
Write(t) == store' = [store EXCEPT ![to[t]] = buf[t]] /\ UNCHANGED <<buf, from, to>>
Choose(t, b, c) ==
    /\ from' = [from EXCEPT ![t] = b]
    /\ to' = [to EXCEPT ![t] = c]
    /\ UNCHANGED <<store, buf>>

Next == \E t \in Users : Read(t) \/ Write(t) \/ \E b, c \in Blocks : Choose(t, b, c)

Spec == Init /\ [][Next]_<<store, buf, from, to>>
=============================================================================
