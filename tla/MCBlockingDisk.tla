--------------------------- MODULE MCBlockingDisk ---------------------------
(***************************************************************************)
(* The threads of mp6 main(): thread1 and thread4 compute, thread2 and     *)
(* thread3 use the disk; and the same system with thread3 computing.       *)
(***************************************************************************)
EXTENDS BlockingDisk

CONSTANTS thread1, thread2, thread3, thread4

Order == <<thread1, thread2, thread3, thread4>>
=============================================================================
