----------------------------- MODULE MCScheduler -----------------------------
(***************************************************************************)
(* The four threads of mp5 main(), and one more.                           *)
(***************************************************************************)
EXTENDS Scheduler

CONSTANTS thread1, thread2, thread3, thread4, thread5

Order5 == <<thread1, thread2, thread3, thread4, thread5>>
Five == Range(Order5)
=============================================================================
