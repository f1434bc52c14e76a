------------------------------- MODULE MCSynch -------------------------------
(* Constant values for checking Synch.  Three threads let one hold the    *)
(* lock while a second sleeps on it and a third barges in on a wakeup;   *)
(* a semaphore count of up to 2 lets two sleepers be owed a unit.          *)
EXTENDS Synch

CONSTANTS t1, t2, t3

MC_Threads == {t1, t2, t3}
MC_MaxCount == 2
MC_InitCounts == {0, 1}
====
