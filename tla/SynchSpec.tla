------------------------------ MODULE SynchSpec ------------------------------
(***************************************************************************)
(* What the synchronisation primitives of kern/thread/synch.c promise to  *)
(* the kernel code that uses them, with no wait channels, spinlocks or    *)
(* sleeping: one counting semaphore, one sleep lock and one condition     *)
(* variable used with that lock.                                          *)
(*                                                                         *)
(*  - P takes a unit only when one is there; V adds one.                   *)
(*  - The lock has at most one holder, and only the holder releases it.    *)
(*  - cv_wait gives the lock up and joins the waiters in one step, so no   *)
(*    signal sent after the waiter gave the lock up can pass it by.        *)
(*  - cv_signal and cv_broadcast, by the holder, make one or every waiter  *)
(*    "signalled"; a signalled thread leaves cv_wait only by taking the    *)
(*    lock again (Mesa semantics: it competes with every other thread).    *)
(*                                                                         *)
(* Creating an object either yields it or, when allocation fails, NULL;   *)
(* operations on an object that was not created are not steps.  A live   *)
(* object may be destroyed, a cv only while no thread waits on it; after  *)
(* that it takes no operation.                                             *)
(***************************************************************************)
EXTENDS Naturals

CONSTANTS
  Threads,      \* the kernel threads
  NoOwner,      \* lk_owner == NULL
  MaxCount,     \* bound on the semaphore count
  InitCounts,   \* initial counts passed to sem_create
  AllocMayFail  \* whether kmalloc, kstrdup and wchan_create may fail

Objects == {"sem", "lock", "cv"}

VARIABLES made, count, holder, waiters, signalled

avars == <<made, count, holder, waiters, signalled>>

Init ==
  /\ made = [k \in Objects |-> "unmade"]
  /\ count = 0
  /\ holder = NoOwner
  /\ waiters = {}
  /\ signalled = {}

Live(k) == made[k] = "live"

\* A thread that is inside cv_wait takes no other step.
Free(t) == t \notin waiters \cup signalled

Create(k) ==
  /\ made[k] = "unmade"
  /\ \/ /\ made' = [made EXCEPT ![k] = "live"]
        /\ IF k = "sem" THEN count' \in InitCounts ELSE UNCHANGED count
     \/ /\ AllocMayFail
        /\ made' = [made EXCEPT ![k] = "null"]
        /\ UNCHANGED count
  /\ UNCHANGED <<holder, waiters, signalled>>

TakeUnit(t) ==
  /\ Live("sem") /\ Free(t) /\ count > 0
  /\ count' = count - 1
  /\ UNCHANGED <<made, holder, waiters, signalled>>

AddUnit(t) ==
  /\ Live("sem") /\ Free(t) /\ count < MaxCount
  /\ count' = count + 1
  /\ UNCHANGED <<made, holder, waiters, signalled>>

\* lock_acquire, and the reacquire that ends cv_wait for a signalled thread.
Take(t) ==
  /\ Live("lock") /\ holder = NoOwner /\ t \notin waiters
  /\ holder' = t
  /\ signalled' = signalled \ {t}
  /\ UNCHANGED <<made, count, waiters>>

Give(t) ==
  /\ Live("lock") /\ holder = t
  /\ holder' = NoOwner
  /\ UNCHANGED <<made, count, waiters, signalled>>

Wait(t) ==
  /\ Live("cv") /\ Live("lock") /\ holder = t
  /\ holder' = NoOwner
  /\ waiters' = waiters \cup {t}
  /\ UNCHANGED <<made, count, signalled>>

Signal(t) ==
  /\ Live("cv") /\ Live("lock") /\ holder = t
  /\ \/ \E w \in waiters :
          /\ waiters' = waiters \ {w}
          /\ signalled' = signalled \cup {w}
     \/ /\ waiters = {}
        /\ UNCHANGED <<waiters, signalled>>
  /\ UNCHANGED <<made, count, holder>>

Broadcast(t) ==
  /\ Live("cv") /\ Live("lock") /\ holder = t
  /\ waiters' = {}
  /\ signalled' = signalled \cup waiters
  /\ UNCHANGED <<made, count, holder>>

Destroy(k) ==
  /\ Live(k) /\ (k = "cv" => waiters = {})
  /\ made' = [made EXCEPT ![k] = "freed"]
  /\ UNCHANGED <<count, holder, waiters, signalled>>

Next ==
  \/ \E k \in Objects : Create(k) \/ Destroy(k)
  \/ \E t \in Threads :
       TakeUnit(t) \/ AddUnit(t) \/ Take(t) \/ Give(t)
         \/ Wait(t) \/ Signal(t) \/ Broadcast(t)

Spec == Init /\ [][Next]_avars
====
