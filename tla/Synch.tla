-------------------------------- MODULE Synch --------------------------------
(***************************************************************************)
(* The semaphore, sleep lock and condition variable of                    *)
(* kern/thread/synch.c (the OPT_SHELL lock and cv), one object of each.   *)
(*                                                                         *)
(* Every operation runs under the object's spinlock, and wchan_sleep      *)
(* releases that spinlock and puts the thread to sleep atomically, so     *)
(* each pass of a "while (...) wchan_sleep" loop is one step: the thread  *)
(* either proceeds or is appended to the wait channel.  A wait channel is *)
(* a FIFO queue of threads (threadlist_addtail / threadlist_remhead); a   *)
(* woken thread takes its next step at the top of its loop and competes  *)
(* with every thread that has not slept, since nothing hands it the      *)
(* resource.                                                               *)
(*                                                                         *)
(* Any idle thread may call any operation on any created object; a call   *)
(* that trips a KASSERT panics the kernel, and after that no thread       *)
(* steps.  destroy frees an object; a thread that then touches it faults. *)
(***************************************************************************)
EXTENDS Naturals, Sequences, FiniteSets, SequencesExt

CONSTANTS Threads, NoOwner, MaxCount, InitCounts, AllocMayFail

ASSUME NoOwner \notin Threads
ASSUME MaxCount \in Nat \ {0} /\ InitCounts \subseteq 0..MaxCount
ASSUME AllocMayFail \in BOOLEAN

Objects == {"sem", "lock", "cv"}

\* Where a thread is: returned to its caller, asleep on a wait channel, or
\* woken and about to run the top of its loop again.
PCs == {"idle", "P_sleep", "P_loop", "acq_sleep", "acq_loop",
        "cv_sleep", "cv_wake", "cv_acq_sleep", "cv_acq_loop"}

\* Where wchan_wakeone sends a sleeper: back to the loop it slept in, and,
\* for cv_wait, on to the lock_acquire that follows the sleep.
Woken == [s \in PCs |->
            CASE s = "P_sleep"      -> "P_loop"
              [] s = "acq_sleep"    -> "acq_loop"
              [] s = "cv_sleep"     -> "cv_wake"
              [] s = "cv_acq_sleep" -> "cv_acq_loop"
              [] OTHER              -> s]

PanicReasons == {"none", "null_sem", "null_lock", "null_cv",
                 "lock_reacquire", "release_not_holder", "cv_not_holder",
                 "wchan_busy", "use_after_free"}

VARIABLES
  made,   \* per object: "unmade", "null" (create returned NULL), "live"
          \* or "freed" (destroyed)
  count,  \* sem_count
  semQ,   \* sem_wchan
  owner,  \* lk_owner
  lkQ,    \* lk_wchan
  cvQ,    \* cv_wchan
  pc,     \* per thread
  panic

vars == <<made, count, semQ, owner, lkQ, cvQ, pc, panic>>

Running == panic = "none"

Halt(reason) ==
  /\ panic' = reason
  /\ UNCHANGED <<made, count, semQ, owner, lkQ, cvQ, pc>>

Idle(t) == Running /\ pc[t] = "idle"

\* What create returned, and the caller has not destroyed: callers hand
\* these, and only these, to the operations.
Created(k) == made[k] \in {"null", "live"}

\* wchan_wakeone: the head of queue q, if any, goes back to its loop.
Wake(f, q) == IF q = <<>> THEN f ELSE [f EXCEPT ![Head(q)] = Woken[f[Head(q)]]]
Rest(q) == IF q = <<>> THEN q ELSE Tail(q)

\* The creators share one shape: kmalloc, kstrdup and wchan_create each
\* return NULL on failure, after freeing what was already allocated.
Create(k) ==
  \/ made' = [made EXCEPT ![k] = "live"]
  \/ AllocMayFail /\ made' = [made EXCEPT ![k] = "null"]

sem_create(t) ==
  /\ Idle(t) /\ made["sem"] = "unmade"
  /\ Create("sem")
  /\ count' \in IF made'["sem"] = "live" THEN InitCounts ELSE {count}
  /\ UNCHANGED <<semQ, owner, lkQ, cvQ, pc, panic>>

\* The wait channel of each object.
WChan == [sem |-> semQ, lock |-> lkQ, cv |-> cvQ]

\* sem_destroy, lock_destroy, cv_destroy: KASSERT(obj != NULL), then
\* wchan_destroy, which asserts that no thread sleeps on the channel, and
\* kfree.  lock_destroy does not look at lk_owner, and nothing looks at
\* threads that were woken but have not run yet.
destroy(t, k) ==
  /\ Idle(t) /\ Created(k)
  /\ CASE made[k] = "null"  -> Halt("null_" \o k)
       [] WChan[k] # <<>>   -> Halt("wchan_busy")
       [] OTHER             -> /\ made' = [made EXCEPT ![k] = "freed"]
                               /\ UNCHANGED <<count, semQ, owner, lkQ, cvQ,
                                              pc, panic>>

\* A woken thread re-runs its loop on object k: if k was destroyed since,
\* it reads freed memory, taken here as a kernel fault.
Resume(k, A) == IF made[k] = "freed" THEN Halt("use_after_free") ELSE A

lock_create(t) ==
  /\ Idle(t) /\ made["lock"] = "unmade"
  /\ Create("lock")
  /\ UNCHANGED <<count, semQ, owner, lkQ, cvQ, pc, panic>>

cv_create(t) ==
  /\ Idle(t) /\ made["cv"] = "unmade"
  /\ Create("cv")
  /\ UNCHANGED <<count, semQ, owner, lkQ, cvQ, pc, panic>>

TryP_unchecked(t) ==
  /\ count' = count - 1
  /\ pc' = [pc EXCEPT ![t] = "idle"]
  /\ UNCHANGED <<made, semQ, owner, lkQ, cvQ, panic>>

\* One pass of P's loop: take a unit, or sleep on sem_wchan.
TryP(t) ==
  /\ IF count = 0
       THEN /\ semQ' = Append(semQ, t)
            /\ pc' = [pc EXCEPT ![t] = "P_sleep"]
            /\ UNCHANGED count
       ELSE /\ count' = count - 1
            /\ pc' = [pc EXCEPT ![t] = "idle"]
            /\ UNCHANGED semQ
  /\ UNCHANGED <<made, owner, lkQ, cvQ, panic>>

P(t) ==
  /\ Idle(t) /\ Created("sem")
  /\ IF made["sem"] = "null" THEN Halt("null_sem") ELSE TryP(t)

PLoop(t) == Running /\ pc[t] = "P_loop" /\ Resume("sem", TryP(t))

V_nowake(t) ==
  /\ Idle(t) /\ Created("sem")
  /\ IF made["sem"] = "null"
       THEN Halt("null_sem")
       ELSE /\ count < MaxCount
            /\ count' = count + 1
            /\ UNCHANGED <<made, semQ, owner, lkQ, cvQ, pc, panic>>

V(t) ==
  /\ Idle(t) /\ Created("sem")
  /\ IF made["sem"] = "null"
       THEN Halt("null_sem")
       ELSE /\ count < MaxCount
            /\ count' = count + 1
            /\ pc' = Wake(pc, semQ)
            /\ semQ' = Rest(semQ)
            /\ UNCHANGED <<made, owner, lkQ, cvQ, panic>>

lock_do_i_hold(t) == owner = t

\* One pass of lock_acquire's loop; a thread that must wait sleeps at s.
TryAcquire(t, s) ==
  /\ IF owner = NoOwner
       THEN /\ owner' = t
            /\ pc' = [pc EXCEPT ![t] = "idle"]
            /\ UNCHANGED lkQ
       ELSE /\ lkQ' = Append(lkQ, t)
            /\ pc' = [pc EXCEPT ![t] = s]
            /\ UNCHANGED owner
  /\ UNCHANGED <<made, count, semQ, cvQ, panic>>

lock_acquire(t) ==
  /\ Idle(t) /\ Created("lock")
  /\ CASE made["lock"] = "null" -> Halt("null_lock")
       [] lock_do_i_hold(t)     -> Halt("lock_reacquire")
       [] OTHER                 -> TryAcquire(t, "acq_sleep")

AcqLoop_noretest(t) ==
  /\ Running /\ pc[t] \in {"acq_loop", "cv_acq_loop"}
  /\ owner' = t
  /\ pc' = [pc EXCEPT ![t] = "idle"]
  /\ UNCHANGED <<made, count, semQ, lkQ, cvQ, panic>>

\* A thread woken on lk_wchan tests lk_owner again.
AcqLoop(t) ==
  /\ Running /\ pc[t] \in {"acq_loop", "cv_acq_loop"}
  /\ Resume("lock", TryAcquire(t, IF pc[t] = "acq_loop" THEN "acq_sleep"
                                                       ELSE "cv_acq_sleep"))

Released_nowake(f) ==
  /\ owner' = NoOwner
  /\ pc' = f
  /\ UNCHANGED lkQ

\* lk_owner = NULL and wchan_wakeone(lk_wchan), with thread states f.
Released(f) ==
  /\ owner' = NoOwner
  /\ pc' = Wake(f, lkQ)
  /\ lkQ' = Rest(lkQ)

lock_release(t) ==
  /\ Idle(t) /\ Created("lock")
  /\ CASE made["lock"] = "null" -> Halt("null_lock")
       [] ~lock_do_i_hold(t)    -> Halt("release_not_holder")
       [] OTHER                 -> /\ Released(pc)
                                   /\ UNCHANGED <<made, count, semQ, cvQ, panic>>

\* The KASSERTs that open cv_wait, cv_signal and cv_broadcast.
CvFault ==
  CASE made["cv"] = "null"   -> "null_cv"
    [] made["lock"] = "null" -> "null_lock"
    [] OTHER                 -> "cv_not_holder"

CvCall(t) ==
  /\ Idle(t) /\ Created("cv") /\ Created("lock")
  /\ (made["cv"] = "null" \/ made["lock"] = "null" \/ ~lock_do_i_hold(t))
  /\ Halt(CvFault)

CvReady(t) ==
  /\ Idle(t) /\ made["cv"] = "live" /\ made["lock"] = "live"
  /\ lock_do_i_hold(t)

\* Under cv_lock: lock_release, then wchan_sleep on cv_wchan.
cv_wait(t) ==
  /\ CvReady(t)
  /\ Released([pc EXCEPT ![t] = "cv_sleep"])
  /\ cvQ' = Append(cvQ, t)
  /\ UNCHANGED <<made, count, semQ, panic>>

\* After wchan_sleep returns: lock_acquire(lock).
CvReacquire(t) ==
  /\ Running /\ pc[t] = "cv_wake"
  /\ Resume("lock", TryAcquire(t, "cv_acq_sleep"))

cv_signal(t) ==
  /\ CvReady(t)
  /\ pc' = Wake(pc, cvQ)
  /\ cvQ' = Rest(cvQ)
  /\ UNCHANGED <<made, count, semQ, owner, lkQ, panic>>

cv_broadcast(t) ==
  /\ CvReady(t)
  /\ pc' = [u \in Threads |-> IF u \in ToSet(cvQ) THEN "cv_wake" ELSE pc[u]]
  /\ cvQ' = <<>>
  /\ UNCHANGED <<made, count, semQ, owner, lkQ, panic>>

Init ==
  /\ made = [k \in Objects |-> "unmade"]
  /\ count = 0
  /\ semQ = <<>>
  /\ owner = NoOwner
  /\ lkQ = <<>>
  /\ cvQ = <<>>
  /\ pc = [t \in Threads |-> "idle"]
  /\ panic = "none"

Next ==
  \E t \in Threads :
    \/ sem_create(t) \/ lock_create(t) \/ cv_create(t)
    \/ P(t) \/ PLoop(t) \/ V(t)
    \/ lock_acquire(t) \/ AcqLoop(t) \/ lock_release(t)
    \/ CvCall(t) \/ cv_wait(t) \/ CvReacquire(t)
    \/ cv_signal(t) \/ cv_broadcast(t)
    \/ \E k \in Objects : destroy(t, k)

Spec == Init /\ [][Next]_vars

\* wchan_wakeone makes the woken thread runnable, and the OS161 scheduler
\* (round robin, preempted by the timer) runs every runnable thread in
\* time.  So a woken thread re-runs its loop; no fairness is assumed for
\* what an idle thread calls next.
Fairness ==
  \A t \in Threads : /\ WF_vars(PLoop(t))
                    /\ WF_vars(AcqLoop(t))
                    /\ WF_vars(CvReacquire(t))

FairSpec == Spec /\ Fairness

-----------------------------------------------------------------------------

TypeOK ==
  /\ made \in [Objects -> {"unmade", "null", "live", "freed"}]
  /\ count \in 0..MaxCount
  /\ semQ \in Seq(Threads) /\ lkQ \in Seq(Threads) /\ cvQ \in Seq(Threads)
  /\ owner \in Threads \cup {NoOwner}
  /\ pc \in [Threads -> PCs]
  /\ panic \in PanicReasons

LoopingOn(s) == {t \in Threads : pc[t] = s}

\* No lost wakeup.  V and lock_release wake one sleeper per unit they make
\* available, and a woken thread may lose the unit or the lock to a thread
\* that never slept (the comment at synch.c:104 says P is not FIFO); it
\* then sleeps again.  So while threads sleep on sem_wchan, every unit of
\* sem_count is owed to a woken thread still at the top of P's loop, and
\* while threads sleep on lk_wchan with the lock free, a woken thread is
\* about to test lk_owner again.  Otherwise a sleeper waits for a wakeup
\* that was already spent.
NoLostWakeup ==
  /\ semQ # <<>> => count <= Cardinality(LoopingOn("P_loop"))
  /\ lkQ # <<>> /\ owner = NoOwner =>
       LoopingOn("acq_loop") \cup LoopingOn("cv_acq_loop") # {}

\* Sleepers make progress.  While the lock is free and threads sleep on
\* lk_wchan, some thread eventually holds it; while sem_count is positive
\* and threads sleep on sem_wchan, the count is eventually taken or the
\* sleepers are all woken.  lock_release and V must wake a sleeper for
\* this (synch.c:132, 246): nothing else ever wakes one, and the callers
\* need not call again.
SleepersProgress ==
  /\ (owner = NoOwner /\ lkQ # <<>>) ~> (owner # NoOwner \/ ~Running)
  /\ (count > 0 /\ semQ # <<>>) ~> (count = 0 \/ semQ = <<>> \/ ~Running)

\* The refinement mapping: the cv's waiters are the threads on cv_wchan,
\* and the signalled ones are those woken from it that have not yet
\* re-acquired the lock inside cv_wait.
Abstract == INSTANCE SynchSpec WITH
  holder <- owner,
  waiters <- ToSet(cvQ),
  signalled <- LoopingOn("cv_wake") \cup LoopingOn("cv_acq_sleep")
                 \cup LoopingOn("cv_acq_loop")

\* synch.c implements the semaphore, lock and condition variable that the
\* rest of the kernel relies on: P never takes a unit that is not there,
\* lock_acquire never hands a held lock to a second thread (its while loop
\* re-tests lk_owner after every wakeup), cv_wait gives the lock up and
\* joins cv_wchan in one step under cv_lock, and a thread leaves cv_wait
\* only by re-acquiring the lock after a signal or broadcast.
SynchRefines == Abstract!Spec
====
