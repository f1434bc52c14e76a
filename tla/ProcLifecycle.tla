--------------------------- MODULE ProcLifecycle ---------------------------
(***************************************************************************)
(* The process table, the parent/child family and the fork / waitpid /    *)
(* _exit system calls of the OS161 SHELL kernel                            *)
(* (kern/proc/proc.c and the syscall_PROC.c of src/unnamed/part_002).      *)
(*                                                                         *)
(* Every user process has one thread, identified here by the pid of its   *)
(* process.  A process struct is identified by its p_pid: proc_init only  *)
(* hands out a pid whose slot is NULL, and a slot only becomes NULL when  *)
(* the struct with that pid is destroyed, so no two live structs share a  *)
(* p_pid.  ptab[i] is the p_pid of the struct that processTable.proc[i]   *)
(* points to, which need not be i.                                         *)
(*                                                                         *)
(* The sleep-lock p_locklock is held only inside single steps of this     *)
(* model (acquire + cv_wait, acquire + cv_signal + release, reacquire +   *)
(* release), so it is free at every interleaving point and is not a       *)
(* variable; p_cv is the set of threads sleeping on its wait channel.     *)
(***************************************************************************)
EXTENDS Integers, FiniteSets

CONSTANTS
  PROC_MAX,   \* pids are 1..PROC_MAX (proc.c:69 has 100)
  ExitCodes,  \* exit codes user programs pass to _exit
  WNOHANG,    \* the WNOHANG option bit of waitpid
  MaxTails,   \* bound on exit paths left running on freed structs at once
  AllocMayFail, \* whether kmalloc, cv/lock_create, vfs_open, as_copy and
                \* thread_fork may fail in fork
  Execs         \* whether user programs call execv

ASSUME PROC_MAX \in Nat \ {0, 1}
ASSUME ExitCodes \subseteq Nat /\ ExitCodes # {}
ASSUME WNOHANG \in Nat \ {0}
ASSUME MaxTails \in Nat \ {0}
ASSUME AllocMayFail \in BOOLEAN /\ Execs \in BOOLEAN

Pids == 1..PROC_MAX
NULL == 0
NoParent == -1
BadOption == WNOHANG + 1
\* The (status pointer, options) pairs that reach distinct branches of the
\* argument checks of sys_waitpid_SHELL: a NULL or misaligned pointer is
\* rejected whatever the options.
WaitArgs == {[st |-> "null", opt |-> 0], [st |-> "unaligned", opt |-> 0],
             [st |-> "valid", opt |-> 0], [st |-> "valid", opt |-> WNOHANG],
             [st |-> "valid", opt |-> BadOption]}
PanicReasons == {"none", "proc_deinit", "null_deref", "use_after_free",
                 "execv_copyout", "kargv_overflow"}
\* "no_image": back in user mode after execv, with an address space that
\* holds no complete program.
PCs == {"none", "user", "no_image", "fork_create", "fork_add",
        "wait_block", "wait_sleep", "wait_woken", "exit_signal"}

VARIABLES
  ptab,       \* processTable.proc[i]: p_pid of the struct in slot i, or NULL
  last_pid,   \* processTable.last_pid
  alive,      \* p_pids of the structs that are allocated and not yet freed
  parent,     \* parent_pid of each struct
  children,   \* children_list of each struct, as a set of pids
  nthreads,   \* p_numthreads
  pstatus,    \* p_status
  cvq,        \* threads asleep on the wait channel of p_cv
  pc,         \* where the thread of each pid is
  fidx,       \* sys_fork local: index returned by find_valid_pid
  fchild,     \* sys_fork local: newproc->p_pid
  wtarget,    \* sys_waitpid local: the process waited for
  sysret,     \* what the system call that returned in the last step
              \* returned, or NoRet (history)
  excode,     \* code each process passed to _exit (history)
  exit_tails, \* exiting threads whose struct was freed before they signalled
  panic       \* why the kernel halted, or "none"

vars == <<ptab, last_pid, alive, parent, children, nthreads, pstatus, cvq,
          pc, fidx, fchild, wtarget, sysret, excode, exit_tails, panic>>

table_vars == <<ptab, alive, parent, children>>

(***************************************************************************)
(* What a system call returned, for the returns the properties are about: *)
(* fork's ENPROC, and a reaping waitpid's *retval and *status with (as    *)
(* history) the code the child passed to _exit.  Other returns are NoRet. *)
(***************************************************************************)
NoRet == [by |-> 0, err |-> "none", pid |-> 0, reaped |-> FALSE,
          status |-> 0, code |-> 0]
Err(p, e) == [NoRet EXCEPT !.by = p, !.err = e]
Reap(p, c) == [by |-> p, err |-> "0", pid |-> c, reaped |-> TRUE,
               status |-> pstatus[c], code |-> excode[c]]

\* _MKWAIT_EXIT(code): the exit code in the low 8 bits (kern/wait.h).
ExitStatus(code) == code % 256

Running == panic = "none"

(***************************************************************************)
(* The process table (proc.c).                                             *)
(***************************************************************************)

\* index++; index = (index > PROC_MAX) ? 1 : index;  -- slot 0 is skipped
NextPid(i) == IF i + 1 > PROC_MAX THEN 1 ELSE i + 1

\* The circular scan of find_valid_pid and proc_init: from i onwards,
\* stopping (and failing) when the scan comes back to last_pid.
RECURSIVE ScanFree(_, _)
ScanFree(i, stop) ==
  IF i = stop THEN -1
  ELSE IF ptab[i] = NULL THEN i
  ELSE ScanFree(NextPid(i), stop)

find_valid_pid == ScanFree(NextPid(last_pid), last_pid)

\* The slot proc_init claims under the table spinlock, or -1.
proc_init_slot == ScanFree(NextPid(last_pid), last_pid)

proc_search(pid) == IF pid \in Pids /\ ptab[pid] = pid THEN pid ELSE NULL

\* Mutant: an is_child that accepts any pid.
is_child_any(p, c) == TRUE

is_child(p, c) == c \in children[p]

\* Mutant: destroy_child_list that frees the list but leaves the
\* children's parent_pid pointing at the dead parent.
destroy_child_list_keep(c) == parent

\* destroy_child_list: every child still in the list is made an orphan.
destroy_child_list(c) ==
  [g \in Pids |-> IF g \in children[c] THEN NoParent ELSE parent[g]]

\* add_new_child: c is appended to p's children_list.
add_new_child(p, c) == [children EXCEPT ![p] = @ \cup {c}, ![c] = {}]

\* remove_child_from_list, followed by the freeing of c's own list.
remove_child_from_list(par, c) ==
  IF par = NoParent THEN [children EXCEPT ![c] = {}]
  ELSE [children EXCEPT ![c] = {}, ![par] = @ \ {c}]

\* proc_remthread: p_numthreads-- under p_lock.
proc_remthread(p) == [nthreads EXCEPT ![p] = @ - 1]

\* proc_deinit fails (and proc_destroy panics) when a listed child or the
\* parent is not found through the table, or the parent does not list c.
DeinitOK(tab, c) ==
  /\ \A g \in children[c] : g \in Pids /\ tab[g] = g
  /\ parent[c] # NoParent =>
        /\ tab[parent[c]] = parent[c]
        /\ c \in children[parent[c]]

\* proc_destroy(c) when the table holds tab (the KASSERT that c has no
\* thread left is the property DestroyOnlyExited): proc_deinit clears the
\* slot, orphans the children and unlinks c from its parent's list, or
\* fails on a lookup and proc_destroy panics; then the struct is freed.
proc_destroy(tab, c) ==
  \/ /\ ~DeinitOK(tab, c)
     /\ panic' = "proc_deinit"
     /\ UNCHANGED table_vars
  \/ /\ DeinitOK(tab, c)
     /\ ptab' = [tab EXCEPT ![c] = NULL]
     /\ parent' = [destroy_child_list(c) EXCEPT ![c] = NoParent]
     /\ children' = remove_child_from_list(parent[c], c)
     /\ alive' = alive \ {c}
     /\ UNCHANGED panic

\* A thread still between proc_remthread and cv_signal when its struct is
\* freed keeps running its exit path on freed memory.
DetachTail(c) == [pc EXCEPT ![c] = IF @ = "exit_signal" THEN "none" ELSE @]
TailsAfter(c) == exit_tails + (IF pc[c] = "exit_signal" THEN 1 ELSE 0)

(***************************************************************************)
(* sys_fork_SHELL                                                          *)
(***************************************************************************)

\* find_valid_pid() runs without the table lock.
ForkFind(p) ==
  /\ Running
  /\ pc[p] = "user"
  /\ \/ /\ find_valid_pid <= 0
        /\ sysret' = Err(p, "ENPROC")
        /\ UNCHANGED <<pc, fidx>>
     \/ /\ find_valid_pid > 0
        /\ fidx' = [fidx EXCEPT ![p] = find_valid_pid]
        /\ pc' = [pc EXCEPT ![p] = "fork_create"]
        /\ sysret' = NoRet
  /\ UNCHANGED <<ptab, last_pid, alive, parent, children, nthreads, pstatus,
                 cvq, fchild, wtarget, excode, exit_tails, panic>>

\* sys_fork returns ENOMEM (or as_copy's error) to the parent.
ForkFails(p) ==
  /\ pc' = [pc EXCEPT ![p] = "user"]
  /\ fidx' = [fidx EXCEPT ![p] = 0]
  /\ sysret' = NoRet
  /\ UNCHANGED fchild

\* proc_init registers the new struct in slot i with p_pid i.
Registered(i) ==
  /\ ptab' = [ptab EXCEPT ![i] = i]
  /\ last_pid' = i
  /\ pstatus' = [pstatus EXCEPT ![i] = 0]
  /\ excode' = [excode EXCEPT ![i] = 0]

\* proc_create_runprogram: proc_create succeeded, then console_init fails
\* for STDIN, STDOUT or STDERR and NULL is returned; the registered
\* struct is never destroyed.
console_init_fails(i) ==
  /\ Registered(i)
  /\ alive' = alive \cup {i}

\* proc_create_runprogram (proc_create, proc_init, console_init), as_copy,
\* the trapframe copy, add_new_child and the parent link: all of it only
\* touches the new struct, the parent's own list and (under the table
\* spinlock) the table, so it is one step.
ForkCreate(p) ==
  LET i == proc_init_slot IN
  /\ Running
  /\ pc[p] = "fork_create"
  /\ \/ \* proc_init finds no slot: proc_create returns NULL
        /\ i <= 0
        /\ ForkFails(p)
        /\ UNCHANGED <<ptab, last_pid, alive, parent, children, pstatus,
                       excode>>
     \/ \* cv_create or lock_create fails in proc_init: proc_create
        \* kfrees the struct, which slot i still points to
        /\ AllocMayFail
        /\ i > 0
        /\ Registered(i)
        /\ ForkFails(p)
        /\ UNCHANGED <<alive, parent, children>>
     \/ /\ AllocMayFail
        /\ i > 0
        /\ console_init_fails(i)
        /\ ForkFails(p)
        /\ UNCHANGED <<parent, children>>
     \/ \* as_copy, the trapframe kmalloc or add_new_child fails:
        \* proc_destroy(newproc) undoes proc_init except last_pid
        /\ AllocMayFail
        /\ i > 0
        /\ last_pid' = i
        /\ ForkFails(p)
        /\ UNCHANGED <<ptab, alive, parent, children, pstatus, excode>>
     \/ /\ i > 0
        /\ Registered(i)
        /\ alive' = alive \cup {i}
        /\ children' = add_new_child(p, i)
        /\ parent' = [parent EXCEPT ![i] = p]
        /\ pc' = [pc EXCEPT ![p] = "fork_add"]
        /\ fchild' = [fchild EXCEPT ![p] = i]
        /\ sysret' = NoRet
        /\ UNCHANGED fidx
  /\ UNCHANGED <<nthreads, cvq, wtarget, exit_tails, panic>>

\* proc_add: processTable.proc[pid] = proc under the table spinlock (the
\* argument check never fails: pid is a slot find_valid_pid returned).
proc_add(i, c) == [ptab EXCEPT ![i] = c]

\* proc_add(index, newproc) under the table lock, then thread_fork.
\* thread_fork attaches the new thread to newproc: proc_addthread.
\* Mutant: a thread_fork that never attaches the thread to newproc.
proc_addthread_none(c) == nthreads

proc_addthread(c) == [nthreads EXCEPT ![c] = @ + 1]

\* The new thread starts in call_enter_forked_process, which enters user
\* mode on the trapframe copy and never returns.
call_enter_forked_process(c) == [pc EXCEPT ![c] = "user"]

ForkAdd(p) ==
  LET i == fidx[p]
      c == fchild[p]
      tab == proc_add(i, c)
  IN
  /\ Running
  /\ pc[p] = "fork_add"
  /\ last_pid' = i
  /\ \/ /\ ptab' = tab
        /\ nthreads' = proc_addthread(c)
        /\ pc' = [call_enter_forked_process(c) EXCEPT ![p] = "user"]
        /\ sysret' = NoRet
        /\ UNCHANGED <<alive, parent, children, panic>>
     \/ \* thread_fork fails: proc_destroy(newproc)
        /\ AllocMayFail
        /\ proc_destroy(tab, c)
        /\ pc' = [pc EXCEPT ![p] = "user"]
        /\ sysret' = NoRet
        /\ UNCHANGED nthreads
  /\ fidx' = [fidx EXCEPT ![p] = 0]
  /\ fchild' = [fchild EXCEPT ![p] = 0]
  /\ UNCHANGED <<pstatus, cvq, wtarget, excode, exit_tails>>

(***************************************************************************)
(* sys_waitpid_SHELL                                                       *)
(***************************************************************************)

\* The argument checks, in the order of the code; "0" lets the call go on,
\* "RETPID" returns 0 with *retval = pid and reaps nothing.
waitpid_check(p, pid, st, opt) ==
  IF pid = p THEN "ECHILD"
  ELSE IF st = "null" THEN "RETPID"
  ELSE IF st = "unaligned" THEN "EFAULT"
  ELSE IF ~is_child(p, pid) THEN "ECHILD"
  ELSE IF opt = WNOHANG THEN "RETPID"
  ELSE IF opt # 0 THEN "EINVAL"
  ELSE "0"

\* proc_destroy(c) by the waiting parent p, reporting the reap.
Reaps(p, c) ==
  /\ TailsAfter(c) <= MaxTails
  /\ sysret' = Reap(p, c)
  /\ proc_destroy(ptab, c)
  /\ exit_tails' = TailsAfter(c)

\* The checks, proc_search and the p_numthreads test, all without
\* p_locklock.  A return that reaps nothing is recorded as NoRet: no
\* property tells its error codes apart.  proc_search cannot hit a NULL slot here: a listed child
\* is alive and keeps its slot (FamilyConsistent).
WaitPid(p, pid, st, opt) ==
  LET e == waitpid_check(p, pid, st, opt) IN
  /\ Running
  /\ pc[p] = "user"
  /\ \/ /\ e # "0"
        /\ sysret' = NoRet
        /\ UNCHANGED <<pc, wtarget, exit_tails, table_vars, panic>>
     \/ /\ e = "0"
        /\ proc_search(pid) = NULL                 \* ESRCH
        /\ sysret' = NoRet
        /\ UNCHANGED <<pc, wtarget, exit_tails, table_vars, panic>>
     \/ \* the child has already dropped its thread: reap it now
        /\ e = "0"
        /\ proc_search(pid) = pid
        /\ nthreads[pid] = 0
        /\ Reaps(p, pid)
        /\ pc' = DetachTail(pid)
        /\ UNCHANGED wtarget
     \/ /\ e = "0"
        /\ proc_search(pid) = pid
        /\ nthreads[pid] > 0
        /\ wtarget' = [wtarget EXCEPT ![p] = pid]
        /\ pc' = [pc EXCEPT ![p] = "wait_block"]
        /\ sysret' = NoRet
        /\ UNCHANGED <<exit_tails, table_vars, panic>>
  /\ UNCHANGED <<last_pid, nthreads, pstatus, cvq, fidx, fchild, excode>>

\* lock_acquire(p_locklock); cv_wait(p_cv, p_locklock): the lock is
\* released and the thread sleeps atomically w.r.t. cv_signal.
WaitBlock(p) ==
  LET c == wtarget[p] IN
  /\ Running
  /\ pc[p] = "wait_block"
  /\ cvq' = [cvq EXCEPT ![c] = @ \cup {p}]
  /\ pc' = [pc EXCEPT ![p] = "wait_sleep"]
  /\ sysret' = NoRet
  /\ UNCHANGED <<ptab, last_pid, alive, parent, children, nthreads, pstatus,
                 fidx, fchild, wtarget, excode, exit_tails, panic>>

\* Woken: cv_wait reacquires the lock, lock_release, *status = p_status,
\* proc_destroy(proc).
WaitWoken(p) ==
  LET c == wtarget[p] IN
  /\ Running
  /\ pc[p] = "wait_woken"
  /\ Reaps(p, c)
  /\ pc' = [DetachTail(c) EXCEPT ![p] = "user"]
  /\ wtarget' = [wtarget EXCEPT ![p] = 0]
  /\ UNCHANGED <<last_pid, nthreads, pstatus, cvq, fidx, fchild, excode>>

(***************************************************************************)
(* sys_exit_SHELL                                                          *)
(***************************************************************************)

\* Mutant: sys_exit that never stores p_status.
ExitRemThread_nostatus(p, code) ==
  /\ Running
  /\ pc[p] = "user"
  /\ excode' = [excode EXCEPT ![p] = code]
  /\ nthreads' = proc_remthread(p)
  /\ pc' = [pc EXCEPT ![p] = "exit_signal"]
  /\ sysret' = NoRet
  /\ UNCHANGED <<ptab, last_pid, alive, parent, children, pstatus, cvq,
                 fidx, fchild, wtarget, exit_tails, panic>>

\* Mutant: sys_exit leaving proc_remthread to thread_exit, after the
\* signal (the order the comment at syscall_PROC.c:152 warns against).
ExitRemThread_late(p, code) ==
  /\ Running
  /\ pc[p] = "user"
  /\ pstatus' = [pstatus EXCEPT ![p] = ExitStatus(code)]
  /\ excode' = [excode EXCEPT ![p] = code]
  /\ pc' = [pc EXCEPT ![p] = "exit_signal"]
  /\ sysret' = NoRet
  /\ UNCHANGED <<ptab, last_pid, alive, parent, children, nthreads, cvq,
                 fidx, fchild, wtarget, exit_tails, panic>>

\* p_status = _MKWAIT_EXIT(exitcode); proc_remthread(curthread).
ExitRemThread(p, code) ==
  /\ Running
  /\ pc[p] = "user"
  /\ pstatus' = [pstatus EXCEPT ![p] = ExitStatus(code)]
  /\ excode' = [excode EXCEPT ![p] = code]
  /\ nthreads' = proc_remthread(p)
  /\ pc' = [pc EXCEPT ![p] = "exit_signal"]
  /\ sysret' = NoRet
  /\ UNCHANGED <<ptab, last_pid, alive, parent, children, cvq, fidx, fchild,
                 wtarget, exit_tails, panic>>

\* Mutant: a thread_exit that calls proc_remthread a second time.
ExitSignal_remthread(p) ==
  /\ Running
  /\ pc[p] = "exit_signal"
  /\ nthreads' = proc_remthread(p)
  /\ \/ /\ cvq[p] = {}
        /\ pc' = [pc EXCEPT ![p] = "none"]
        /\ UNCHANGED cvq
     \/ \E w \in cvq[p] :
          /\ cvq' = [cvq EXCEPT ![p] = @ \ {w}]
          /\ pc' = [pc EXCEPT ![p] = "none", ![w] = "wait_woken"]
  /\ sysret' = NoRet
  /\ UNCHANGED <<ptab, last_pid, alive, parent, children, pstatus,
                 fidx, fchild, wtarget, excode, exit_tails, panic>>

\* lock_acquire; cv_signal wakes one sleeper; lock_release; thread_exit.
ExitSignal(p) ==
  /\ Running
  /\ pc[p] = "exit_signal"
  /\ \/ /\ cvq[p] = {}
        /\ pc' = [pc EXCEPT ![p] = "none"]
        /\ UNCHANGED cvq
     \/ \E w \in cvq[p] :
          /\ cvq' = [cvq EXCEPT ![p] = @ \ {w}]
          /\ pc' = [pc EXCEPT ![p] = "none", ![w] = "wait_woken"]
  /\ sysret' = NoRet
  /\ UNCHANGED <<ptab, last_pid, alive, parent, children, nthreads, pstatus,
                 fidx, fchild, wtarget, excode, exit_tails, panic>>

\* The same lock_acquire / cv_signal on a struct proc already kfree'd by
\* the parent's immediate reap: the build may go on or fault.
ExitTail ==
  /\ Running
  /\ exit_tails > 0
  /\ exit_tails' = exit_tails - 1
  /\ \/ panic' = "use_after_free"
     \/ UNCHANGED panic
  /\ sysret' = NoRet
  /\ UNCHANGED <<ptab, last_pid, alive, parent, children, nthreads, pstatus,
                 cvq, pc, fidx, fchild, wtarget, excode>>

(***************************************************************************)
(* The specification.  Initially the first user process (pid 1, made by   *)
(* runprogram through proc_create_runprogram after proc_bootstrap) runs.  *)
(***************************************************************************)
(***************************************************************************)
(* sys_execv_SHELL.  Only the calling process's own address space changes *)
(* and it has one thread, so the call is one step.                        *)
(***************************************************************************)

\* What loadexec (not under src/; the steps of spec section 4.6) can do:
\* vfs_open or as_create fail before proc_setas installs the new address
\* space, load_elf or as_define_stack fail after the old one is destroyed.
loadexec == {"fails_before_setas", "fails_after_setas", "ok"}

Execv(p) ==
  /\ Running
  /\ Execs
  /\ pc[p] = "user"
  /\ \/ /\ AllocMayFail                 \* kmalloc(PATH_MAX): ENOMEM
        /\ UNCHANGED <<pc, panic>>
     \/ UNCHANGED <<pc, panic>>          \* copyinstr, argbuf_fromuser
     \/ \E r \in loadexec :
          \/ r = "fails_before_setas" /\ UNCHANGED <<pc, panic>>
          \/ \* the error is returned to a process whose old image is gone
             /\ r = "fails_after_setas"
             /\ pc' = [pc EXCEPT ![p] = "no_image"]
             /\ UNCHANGED panic
          \/ r = "ok" /\ panic' = "execv_copyout" /\ UNCHANGED pc
          \/ r = "ok" /\ UNCHANGED <<pc, panic>>  \* enter_new_process
  /\ sysret' = NoRet
  /\ UNCHANGED <<ptab, last_pid, alive, parent, children, nthreads, pstatus,
                 cvq, fidx, fchild, wtarget, excode, exit_tails>>

(***************************************************************************)
(* The other revision of sys_execv_SHELL (syscall_PROC.c 360-519), which  *)
(* writes loadexec's steps out inline.  It returns an error, and changes  *)
(* nothing, on a NULL pathname, a copyinstr error, E2BIG, an argument     *)
(* copyin error or a vfs_open error, and on the ENOMEM of any kmalloc or  *)
(* as_create.  kargv[i] gets strlen(argv[i]+1) bytes, two fewer than the  *)
(* copyinstr after it writes: whether that corrupts the heap depends on   *)
(* kmalloc's rounding, so a later fault is one outcome.  After            *)
(* as_destroy(oldas), an error of load_elf, as_define_stack or an         *)
(* argument copyout is returned to a process with no image.               *)
(***************************************************************************)
ExecvInline(p) ==
  /\ Running
  /\ Execs
  /\ pc[p] = "user"
  /\ \/ UNCHANGED <<pc, panic>>          \* EFAULT, copyinstr, E2BIG, vfs_open
     \/ AllocMayFail /\ UNCHANGED <<pc, panic>>      \* kmalloc, as_create
     \/ panic' = "kargv_overflow" /\ UNCHANGED pc
     \/ pc' = [pc EXCEPT ![p] = "no_image"] /\ UNCHANGED panic
     \/ UNCHANGED <<pc, panic>>                    \* enter_new_process
  /\ sysret' = NoRet
  /\ UNCHANGED <<ptab, last_pid, alive, parent, children, nthreads, pstatus,
                 cvq, fidx, fchild, wtarget, excode, exit_tails>>

Init ==
  /\ ptab = [i \in Pids |-> IF i = 1 THEN 1 ELSE NULL]
  /\ last_pid = 1
  /\ alive = {1}
  /\ parent = [i \in Pids |-> NoParent]
  /\ children = [i \in Pids |-> {}]
  /\ nthreads = [i \in Pids |-> IF i = 1 THEN 1 ELSE 0]
  /\ pstatus = [i \in Pids |-> 0]
  /\ cvq = [i \in Pids |-> {}]
  /\ pc = [i \in Pids |-> IF i = 1 THEN "user" ELSE "none"]
  /\ fidx = [i \in Pids |-> 0]
  /\ fchild = [i \in Pids |-> 0]
  /\ wtarget = [i \in Pids |-> 0]
  /\ sysret = NoRet
  /\ excode = [i \in Pids |-> 0]
  /\ exit_tails = 0
  /\ panic = "none"

Next ==
  \/ \E p \in Pids :
       \/ ForkFind(p)
       \/ ForkCreate(p)
       \/ ForkAdd(p)
       \/ \E pid \in Pids, a \in WaitArgs : WaitPid(p, pid, a.st, a.opt)
       \/ WaitBlock(p)
       \/ WaitWoken(p)
       \/ \E code \in ExitCodes : ExitRemThread(p, code)
       \/ ExitSignal(p)
       \/ Execv(p)
       \/ ExecvInline(p)
  \/ ExitTail

Spec == Init /\ [][Next]_vars

\* The scheduler runs every runnable kernel thread; what a user program
\* does next (fork, waitpid, _exit) is its own choice and is not fair.
Fairness ==
  /\ \A p \in Pids :
       /\ WF_vars(ForkCreate(p))
       /\ WF_vars(ForkAdd(p))
       /\ WF_vars(WaitBlock(p))
       /\ WF_vars(WaitWoken(p))
       /\ WF_vars(ExitSignal(p))
  /\ WF_vars(ExitTail)

FairSpec == Spec /\ Fairness

(***************************************************************************)
(* Properties                                                              *)
(***************************************************************************)

TypeOK ==
  /\ ptab \in [Pids -> {NULL} \cup Pids]
  /\ last_pid \in Pids
  /\ alive \subseteq Pids
  /\ parent \in [Pids -> Pids \cup {NoParent}]
  /\ children \in [Pids -> SUBSET Pids]
  /\ nthreads \in [Pids -> 0..1]
  /\ cvq \in [Pids -> SUBSET Pids]
  /\ pc \in [Pids -> PCs]
  /\ fidx \in [Pids -> 0..PROC_MAX]
  /\ fchild \in [Pids -> 0..PROC_MAX]
  /\ wtarget \in [Pids -> 0..PROC_MAX]
  /\ exit_tails \in 0..MaxTails
  /\ panic \in PanicReasons

\* The parent_pid links and the children lists (add_new_child,
\* destroy_child_list, remove_child_from_list) describe the same tree of
\* live structs, and every live struct is reachable through its table slot
\* as proc_search needs: a parent is alive and lists its child, a listed
\* child is alive and names its parent.
FamilyConsistent ==
  \A c \in alive :
    /\ ptab[c] # NULL
    /\ parent[c] # NoParent => parent[c] \in alive /\ c \in children[parent[c]]
    /\ \A g \in children[c] : g \in alive /\ parent[g] = c

\* proc_destroy KASSERTs p_numthreads == 0: a struct proc is only freed
\* (by waitpid or by a failed fork) once no thread runs in it, which
\* relies on sys_exit calling proc_remthread before cv_signal.
DestroyOnlyExited ==
  [][\A c \in alive \ alive' : nthreads[c] = 0]_vars

\* A waitpid that reaps a child does so only after the child ran
\* sys_exit, and hands back the status _MKWAIT_EXIT made of the code the
\* child passed to _exit.
ReapAfterExit ==
  [][sysret'.reaped =>
       /\ pc[sysret'.pid] \in {"none", "exit_signal"}
       /\ sysret'.status = ExitStatus(sysret'.code)]_vars

(***************************************************************************)
(* waitpid reaps, and proc_destroys, only a struct that is still          *)
(* allocated.  A cv_create or lock_create failure in proc_init (proc.c    *)
(* 293-297) makes proc_create kfree a struct that slot i still points to, *)
(* with p_pid still i, so proc_search(i) returns the freed struct; only   *)
(* the is_child test, made before proc_search, keeps a waitpid(i) from    *)
(* destroying it a second time.                                           *)
(***************************************************************************)
ReapsOnlyLive ==
  [][sysret'.reaped => sysret'.pid \in alive]_vars

(***************************************************************************)
(* sys_waitpid_SHELL checks is_child and looks the child up with          *)
(* proc_search without p_locklock, then sleeps on that struct's p_cv and, *)
(* once woken, reads p_status and proc_destroys it (part_002 88-133).     *)
(* The struct it holds must stay a live child of the caller from the     *)
(* check to the reap, whatever other forks, exits and waits do meanwhile: *)
(* nobody else may reap or free it, and no fork failure may destroy it.   *)
(***************************************************************************)
WaitTargetStable ==
  \A p \in Pids :
    pc[p] \in {"wait_block", "wait_sleep", "wait_woken"} =>
      /\ wtarget[p] \in alive
      /\ wtarget[p] \in children[p]
      /\ parent[wtarget[p]] = p

(***************************************************************************)
(* The refinement mapping to ProcSpec.  A child between proc_create and   *)
(* thread_fork (the fchild of a parent in fork_add) is not a process yet: *)
(* thread_fork may still fail and destroy it.  A live struct is running   *)
(* while its thread is attached, and a zombie once _exit detached it.     *)
(***************************************************************************)
Embryo(c) == \E p \in Pids : pc[p] = "fork_add" /\ fchild[p] = c

AbsState(c) ==
  IF c \notin alive \/ Embryo(c) THEN "free"
  ELSE IF nthreads[c] > 0 THEN "run"
  ELSE "zombie"

abs_state == [c \in Pids |-> AbsState(c)]
abs_par == [c \in Pids |-> IF abs_state[c] = "free" THEN NoParent ELSE parent[c]]
abs_st == [c \in Pids |-> IF abs_state[c] = "zombie" THEN pstatus[c] ELSE 0]

Abstract == INSTANCE ProcSpec WITH state <- abs_state, par <- abs_par,
                                   st <- abs_st

\* fork, waitpid and _exit implement the process layer's contract: a pid
\* is handed only to a free pid by a running parent, only a running
\* process exits, recording _MKWAIT_EXIT of its code, and only a running
\* parent reaps, only its own zombie child, orphaning that child's
\* children.  Every other step (a failed fork, a wait that reaps nothing,
\* the lock and cv steps) leaves the abstract state alone.
ProcRefines ==
  /\ Abstract!Init
  /\ [][UNCHANGED <<abs_state, abs_par, abs_st>> \/ Abstract!Next]_vars

(***************************************************************************)
(* Properties the code does not have (checked by violation runs).          *)
(***************************************************************************)

\* A parent asleep in waitpid on a child that has exited is eventually
\* woken.  sys_waitpid_SHELL tests p_numthreads (syscall_PROC.c:113)
\* before taking p_locklock, so sys_exit_SHELL's cv_signal can come
\* between that test and cv_wait and find nobody to wake.
WaitReturns ==
  \A w \in Pids :
    (pc[w] = "wait_sleep" /\ nthreads[wtarget[w]] = 0) ~> pc[w] # "wait_sleep"

\* Slot i of the process table holds the process with pid i (what
\* proc_search relies on).  find_valid_pid runs without the table lock and
\* proc_add writes newproc into the slot it returned, which a concurrent
\* fork's proc_init may have taken meanwhile.
SlotHoldsOwnPid ==
  \A i \in Pids : ptab[i] \in {NULL, i}

\* fork fails with ENPROC only when the process table has no free slot.
\* find_valid_pid stops before looking at slot last_pid.
ForkFailsOnlyWhenFull ==
  [][sysret'.err = "ENPROC" => \A i \in Pids : ptab[i] # NULL]_vars

\* No struct proc is freed while a thread still has to use it.  When
\* waitpid finds p_numthreads == 0 it destroys the child at once, while
\* the child's thread may still be about to lock_acquire and cv_signal on
\* its p_locklock and p_cv.
NoUseAfterFree == exit_tails = 0

=============================================================================
