# TLA+ models of the OS161 SHELL kernel

This directory holds TLA+ models of the OS161 SHELL project's kernel
extensions: the process table, the fork / waitpid / _exit system calls and
the open / close / read / write / dup2 / chdir system calls, execv, and
the semaphores, sleep locks and condition variables of `synch.c`. Each
model comes with TLC configurations that check it.

## The system

The sources under `src/` hold several revisions of the same files, joined
one after another. The models follow the latest revision of each function:

| part | source (latest revision) |
|---|---|
| process table, `struct proc` life cycle, child lists | `src/os161-base-2.0.3/kern/proc/proc.c` lines 1-778 |
| `struct proc`, `struct child_list`, `struct openfile` | `src/os161-base-2.0.3/kern/include/syscall_SHELL.h` |
| getpid, waitpid, _exit, fork, execv | `src/unnamed/part_002` (`syscall_PROC.c`) |
| open, close, read, write, dup2, chdir, getcwd, remove | `src/os161-base-2.0.3/kern/syscall/syscall_FILE.c` lines 1-513 |
| semaphores, sleep locks, condition variables | `src/os161-base-2.0.3/kern/thread/synch.c` lines 1-406 |

How the parts interact:

- **fork.**
  - `find_valid_pid` scans the table for a free index without the table spinlock.
  - `proc_create_runprogram` → `proc_create` → `proc_init` registers the new struct in the first free slot, under the spinlock, and gives it that pid.
  - `console_init` opens fds 0-2. `as_copy` and the trapframe copy follow.
  - `add_new_child` links the child into the parent's `children_list`, and the child's `parent_pid` is set.
  - `proc_add(index, newproc)` stores the struct at the index from step 1, which need not be its own pid.
  - `thread_fork` starts the child.
- **_exit.** Sets `p_status = _MKWAIT_EXIT(code)` and calls `proc_remthread`. Then, under `p_locklock`, it calls `cv_signal(p_cv)`. Finally it calls `thread_exit`.
- **waitpid.**
  - It checks its arguments and `is_child`, then calls `proc_search` and tests `p_numthreads`. None of this holds `p_locklock`.
  - If `p_numthreads` is already 0, it destroys the child at once.
  - Otherwise it calls `cv_wait`, then reads `p_status` and calls `proc_destroy`.
- **File calls.**
  - Each process has its own `fileTable[OPEN_MAX]` of pointers to `struct openfile {vn, offset, mode_open, count_refs, lock}`.
  - fds 0-2 point to openfiles that `console_init` kmallocs for that process.
  - `open` claims an entry of the static, shared `systemFileTable` (`vn == NULL` means free), then the first free fd from 3.
  - `read`, `write`, `close` and `dup2` serialise on the entry's sleep lock. Processes share an entry only through a race in `open`, since fork gives the child fresh console openfiles.
- **proc_destroy.** Calls `proc_deinit`, which:
  - clears the slot;
  - orphans the children (`destroy_child_list`);
  - unlinks the struct from its parent (`remove_child_from_list`), finding the parent through `proc_search`.

  A failed lookup makes `proc_destroy` panic.

## Modules

### `ProcLifecycle.tla`: process table, fork, waitpid, _exit

**State.** Every user process has one thread, identified by its pid. A struct
proc is identified by its `p_pid`. This is sound because `proc_init` only
gives out a pid whose slot is NULL, and only the destruction of that struct
clears the slot.

| variable | code |
|---|---|
| `ptab[i]` | `processTable.proc[i]`, as the `p_pid` of the struct it points to (or NULL) |
| `last_pid` | `processTable.last_pid` |
| `alive` | structs that are allocated and not yet freed |
| `parent`, `children` | `parent_pid`, and `children_list` as a set |
| `nthreads`, `pstatus` | `p_numthreads`, `p_status` |
| `cvq[c]` | the threads asleep on `c->p_cv` |
| `pc[p]` | where the thread of `p` is: `user`, `fork_create`, `fork_add`, `wait_block`, `wait_sleep`, `wait_woken`, `exit_signal`, or `none` |
| `fidx`, `fchild`, `wtarget` | locals of `sys_fork_SHELL` (index, newproc) and `sys_waitpid_SHELL` (proc) |
| `exit_tails` | exit paths that still have to lock and signal on a struct waitpid already freed |
| `panic` | the reason the kernel halted (`proc_deinit` failure or use after free) |
| `sysret`, `excode` | history: the return of the syscall that completed in the last step (ENPROC, or what a reaping waitpid hands back), and the code passed to `_exit` |

**Actions.** One or more per system call, split only where another thread
can interleave:

- `ForkFind`: the unlocked `find_valid_pid`.
- `ForkCreate`: the rest up to the parent link. It covers `proc_init` finding no slot, the cv/lock-create failure, the `console_init` failure, `as_copy`/`kmalloc`/`add_new_child` failure, and success.
- `ForkAdd`: `proc_add` plus `thread_fork`, which either succeeds or fails and calls `proc_destroy`. On success the child's thread starts in `call_enter_forked_process` (the operator of that name), which enters user mode and never returns.
- `WaitPid`: the argument checks in the code's order, `proc_search`, and the `p_numthreads` test. It either reaps at once or goes on to block.
- `WaitBlock`: `lock_acquire` + `cv_wait`.
- `WaitWoken`: reacquire, release, read the status, `proc_destroy`.
- `ExitRemThread`: the status and `proc_remthread`.
- `ExitSignal`: lock, `cv_signal`, unlock, `thread_exit`.
- `ExitTail`: the same lock/signal on a struct that was already freed. It may or may not fault.
- `Execv`: the whole of `sys_execv_SHELL` (syscall_PROC.c:267-334), one step because nothing in it is shared with another process. Its disjuncts are the kmalloc ENOMEM, a copyinstr/argument error, `loadexec` failing before or after `proc_setas` (after: the thread returns to user mode with no image, pc `no_image`), the copyout panic of the new stack, and `enter_new_process`. `loadexec` is not under `src/`; the operator `loadexec` is modelled from section 4.6 of `spec.md` and marked `spec_modelled`. The constant `Execs` enables this action; only `proc_failures` sets it.
- `ExecvInline`: the other revision of `sys_execv_SHELL` in `syscall_PROC.c` (lines 360-519), which writes loadexec's steps out inline. Its disjuncts:
  - the early errors (NULL pathname, copyinstr, E2BIG, argument copyin, vfs_open) and the ENOMEMs, which change nothing;
  - `kargv_overflow`: each argument buffer is `strlen(argv[i]+1)` bytes, two fewer than copyinstr writes, and a later heap fault is one outcome of that;
  - `no_image`: a load_elf, as_define_stack or copyout error returned after `as_destroy(oldas)`;
  - `enter_new_process`.

  The two revisions never coexist in one kernel. `Execs` lets a behaviour call either, and no property depends on which.
- `proc_addthread` is the `p_numthreads++` that `thread_fork` makes on the child.

**The sleep lock `p_locklock` is not a variable.** Every interval in which it
is held lies inside one step: `WaitBlock`, `ExitSignal`, or the reacquire in
`WaitWoken`. So it is free at every interleaving point. `cv_wait` releases the
lock and sleeps atomically with respect to `cv_signal` (synch.c:326-381), and
that is why `WaitBlock` is one step.

**Failures** of kmalloc, `cv_create`/`lock_create`, `vfs_open`, `as_copy` and
`thread_fork` are nondeterministic disjuncts. The constant `AllocMayFail`
enables them.

### `ProcSpec.tla`: what the process layer promises

`ProcSpec` is the abstract process life cycle of `spec.md` (sections 4.4 and
4.6), with no table, structs, locks or wait channels. Each pid is `free`,
`run` or `zombie`, and each process has a parent (`par`) and a status (`st`).
There are three actions:
- `Spawn(p, c)`: a running process forks a child onto a free pid.
- `Exit(p, code)`: a running process becomes a zombie with status `code % 256`.
- `Reap(p, c)`: a running process reaps its own zombie child. The pid becomes free, and the zombie's children become orphans.

`ProcLifecycle` maps onto it as follows (`abs_state`, `abs_par`, `abs_st`):
- A struct that is not alive is `free`.
- A struct between `proc_create` and `thread_fork` is also `free` (`Embryo`: the `fchild` of a parent in `fork_add`). `thread_fork` may still fail and destroy it.
- A live struct with its thread attached is `run`.
- A live struct whose thread `_exit` detached is `zombie`.

`ForkAdd`'s successful `thread_fork` is `Spawn`, `ExitRemThread` is `Exit`,
and a reaping waitpid is `Reap`. Every other step is a stuttering step.
`ProcRefines` states the refinement in the form `Init /\ [][UNCHANGED
mapped-state \/ Next]_vars`, which is `ProcSpec!Spec` with the cheap
stuttering test first. It is checked only in `proc_safety`. With allocation
failures, the struct that a failed `console_init` leaks is a zombie that no
fork made (hazard proc.c:545).

### `FileTable.tla`: open, close, read, write, dup2, chdir, _exit

**State.** An openfile is an entry id:
- system entries `1..SYSTEM_OPEN_MAX` stand for `systemFileTable[0..]`;
- `ConId(p, fd)` stands for the console openfiles of process `p`.

A vnode is named by the process whose `open` produced it, and `ConVn` names
the console. A lock object is an id: a console lock has its entry's id, and
the k-th `open` creates lock `LockBase + k`. The offset is abstracted away,
because no property depends on it.

| variable | code |
|---|---|
| `ft[p][fd]` | `curproc->fileTable[fd]` |
| `vn`, `cnt`, `mode`, `lk` | the openfile's `vn`, `count_refs` (unsigned, `CountBits` wide), `mode_open`, `lock` |
| `owner[l]` | `lk_owner` of lock `l` |
| `pc`, `loc` | where each process's thread is, and its syscall locals: `of`, the lock and `vn` it read, and the fds |
| `nopen` | opens that reached the table scan, bounded by `MaxOpens` |
| `sysret` | history: the result of an `open` that returned in the last step |
| `panic` | why the kernel stopped: a lock KASSERT, a NULL vnode, dup2's NULL dereference, kfree of a static entry, or the write past `fileTable` |
| `cwd[p]` | `p_cwd`, as the path chdir last set (`BootDir` at boot) |

**Actions.** They are split where the code can sleep or block:

- `IOStart` / `IOAcquire` / `IOVop`: checks, `lock_acquire`, then VOP plus `lock_release`. The VOP error and copyout paths return holding the lock.
- `OpenStart`: the unlocked scan. `OpenClaim`: `of->vn = v`, the fd loop with its `OPEN_MAX-1` test, then VOP_STAT, `count_refs`, mode and `lock_create`, each with its error path. The `lock_create` failure sets `of->lock = NULL` before the bad kfree.
- `CloseStart` / `CloseAcquire` / `CloseVfs`: checks, the decrement, then `vfs_close` plus `lock_release`, which re-reads `of->lock`.
- `Dup2Start` / `Dup2Close` / `Dup2Inc`.
- `sys_chdir`: one step (it holds no lock). A path is abstracted to its length and to what it names (`ChdirPaths`). The disjuncts are the kmalloc ENOMEM, ENAMETOOLONG when the path and its NUL do not fit `kbuffer` (whose size `KBufSize` is the `sizeof` of a pointer, syscall_FILE.c:381-389), `vfs_open` failing, `vfs_setcurdir` refusing a non-directory, and success, which sets `cwd[p]`. getcwd only reads `cwd` and remove is a stub, so neither is an action.
- `sys_exit`: `_exit` (part_002:146-165), together with the `proc_destroy` that later frees the struct (proc.c:407-491), closes no descriptor. The process stops (pc `exited`) and every openfile its `fileTable` points to keeps its `count_refs`, `vn` and lock. Nothing can close them any more. Section 4.3 of `spec.md` says exit closes every slot.

`lock_acquire`/`lock_release` follow synch.c: `KASSERT(lock != NULL)`,
no re-acquire by the holder, and release only by the holder. A blocked
acquire is a disabled step.

Undefined behaviour is a nondeterministic choice between its outcomes:

- kfree of a static entry either trips kfree's KASSERT or does nothing (page-aligned address);
- going through `fileTable[OPEN_MAX]` either faults or scribbles silently and returns `OPEN_MAX`.

The `default:` (EINVAL) branch of open's mode switch is not an action:
`vfs_open` already rejects an invalid access mode.

### `SynchSpec.tla` and `Synch.tla`: semaphores, sleep locks, condition variables

`SynchSpec` is what the primitives promise, with no wait channels:
- P takes a unit only when one is there, and V adds one.
- The lock has one holder at most, and only the holder gives it up.
- `cv_wait` gives the lock up and joins the waiters in one step.
- A signal or broadcast marks one or all waiters as signalled. A signalled thread leaves `cv_wait` only by taking the lock again, competing with every other thread (Mesa semantics).

`Synch` translates `synch.c` (one semaphore, one lock and one cv, used by up
to three threads). Each operation runs under the object's spinlock, and
`wchan_sleep` releases that spinlock and sleeps atomically. So every pass of a
`while (...) wchan_sleep` loop is one step: the thread either proceeds or is
appended to the wait channel.

| variable | code |
|---|---|
| `made[k]` | whether `sem_create` / `lock_create` / `cv_create` has run and returned the object or NULL |
| `count` | `sem_count` |
| `owner` | `lk_owner` |
| `semQ`, `lkQ`, `cvQ` | the threads on `sem_wchan`, `lk_wchan`, `cv_wchan`, as FIFO sequences (`threadlist_addtail` / `threadlist_remhead`) |
| `pc[t]` | where thread `t` is: idle, asleep on a wchan, or woken and about to re-test its loop condition |
| `panic` | the KASSERT that stopped the kernel: a NULL object, re-acquiring a held lock, releasing a lock it does not hold, or a cv call without the lock |

**Actions.**
- `sem_create`, `lock_create`, `cv_create`: the object, or NULL when kmalloc, kstrdup or `wchan_create` fails.
- `destroy`: `sem_destroy`, `lock_destroy`, `cv_destroy`. A NULL object trips the KASSERT. `wchan_destroy` asserts that nobody sleeps on the channel (`wchan_busy`). Otherwise the object is freed (`made = "freed"`). `lock_destroy` does not look at `lk_owner`. Callers hand only created, undestroyed objects to the operations (`Created`). A thread that was woken but has not run yet re-tests the freed object (`Resume`), which is modelled as a fault (`use_after_free`).
- `P` / `PLoop`: the first pass and a woken thread's pass of P's loop.
- `V`: increments and wakes the head of `sem_wchan`.
- `lock_acquire` / `AcqLoop`: the KASSERTs, then one pass of the loop.
- `lock_release`: clears `lk_owner` and wakes one thread.
- `CvCall`: the KASSERTs of the cv calls.
- `cv_wait`: release, then sleep on `cv_wchan`.
- `CvReacquire`: `lock_acquire` after the wakeup.
- `cv_signal`, `cv_broadcast`.

A woken thread is not handed the resource. It re-tests the condition and may
lose to a thread that never slept (synch.c:104 says P is not FIFO).

**Refinement.** `SynchRefines` is `SynchSpec!Spec` under this mapping:
- `holder` is `owner`;
- `waiters` is the set of threads on `cv_wchan`;
- `signalled` is the set of threads woken from `cv_wchan` that have not yet re-acquired the lock.

Creation, destruction, P, V, acquire, release, wait, signal and broadcast
each map to one abstract step. A pass of a loop that sleeps again, and a KASSERT panic, are
stuttering steps.

**`NoLostWakeup`.** This is the invariant that makes the sleeping correct:
- while threads sleep on `sem_wchan`, every unit in `sem_count` is owed to a woken thread that has not yet re-tested it;
- while threads sleep on `lk_wchan` and the lock is free, some woken thread is about to re-test `lk_owner`.

Its mutant is a `lock_release` that does not call `wchan_wakeone`.

**`SleepersProgress`** is checked under `FairSpec`. While the lock is free and
threads sleep on `lk_wchan`, some thread eventually holds the lock. While
`sem_count` is positive and threads sleep on `sem_wchan`, eventually the count
is taken or no thread sleeps. Nothing but `V` and `lock_release` wakes a
sleeper, and callers need not call again, so a missed `wchan_wakeone` leaves
the resource free for ever. Its mutant is a `V` that does not wake anyone.

`ProcLifecycle` and `FileTable` treat `lock_acquire` + `cv_wait` and a
locked critical section as atomic steps. `SynchRefines` is the check that the
lock and cv really behave that way.

### `MCProc.tla`

Constant values for the configurations:

- `PROC_MAX` ∈ {2, 3, 4}.
- `ExitCodes = {257}`. 257 is 0x101, which `_MKWAIT_EXIT` masks to 1, so a missing or wrong status is visible.
- `WNOHANG = 1`.
- **`WaitArgs`.** With four pids, `proc_safety` overrides it with the blocking `waitpid(pid, &status, 0)` alone (`MC_WaitArgs_blocking`). The other argument combinations return before they touch any state, and the three-pid runs take every one of them.
- `MaxTails = 1`.

### `MCFile.tla`

Constant values for the FileTable configurations:

- **`OPEN_MAX = 5`.** fds 0-2 are the console, fd 3 is an ordinary slot, and fd 4 is `OPEN_MAX-1`.
- **`SYSTEM_OPEN_MAX` ∈ {1, 2}.**
- **`MaxOpens = 2`.** Two opens are enough to claim one entry twice, or to reach EMFILE after a first open.
- **`CountBits = 4`.** A decrement from 0 wraps to the maximum (15), which no legal count reaches.
- **`OpenModes = {O_WRONLY, O_RDWR}`.** STDIN supplies the O_RDONLY case.
- **User descriptors.** `{0, 3, 4}` for one process, `{0, 3}` for two.
- **`ChdirPaths`.** A directory whose path fits `kbuffer`, one that does not, a file and a missing name. Only `files_sequential` enables chdir, because cwd is per process and meets nothing shared.

### `MCSynch.tla`

- **Three threads.** One holds the lock or a unit, one sleeps, and a third barges in while the woken one has not yet run.
- **`MaxCount = 2`** and **initial counts `{0, 1}`**.
- **No symmetry.** The threads are interchangeable, but the run checks liveness, for which TLC's symmetry reduction is unsound.

## Runs

| run (cfg) | expect | checks |
|---|---|---|
| `proc_safety` (ProcSafety.cfg) | pass | `TypeOK`, `FamilyConsistent`, `WaitTargetStable`, `DestroyOnlyExited`, `ReapAfterExit`, `ProcRefines` with 4 pids, no allocation failures, blocking waits |
| `proc_failures` (ProcFailures.cfg) | pass | `FamilyConsistent`, `WaitTargetStable`, `DestroyOnlyExited`, `ReapAfterExit` and `ReapsOnlyLive`, with 3 pids, every allocation failure and every waitpid argument |
| `wait_lost_wakeup` (WaitLostWakeup.cfg) | violation | `WaitReturns` (liveness, under `FairSpec`) |
| `fork_slot_race` (ForkSlotRace.cfg) | violation | `SlotHoldsOwnPid` |
| `fork_enproc` (ForkEnproc.cfg) | violation | `ForkFailsOnlyWhenFull` |
| `exit_use_after_free` (ExitUseAfterFree.cfg) | violation | `NoUseAfterFree` |
| `files_sequential` (FileSequential.cfg) | pass | `TypeOK`, `ConsoleRefsExact`: one process, I/O errors and allocation failures |
| `files_concurrent` (FileConcurrent.cfg) | pass | `SysEntryHeld`: two processes and a one-entry system table, no I/O or allocation failures |
| `files_emfile` (FileEmfile.cfg) | violation | `EmfileOnlyWhenFull` |
| `files_io_atomic` (FileIOAtomic.cfg) | violation | `IOAtomic` |
| `files_dup2_fault` (FileDup2Fault.cfg) | violation | `Dup2NoFault` |
| `synch_refinement` (SynchRefinement.cfg) | pass | `TypeOK`, `NoLostWakeup`, `SynchRefines`, `SleepersProgress` (under `FairSpec`): three threads with allocation failures and destroy |

What the properties say:

- **`FamilyConsistent`.** `parent_pid` and `children_list` describe the same tree of live structs, and every live struct keeps a non-NULL slot. `proc_search` and `proc_deinit` rely on this. Its mutant, a `destroy_child_list` that forgets to reset the children's `parent_pid`, needs three generations and a reap to be caught.
- **`DestroyOnlyExited`** is the `KASSERT(p_numthreads == 0)` of `proc_destroy`. It holds because `_exit` calls `proc_remthread` before it signals. Moving the remthread after the signal (its mutant) breaks it.
- **`ReapAfterExit`.** A reaped child has run `_exit`, and the status returned is the `_MKWAIT_EXIT` of its code.
- **`WaitTargetStable`.** waitpid runs `is_child` and `proc_search` without holding `p_locklock`. It then keeps that struct through `cv_wait` and reads `p_status` from it afterwards. From the check until the reap, the struct stays alive, stays in the caller's `children_list`, and names the caller as parent. This holds across every fork, exit and wait of the other processes, including the fork slot race and the failure paths. Nothing but the parent can destroy a child. Its mutant drops the `is_child` test, so a parent can sleep on another process's child, which that child's own parent then reaps.
- **`ReapsOnlyLive`** (`proc_failures`). A waitpid reaps, and so `proc_destroy`s, only a struct that is still allocated. When `cv_create` or `lock_create` fails in `proc_init` (proc.c:293-297), `proc_create` kfrees a struct that its table slot still points to. The freed struct's `p_pid` still matches its slot, so `proc_search` would return it. Only the `is_child` test, made before `proc_search`, stops a `waitpid` on that pid from freeing it a second time. Its mutant drops `is_child`; a failed fork followed by one waitpid then breaks the property.
- **`ProcRefines`.** fork, waitpid and _exit implement `ProcSpec`:
  - a new process appears only on a free pid, forked by a running parent, and names that parent;
  - only a running process exits, and it records `_MKWAIT_EXIT` of its code;
  - only a running parent reaps, only its own zombie child, and the reap orphans that child's children.

  This holds across the slot race and the use of freed structs. Its mutant, a `thread_fork` that never attaches the thread to the child (`p_numthreads` stays 0), makes a running child look like a zombie.
- **`ConsoleRefsExact`.** For the console openfiles, `count_refs` equals the number of descriptors that refer to them, and `vn` is cleared exactly when the last descriptor goes. This is the reference counting of close and dup2.
  - It is stated over the openfiles whose count the code initialises. The system entries are not: `open`'s bugs break their counts, and the violation runs report that.
- **`SysEntryHeld`** (`files_concurrent`). A `systemFileTable` entry that open has claimed (`vn` set) is always named by some descriptor. Two processes race opens, closes and dup2s on the one shared entry, and two opens can claim it at once. Even so, `count_refs` never lets the entry outlive its descriptors; if it did, the entry would stay claimed for ever and every open would fail with ENFILE. Its mutant, a close that forgets to decrement `count_refs`, breaks it in two steps.
  - A descriptor of an exited process still names its entry, so the `_exit` leak is not what this property is about; that is a hazard of its own.
  - It is checked without I/O and allocation failures. With them, the VOP_STAT and `lock_create` error paths of open leave the entry's `vn` set with no descriptor (syscall_FILE.c:258-262 and 293-298); that is the hazard at line 260.

The passing runs hold. The project reads this as follows:

- The fork slot race corrupts `processTable.proc` (`fork_slot_race`). But `proc_search` compares `p_pid` and `proc_deinit` panics on a failed lookup, so the family links themselves never go wrong.

What the violations show (the findings in `PROJECT.json`):

- **A lost wakeup in waitpid.** The `p_numthreads` test is made outside `p_locklock`.
- **Concurrent forks overwrite each other's slot.** `find_valid_pid` is unlocked, and `proc_add` writes to the index it returned.
- **fork can fail with ENPROC while a slot is free.** The scan never tests slot `last_pid`.
- **Use after free on the immediate-reap path.** waitpid destroys the child while the child's thread still has to `cv_signal` on it.
- **open reports EMFILE while a descriptor is free** (`files_emfile`). The test is `fd == OPEN_MAX - 1`: taking the last free slot fills it and still fails, and leaves an entry with no count, mode or lock.
- **Two writes to the same openfile at once** (`files_io_atomic`). Two opens claim the same free system entry. The second `lock_create` replaces `of->lock` while the first process holds the old lock inside `VOP_WRITE`.
- **dup2 onto an open descriptor always faults** (`files_dup2_fault`). It sets `of = NULL` and then calls `lock_release(of->lock)`. A shell redirecting output with `dup2(fd, 1)` meets this every time.

The model reaches more than the runs report. These appear as hazards in `PROJECT.json`, with the passing run whose disjunct reaches them:

- a slot left pointing at a freed struct after a `proc_init` failure (`ReapsOnlyLive` shows no waitpid reaches it, but the slot is never reused);
- every close of a last reference leaves `of->lock` allocated, and a closed console openfile is never freed;
- read/write error paths returning with the lock held;
- the `lock_release` KASSERT after a concurrent open replaced `of->lock`;
- the unsigned `count_refs` wrapping after the EMFILE path.

### Bounds

- **Four pids.** This is the smallest table in which two processes can fork at once and still both find a free slot. With three pids, the second fork's `proc_init` finds the table full. The run has 1.40M distinct states.
- **Three pids with failures.** This covers every failure path and a three-generation family.
- **Two pids for the violation runs.** This gives the shortest counterexamples.
- **Files.** One process with two system entries explores every sequence of open, close, read, write, dup2, chdir and _exit on STDIN and fds 3 and 4 (93k states). Two processes share one system entry, so every pair of concurrent opens races on it, and a process that exits holding the entry leaves the other with ENFILE (931k states). Larger descriptor sets multiply the two processes' independent states without adding an interaction.
- **Synch.** Three threads are enough for a barging thread to take the unit or the lock from a woken one, which is what `NoLostWakeup` is about. This gives 36,677 distinct states. No symmetry is declared, because the run checks liveness.
- **`MaxTails = 1`.** This bounds the number of freed-struct exit paths pending at once. Without the bound, a tail per reused pid would accumulate.

Between them, the two passing runs of each module fire every action and every disjunct.

### Fairness

`FairSpec` assumes weak fairness of the kernel's own continuations:

- `ForkCreate`, `ForkAdd`;
- `WaitBlock`, `WaitWoken`;
- `ExitSignal`, `ExitTail`.

It makes no fairness assumption about what a user program does next (fork,
waitpid, _exit). The OS161 scheduler runs every runnable thread, and a thread
asleep on a wait channel is not runnable. `WaitReturns` only asks that a
sleeper whose child has already exited be woken. Even under this fairness it
fails, because the wakeup was lost.

`CHECK_DEADLOCK FALSE` is justified because:

- the kernel halts on panic;
- every process may exit, and pid 1's struct has no reaper;
- hangs are what `WaitReturns` checks.

`Synch.FairSpec` assumes weak fairness only of a woken thread's next pass:
`PLoop`, `AcqLoop` and `CvReacquire`. `wchan_wakeone` makes the thread
runnable, and the round-robin scheduler, preempted by the timer, runs every
runnable thread. Nothing is assumed about what an idle thread calls.

Under this fairness a sleeper can still starve, because P and `lock_acquire`
let newcomers barge in (synch.c:104). So `SleepersProgress` asks only that the
resource reaches *some* sleeper. Starvation freedom is listed as a hazard and
left unchecked.

The Synch run sets `CHECK_DEADLOCK FALSE` for two reasons:
- every thread may sleep on the cv or the semaphore with no one left to wake it;
- a KASSERT panic stops every thread.

## Not modelled (yet), and the plan

1. **Composition.** fork's `console_init` gives the child fresh fds rather than sharing the parent's. `FileTable`'s `sys_exit` already shows that `_exit` closes none: the leaked entries fill the system table until every open fails with ENFILE. A module that composes `ProcLifecycle` with `FileTable` would tie those descriptors to the pids that fork hands out.
2. **Starvation freedom of the primitives.** Ruling out starvation under barging would need a fairness assumption that the OS161 scheduler does not give. It is listed as a hazard.
3. **Findings left without a run.** Several bugs the model reaches have no violation run of their own. Each is a hazard in `PROJECT.json`, with the disjunct that reaches it:
   - read and write return on an I/O error still holding `of->lock`;
   - a `proc_init` failure leaks a slot, which points at a freed struct until reboot;
   - `count_refs` wraps below zero;
   - the older execv's argument buffers are two bytes short.
   - `_exit` leaves every descriptor open, so the system table fills up.

   The violation runs report the findings about shared state; these single-path bugs are left as hazards for now.

Not modelled at all:

- VFS, copyin/copyout, address spaces and the ELF loader. These are outside `src/` or pure I/O; their failures appear as error disjuncts. `loadexec`'s outcomes come from `spec.md`.
- getcwd, which only reads `cwd`, and remove, which is a stub.
- The older revisions concatenated into the source files, apart from the inline `sys_execv_SHELL`. There are two of them:
  - The oldest kernel is `syscall_PROC.c` lines 1-133 together with the `proc.c` kept in `synch.c` lines 408-950. It has no fork, so only the one process that runprogram starts ever makes a system call. Nothing interleaves with it.
  - The intermediate syscalls are `syscall_PROC.c` lines 134-359 and `syscall_FILE.c` lines 514-786. They keep no child lists. Their waitpid has no `is_child` test and returns at once unless given WNOHANG. So any process may reap any other, and the family properties of the latest revision (`WaitTargetStable`, `ProcRefines`) cannot hold of them by construction.

  Checking either revision would be a separate set of violation runs, on a kernel that the latest revision has replaced.
- The uninitialised `kproc->p_pid` read in `proc_deinit`. The model takes the outcome in which the value is 0 or out of range, so it never equals a user pid. If the value did equal a live parent's pid, `remove_child_from_list` would walk `kproc`'s uninitialised `children_list`. Exploring that outcome needs a constant for the garbage value and a run of its own.
