----------------------------- MODULE FileTable -----------------------------
(***************************************************************************)
(* The file system calls of the OS161 SHELL kernel (syscall_FILE.c):      *)
(* open, close, read, write and dup2 over the per-process fileTable and    *)
(* the static systemFileTable of struct openfile.                         *)
(*                                                                         *)
(* An openfile is an entry id.  System entries are 1..SYSTEM_OPEN_MAX      *)
(* (systemFileTable[i-1]); console entries are the openfiles console_init  *)
(* kmallocs for fds 0-2 of each process.  A vnode is named by the process *)
(* whose open returned it (ConVn for the console), so a descriptor that   *)
(* reaches another process's vnode is visible.  Lock objects are ids:     *)
(* console locks reuse their entry's id, the k-th open creates lock       *)
(* LockBase + k.  Processes are fixed; each runs one user thread.         *)
(***************************************************************************)
EXTENDS Integers, FiniteSets

CONSTANTS
    NPROC,            \* number of user processes
    OPEN_MAX,         \* size of each process's fileTable
    SYSTEM_OPEN_MAX,  \* size of systemFileTable
    MaxOpens,         \* bound on the open calls that reach the table scan
    CountBits,        \* width of the unsigned count_refs
    VopMayFail,       \* VOP_READ/VOP_WRITE/VOP_STAT may return an error
    AllocMayFail,     \* kmalloc and lock_create may fail
    OpenModes,        \* the access modes user programs pass to open
    UserFds,          \* the descriptors user programs pass to the calls
    ChdirPaths        \* the paths user programs pass to chdir

ASSUME NPROC \in Nat \ {0}
ASSUME OPEN_MAX \in Nat /\ OPEN_MAX >= 5
ASSUME SYSTEM_OPEN_MAX \in Nat \ {0}
ASSUME MaxOpens \in Nat /\ CountBits \in Nat \ {0}
ASSUME VopMayFail \in BOOLEAN /\ AllocMayFail \in BOOLEAN
ASSUME OpenModes \subseteq {0, 1, 2}
ASSUME UserFds \subseteq 0..(OPEN_MAX - 1)
\* A path is abstracted to its length and to what it names.
ASSUME ChdirPaths \subseteq [len : Nat, kind : {"dir", "file", "none"}]

Procs == 1..NPROC
Fds == 0..(OPEN_MAX - 1)
NULL == 0
O_RDONLY == 0
O_WRONLY == 1
O_RDWR == 2
AccModes == {O_RDONLY, O_WRONLY, O_RDWR}
CountMod == 2^CountBits

SysIdx == 1..SYSTEM_OPEN_MAX
ConId(p, fd) == SYSTEM_OPEN_MAX + 3 * (p - 1) + fd + 1
ConIdx == {ConId(p, fd) : p \in Procs, fd \in 0..2}
Entries == SysIdx \cup ConIdx
ConVn == -1
Vnodes == Procs \cup {ConVn}
NoLock == 0
NoOwner == 0
LockBase == SYSTEM_OPEN_MAX + 3 * NPROC
Locks == ConIdx \cup (LockBase + 1)..(LockBase + MaxOpens)

PCs == {"user", "open_claim", "io_acquire", "io_vop", "close_acquire",
        "close_vfs", "dup_close", "dup_inc", "exited"}
PanicReasons == {"none", "null_lock", "lock_reacquire", "release_not_holder",
                 "null_vnode", "null_deref", "bad_kfree", "out_of_bounds"}

VARIABLES
    ft,       \* ft[p][fd]: curproc->fileTable[fd], an entry id or NULL
    vn,       \* vn[e]: the openfile's vn
    cnt,      \* cnt[e]: count_refs
    mode,     \* mode[e]: mode_open
    lk,       \* lk[e]: the openfile's lock pointer
    owner,    \* owner[l]: lk_owner of lock object l
    nopen,    \* open calls that reached the scan (bounded by MaxOpens)
    pc,       \* where the thread of each process is
    loc,      \* the syscall's locals: of, the lock read, vn read, fds
    sysret,   \* history: the syscall return of the last step
    panic,
    cwd       \* cwd[p]: p_cwd, the directory a path names, or BootDir

vars == <<ft, vn, cnt, mode, lk, owner, nopen, pc, loc, sysret, panic, cwd>>

LocNone == [e |-> NULL, l |-> NoLock, v |-> NULL, fd |-> 0, op |-> "none",
            m |-> O_RDONLY, app |-> FALSE]
NoRet == [by |-> 0, err |-> "none"]

Running == panic = "none"
\* Mutants: a signed count, a missing decrement, a double increment.
Dec_signed(c) == c - 1
Dec_noop(c) == c
Inc_twice(c) == (c + 2) % CountMod
\* --of->count_refs and of->count_refs++ on an unsigned int.
Dec(c) == (c + CountMod - 1) % CountMod
Inc(c) == (c + 1) % CountMod

\* The lowest index of systemFileTable whose vn is NULL (lines 225-231).
FreeSys == {i \in SysIdx : vn[i] = NULL}
FirstOf(S) == CHOOSE i \in S : \A j \in S : i <= j

\* The fd loop of sys_open: the first NULL slot from 3, else OPEN_MAX.
FreeFd(p) == {fd \in 3..(OPEN_MAX - 1) : ft[p][fd] = NULL}
FirstFreeFd(p) == IF FreeFd(p) = {} THEN OPEN_MAX ELSE FirstOf(FreeFd(p))

\* Return to user mode from a syscall of p: the thread leaves the kernel.
\* sysret records what an open call returns; other calls leave NoRet.
Return(p, call, err) ==
    /\ pc' = [pc EXCEPT ![p] = "user"]
    /\ loc' = [loc EXCEPT ![p] = LocNone]
    /\ sysret' = IF call = "open" THEN [by |-> p, err |-> err] ELSE NoRet

\* An error return before the syscall touched any shared state.
EarlyError(p, call, err) ==
    /\ sysret' = IF call = "open" THEN [by |-> p, err |-> err] ELSE NoRet
    /\ UNCHANGED <<ft, vn, cnt, mode, lk, owner, nopen, pc, loc, panic, cwd>>

Halt(reason) ==
    /\ panic' = reason
    /\ sysret' = NoRet
    /\ UNCHANGED <<ft, vn, cnt, mode, lk, owner, nopen, pc, loc, cwd>>

(***************************************************************************)
(* lock_acquire (synch.c 193-227): KASSERT(lock != NULL) and KASSERT that  *)
(* the caller does not hold it; then sleep until lk_owner is NULL.         *)
(***************************************************************************)
LockFault(p, l) ==
    \/ l = NoLock /\ Halt("null_lock")
    \/ l # NoLock /\ owner[l] = p /\ Halt("lock_reacquire")

LockFree(l) == l # NoLock /\ owner[l] = NoOwner

\* lock_release(of->lock) (synch.c 229-254) given the owners os at the
\* call: of->lock is read afresh, and the caller must hold it.
Releases(p, e, os) == lk[e] # NoLock /\ os[lk[e]] = p
Released(e, os) == [os EXCEPT ![lk[e]] = NoOwner]
ReleaseFault(e) ==
    IF lk[e] = NoLock THEN "null_lock" ELSE "release_not_holder"

(***************************************************************************)
(* sys_write_SHELL (lines 55-103) and sys_read_SHELL (119-167).           *)
(* IOStart: the fd and mode checks, kmalloc and (write) copyin, then       *)
(* of = fileTable[fd] and vn = of->vn, up to lock_acquire(of->lock).      *)
(***************************************************************************)
Forbidden(op) == IF op = "write" THEN O_RDONLY ELSE O_WRONLY
\* The EBADF checks of lines 58-64 and 122-128 (fds are in range here).
BadFd(e, op) == IF e = NULL THEN TRUE ELSE mode[e] = Forbidden(op)

IOStart(p, fd, op) ==
    LET e == ft[p][fd] IN
    /\ Running /\ pc[p] = "user"
    /\ \/ BadFd(e, op) /\ EarlyError(p, op, "EBADF")
       \/ /\ ~BadFd(e, op)
          /\ \/ AllocMayFail /\ EarlyError(p, op, "ENOMEM")
             \/ op = "write" /\ EarlyError(p, op, "EFAULT")
             \/ /\ pc' = [pc EXCEPT ![p] = "io_acquire"]
                /\ loc' = [loc EXCEPT ![p] = [LocNone EXCEPT !.e = e,
                                !.l = lk[e], !.v = vn[e], !.op = op]]
                /\ sysret' = NoRet
                /\ UNCHANGED <<ft, vn, cnt, mode, lk, owner, nopen, panic, cwd>>

\* lock_acquire(of->lock) of read or write.
IOAcquire(p) ==
    LET l == loc[p].l IN
    /\ Running /\ pc[p] = "io_acquire"
    /\ \/ LockFault(p, l)
       \/ /\ LockFree(l)
          /\ owner' = [owner EXCEPT ![l] = p]
          /\ pc' = [pc EXCEPT ![p] = "io_vop"]
          /\ sysret' = NoRet
          /\ UNCHANGED <<ft, vn, cnt, mode, lk, nopen, loc, panic, cwd>>

(***************************************************************************)
(* VOP_WRITE / VOP_READ on the vn read before the lock, then the offset   *)
(* update and lock_release(of->lock).  A VOP error, and read's copyout     *)
(* failure, return at once: the lock stays held (lines 87-90, 144-147,    *)
(* 156-159).  The offset is abstracted away.                              *)
(***************************************************************************)
IOVop(p) ==
    LET e == loc[p].e
        op == loc[p].op
    IN
    /\ Running /\ pc[p] = "io_vop"
    /\ \/ loc[p].v = NULL /\ Halt("null_vnode")
       \/ /\ loc[p].v # NULL
          /\ \/ VopMayFail /\ Return(p, op, "EIO")
             \/ op = "read" /\ Return(p, op, "EFAULT")
          /\ UNCHANGED <<ft, vn, cnt, mode, lk, owner, nopen, panic, cwd>>
       \/ /\ loc[p].v # NULL
          /\ \/ Releases(p, e, owner) /\ owner' = Released(e, owner)
                /\ Return(p, op, "0")
                /\ UNCHANGED <<ft, vn, cnt, mode, lk, nopen, panic, cwd>>
             \/ ~Releases(p, e, owner) /\ Halt(ReleaseFault(e))

(***************************************************************************)
(* sys_open_SHELL (lines 197-305).  OpenStart: kmalloc, copyinstr and     *)
(* vfs_open (any of which may fail, e.g. a missing file), then the scan   *)
(* of systemFileTable for vn == NULL, made without any lock.  No free     *)
(* entry: ENFILE, leaking the vnode.  vfs_open rejects an invalid access  *)
(* mode, so the EINVAL branch at 285-289 is never reached.                *)
(***************************************************************************)
OpenStart(p, m, app) ==
    /\ Running /\ pc[p] = "user"
    /\ \/ EarlyError(p, "open", "ENOENT")
       \/ FreeSys = {} /\ EarlyError(p, "open", "ENFILE")
       \/ /\ FreeSys # {} /\ nopen < MaxOpens
          /\ nopen' = nopen + 1
          /\ pc' = [pc EXCEPT ![p] = "open_claim"]
          /\ loc' = [loc EXCEPT ![p] = [LocNone EXCEPT !.e = FirstOf(FreeSys),
                          !.l = LockBase + nopen + 1, !.m = m, !.app = app]]
          /\ sysret' = NoRet
          /\ UNCHANGED <<ft, vn, cnt, mode, lk, owner, panic, cwd>>

(***************************************************************************)
(* OpenClaim: of->vn = v on the entry the scan found, then the fd loop.   *)
(* A slot found at OPEN_MAX-1 is filled and EMFILE returned (245-247); no *)
(* slot leaves fd = OPEN_MAX and the code goes on through                 *)
(* fileTable[OPEN_MAX], past the end of struct proc: the kernel faults or *)
(* scribbles on the heap and returns fd OPEN_MAX.  Otherwise: VOP_STAT for*)
(* O_APPEND, count_refs = 1, mode_open, lock_create.  Its error paths     *)
(* kfree the static entry: KASSERT in kfree, or a no-op when the entry is *)
(* page aligned; either way the entry keeps its vn.                       *)
(***************************************************************************)
OpenClaim(p) ==
    LET i == loc[p].e
        fd == FirstFreeFd(p)
        vn1 == [vn EXCEPT ![i] = p]
        cnt1 == [cnt EXCEPT ![i] = 1]
        mode1 == [mode EXCEPT ![i] = loc[p].m]
    IN
    /\ Running /\ pc[p] = "open_claim"
    /\ \/ /\ fd = OPEN_MAX - 1
          /\ vn' = vn1 /\ ft' = [ft EXCEPT ![p][fd] = i]
          /\ Return(p, "open", "EMFILE")
          /\ UNCHANGED <<cnt, mode, lk, owner, nopen, panic, cwd>>
       \/ /\ fd = OPEN_MAX
          /\ \/ Halt("out_of_bounds")
             \/ /\ vn' = vn1 /\ Return(p, "open", "0")
                /\ UNCHANGED <<ft, cnt, mode, lk, owner, nopen, panic, cwd>>
       \/ /\ fd < OPEN_MAX - 1
          /\ \/ /\ loc[p].app /\ VopMayFail
                /\ \/ Halt("bad_kfree")
                   \/ /\ vn' = vn1 /\ Return(p, "open", "EIO")
                      /\ UNCHANGED <<ft, cnt, mode, lk, owner, nopen, panic, cwd>>
             \/ /\ AllocMayFail
                /\ \/ Halt("bad_kfree")
                   \/ /\ vn' = vn1 /\ cnt' = cnt1 /\ mode' = mode1
                      /\ lk' = [lk EXCEPT ![i] = NoLock]   \* of->lock = NULL
                      /\ Return(p, "open", "ENOMEM")
                      /\ UNCHANGED <<ft, owner, nopen, panic, cwd>>
             \/ /\ vn' = vn1 /\ cnt' = cnt1 /\ mode' = mode1
                /\ lk' = [lk EXCEPT ![i] = loc[p].l]
                /\ ft' = [ft EXCEPT ![p][fd] = i]
                /\ Return(p, "open", "0")
                /\ UNCHANGED <<owner, nopen, panic, cwd>>

(***************************************************************************)
(* sys_close_SHELL (lines 315-343).  CloseStart: the fd checks and        *)
(* of = fileTable[fd], up to lock_acquire(of->lock).                      *)
(***************************************************************************)
CloseStart(p, fd) ==
    /\ Running /\ pc[p] = "user"
    /\ \/ ft[p][fd] = NULL /\ EarlyError(p, "close", "EBADF")
       \/ /\ ft[p][fd] # NULL
          /\ pc' = [pc EXCEPT ![p] = "close_acquire"]
          /\ loc' = [loc EXCEPT ![p] = [LocNone EXCEPT !.e = ft[p][fd],
                                !.l = lk[ft[p][fd]], !.fd = fd]]
          /\ sysret' = NoRet
          /\ UNCHANGED <<ft, vn, cnt, mode, lk, owner, nopen, panic, cwd>>

\* The lock acquired: clear the slot, --count_refs; still referenced:
\* release and return; otherwise of->vn = NULL and go on to vfs_close.
CloseAcquire(p) ==
    LET e == loc[p].e
        l == loc[p].l
        c == Dec(cnt[e])
        os == [owner EXCEPT ![l] = p]
    IN
    /\ Running /\ pc[p] = "close_acquire"
    /\ \/ LockFault(p, l)
       \/ /\ LockFree(l) /\ c > 0 /\ ~Releases(p, e, os)
          /\ Halt(ReleaseFault(e))
       \/ /\ LockFree(l)
          /\ ft' = [ft EXCEPT ![p][loc[p].fd] = NULL]
          /\ cnt' = [cnt EXCEPT ![e] = c]
          /\ \/ /\ c > 0 /\ Releases(p, e, os)
                /\ owner' = Released(e, os)
                /\ Return(p, "close", "0")
                /\ UNCHANGED vn
             \/ /\ c = 0
                /\ owner' = os
                /\ vn' = [vn EXCEPT ![e] = NULL]
                /\ pc' = [pc EXCEPT ![p] = "close_vfs"]
                /\ loc' = [loc EXCEPT ![p].v = vn[e]]
                /\ sysret' = NoRet
          /\ UNCHANGED <<mode, lk, nopen, panic, cwd>>

\* vfs_close(vn), which may sleep, then lock_release(of->lock).
CloseVfs(p) ==
    LET e == loc[p].e IN
    /\ Running /\ pc[p] = "close_vfs"
    /\ \/ loc[p].v = NULL /\ Halt("null_vnode")
       \/ /\ loc[p].v # NULL /\ Releases(p, e, owner)
          /\ owner' = Released(e, owner)
          /\ Return(p, "close", "0")
          /\ UNCHANGED <<ft, vn, cnt, mode, lk, nopen, panic, cwd>>
       \/ loc[p].v # NULL /\ ~Releases(p, e, owner) /\ Halt(ReleaseFault(e))

(***************************************************************************)
(* sys_dup2_SHELL (lines 466-512).  Dup2Start: the argument checks; an    *)
(* open newfd goes to the close part, otherwise to the increment.         *)
(***************************************************************************)
Dup2Start(p, oldfd, newfd) ==
    LET target == IF ft[p][newfd] # NULL THEN ft[p][newfd] ELSE ft[p][oldfd]
    IN
    /\ Running /\ pc[p] = "user"
    /\ \/ ft[p][oldfd] = NULL /\ EarlyError(p, "dup2", "EBADF")
       \/ ft[p][oldfd] # NULL /\ oldfd = newfd /\ EarlyError(p, "dup2", "0")
       \/ /\ ft[p][oldfd] # NULL /\ oldfd # newfd
          /\ pc' = [pc EXCEPT ![p] = IF ft[p][newfd] # NULL THEN "dup_close"
                                                          ELSE "dup_inc"]
          /\ loc' = [loc EXCEPT ![p] = [LocNone EXCEPT !.e = target,
                                  !.l = lk[target], !.fd = newfd]]
          /\ sysret' = NoRet
          /\ UNCHANGED <<ft, vn, cnt, mode, lk, owner, nopen, panic, cwd>>

\* The close part (486-497): lock, clear newfd, --count_refs, vfs_close on
\* zero; then of = NULL and lock_release(of->lock) dereferences NULL.
Dup2Close(p) ==
    LET e == loc[p].e
        l == loc[p].l
        c == Dec(cnt[e])
    IN
    /\ Running /\ pc[p] = "dup_close"
    /\ \/ LockFault(p, l)
       \/ /\ LockFree(l)
          /\ owner' = [owner EXCEPT ![l] = p]
          /\ ft' = [ft EXCEPT ![p][loc[p].fd] = NULL]
          /\ cnt' = [cnt EXCEPT ![e] = c]
          /\ vn' = IF c = 0 THEN [vn EXCEPT ![e] = NULL] ELSE vn
          /\ panic' = IF c = 0 /\ vn[e] = NULL THEN "null_vnode"
                                             ELSE "null_deref"
          /\ sysret' = NoRet
          /\ UNCHANGED <<mode, lk, nopen, pc, loc, cwd>>

\* The increment (501-510): lock of = fileTable[oldfd], count_refs++,
\* lock_release(of->lock), fileTable[newfd] = of.
Dup2Inc(p) ==
    LET e == loc[p].e
        l == loc[p].l
        os == [owner EXCEPT ![l] = p]
    IN
    /\ Running /\ pc[p] = "dup_inc"
    /\ \/ LockFault(p, l)
       \/ LockFree(l) /\ ~Releases(p, e, os) /\ Halt(ReleaseFault(e))
       \/ /\ LockFree(l) /\ Releases(p, e, os)
          /\ owner' = Released(e, os)
          /\ cnt' = [cnt EXCEPT ![e] = Inc(@)]
          /\ ft' = [ft EXCEPT ![p][loc[p].fd] = e]
          /\ Return(p, "dup2", "0")
          /\ UNCHANGED <<vn, mode, lk, nopen, panic, cwd>>

(***************************************************************************)
(* sys_chdir_SHELL (lines 372-412): kmalloc, copyinstr, vfs_open,          *)
(* vfs_setcurdir and vfs_close, one step (only p_cwd changes).  copyinstr *)
(* is given sizeof(kbuffer), the size of a char pointer, as its limit, so  *)
(* a path fits only if it and its terminating NUL take at most KBufSize   *)
(* bytes.  vfs_setcurdir rejects a vnode that is not a directory.         *)
(***************************************************************************)
KBufSize == 4
BootDir == [len |-> 0, kind |-> "dir"]

Fits(path) == path.len + 1 <= KBufSize

sys_chdir(p, path) ==
    /\ Running /\ pc[p] = "user"
    /\ \/ AllocMayFail /\ UNCHANGED cwd                  \* kmalloc: ENOMEM
       \/ ~Fits(path) /\ UNCHANGED cwd           \* copyinstr: ENAMETOOLONG
       \/ Fits(path) /\ path.kind = "none" /\ UNCHANGED cwd  \* vfs_open
       \/ Fits(path) /\ path.kind = "file" /\ UNCHANGED cwd  \* vfs_setcurdir
       \/ Fits(path) /\ path.kind = "dir" /\ cwd' = [cwd EXCEPT ![p] = path]
    /\ sysret' = NoRet
    /\ UNCHANGED <<ft, vn, cnt, mode, lk, owner, nopen, pc, loc, panic>>

(***************************************************************************)
(* sys_exit_SHELL (part_002 146-165) and the proc_destroy that reaps the  *)
(* struct (proc.c 407-491) release p_status, the thread, p_cwd and the     *)
(* address space, and close no descriptor: every openfile fileTable       *)
(* points to keeps its count_refs, vn and lock, and nothing can close it  *)
(* any more.                                                               *)
(***************************************************************************)
sys_exit(p) ==
    /\ Running /\ pc[p] = "user"
    /\ pc' = [pc EXCEPT ![p] = "exited"]
    /\ sysret' = NoRet
    /\ UNCHANGED <<ft, vn, cnt, mode, lk, owner, nopen, loc, panic, cwd>>

(***************************************************************************)
(* Every process starts as proc_create_runprogram leaves it: fds 0-2 on   *)
(* console openfiles from console_init (STDIN O_RDONLY, STDOUT and STDERR *)
(* O_WRONLY, count_refs 1, a fresh lock), the rest of fileTable zeroed.   *)
(* systemFileTable is a zeroed static array.                              *)
(***************************************************************************)
ConMode(e) == IF (e - SYSTEM_OPEN_MAX - 1) % 3 = 0 THEN O_RDONLY ELSE O_WRONLY

Init ==
    /\ ft = [p \in Procs |-> [fd \in Fds |-> IF fd <= 2 THEN ConId(p, fd)
                                                         ELSE NULL]]
    /\ vn = [e \in Entries |-> IF e \in ConIdx THEN ConVn ELSE NULL]
    /\ cnt = [e \in Entries |-> IF e \in ConIdx THEN 1 ELSE 0]
    /\ mode = [e \in Entries |-> IF e \in ConIdx THEN ConMode(e) ELSE O_RDONLY]
    /\ lk = [e \in Entries |-> IF e \in ConIdx THEN e ELSE NoLock]
    /\ owner = [l \in Locks |-> NoOwner]
    /\ nopen = 0
    /\ pc = [p \in Procs |-> "user"]
    /\ loc = [p \in Procs |-> LocNone]
    /\ sysret = NoRet
    /\ panic = "none"
    /\ cwd = [p \in Procs |-> BootDir]

Next ==
    \E p \in Procs :
        \/ \E fd \in UserFds, op \in {"read", "write"} : IOStart(p, fd, op)
        \/ IOAcquire(p)
        \/ IOVop(p)
        \/ \E m \in OpenModes, app \in BOOLEAN : OpenStart(p, m, app)
        \/ OpenClaim(p)
        \/ \E fd \in UserFds : CloseStart(p, fd)
        \/ CloseAcquire(p)
        \/ CloseVfs(p)
        \/ \E oldfd, newfd \in UserFds : Dup2Start(p, oldfd, newfd)
        \/ Dup2Close(p)
        \/ Dup2Inc(p)
        \/ \E path \in ChdirPaths : sys_chdir(p, path)
        \/ sys_exit(p)

Spec == Init /\ [][Next]_vars

-----------------------------------------------------------------------------
TypeOK ==
    /\ ft \in [Procs -> [Fds -> Entries \cup {NULL}]]
    /\ vn \in [Entries -> Vnodes \cup {NULL}]
    /\ cnt \in [Entries -> 0..(CountMod - 1)]
    /\ mode \in [Entries -> AccModes]
    /\ lk \in [Entries -> Locks \cup {NoLock}]
    /\ owner \in [Locks -> Procs \cup {NoOwner}]
    /\ nopen \in 0..MaxOpens
    /\ pc \in [Procs -> PCs]
    /\ panic \in PanicReasons

\* The descriptors, over all processes, that refer to openfile e.
Refs(e) == Cardinality({pf \in Procs \X Fds : ft[pf[1]][pf[2]] = e})

(***************************************************************************)
(* close and dup2 keep count_refs of a console openfile (fds 0-2, set up   *)
(* by console_init with count 1) equal to the number of descriptors that  *)
(* refer to it, and clear its vn exactly when the last one goes.  This is *)
(* the reference counting of lines 326-339 and 487-507 over the openfiles *)
(* whose count the code initialises; the system entries are the subject   *)
(* of the open runs below.                                                *)
(***************************************************************************)
ConsoleRefsExact ==
    \A e \in ConIdx : /\ cnt[e] = Refs(e)
                      /\ (vn[e] = NULL) = (Refs(e) = 0)

(***************************************************************************)
(* A systemFileTable entry that open has claimed (vn # NULL) stays named  *)
(* by some descriptor until a close or dup2 drops the last one and clears *)
(* vn (lines 326-338): count_refs, kept across concurrent opens and       *)
(* closes of the same entry, must never let an entry outlive every        *)
(* descriptor, or it stays claimed for ever and open fails with ENFILE.   *)
(* A descriptor of an exited process still names its entry; that leak is *)
(* sys_exit's, not the count's.                                           *)
(***************************************************************************)
SysEntryHeld ==
    \A i \in SysIdx : vn[i] # NULL => \E p \in Procs, fd \in Fds : ft[p][fd] = i

(***************************************************************************)
(* open reports EMFILE ("the process's file table was full", line 182) only*)
(* when no descriptor from 3 to OPEN_MAX-1 was free (lines 238-247).       *)
(***************************************************************************)
EmfileOnlyWhenFull ==
    [][sysret'.err = "EMFILE" => FreeFd(sysret'.by) = {}]_vars

(***************************************************************************)
(* "Each write (or read) operation is atomic relative to other I/O to the *)
(* same file" (line 46): no two threads are in VOP_READ/VOP_WRITE on the  *)
(* same openfile at once.                                                  *)
(***************************************************************************)
IOAtomic ==
    \A p, q \in Procs : p # q /\ pc[p] = "io_vop" /\ pc[q] = "io_vop"
                            => loc[p].e # loc[q].e

(***************************************************************************)
(* dup2 onto an open descriptor closes it and clones oldfd (line 458)     *)
(* without a kernel fault (lines 486-497).                                 *)
(***************************************************************************)
Dup2NoFault == panic # "null_deref"

=============================================================================
