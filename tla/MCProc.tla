------------------------------- MODULE MCProc -------------------------------
(* Model-checking instances of ProcLifecycle.                              *)
EXTENDS ProcLifecycle

\* Four pids: two processes can fork at once and both pick the same free
\* slot, and a three-generation family fits with a slot to spare.
MC_PROC_MAX_4 == 4
\* Three pids with allocation failures: every failure path of fork, and a
\* three-generation family.
MC_PROC_MAX_3 == 3
\* Two pids: the smallest table in which a child can exit and be reaped
\* while its parent goes on forking.
MC_PROC_MAX_2 == 2
\* 257 = 0x101: _MKWAIT_EXIT keeps only the low byte.
MC_ExitCodes == {257}
MC_WNOHANG == 1
\* With four pids only the blocking waitpid(pid, &status, 0): the other
\* argument combinations return before touching any state, and the
\* three-pid runs take every one of them.
MC_WaitArgs_blocking == {[st |-> "valid", opt |-> 0]}
MC_MaxTails == 1

=============================================================================
