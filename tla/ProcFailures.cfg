\* Every failure path of fork (kmalloc, cv/lock_create, console_init,
\* as_copy, thread_fork) interleaved with exits and waits.
CONSTANTS
  PROC_MAX <- MC_PROC_MAX_3
  ExitCodes <- MC_ExitCodes
  WNOHANG <- MC_WNOHANG
  MaxTails <- MC_MaxTails
  AllocMayFail = TRUE
  Execs = TRUE
SPECIFICATION Spec
INVARIANTS
  FamilyConsistent
  WaitTargetStable
PROPERTIES
  DestroyOnlyExited
  ReapAfterExit
  ReapsOnlyLive
CHECK_DEADLOCK FALSE
