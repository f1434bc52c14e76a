\* Races between concurrent forks, exits and waits, with allocations that
\* succeed.
CONSTANTS
  PROC_MAX <- MC_PROC_MAX_4
  ExitCodes <- MC_ExitCodes
  WNOHANG <- MC_WNOHANG
  MaxTails <- MC_MaxTails
  WaitArgs <- MC_WaitArgs_blocking
  AllocMayFail = FALSE
  Execs = FALSE
SPECIFICATION Spec
INVARIANTS
  TypeOK
  FamilyConsistent
  WaitTargetStable
PROPERTIES
  DestroyOnlyExited
  ReapAfterExit
  ProcRefines
CHECK_DEADLOCK FALSE
