CONSTANTS
  PROC_MAX <- MC_PROC_MAX_2
  ExitCodes <- MC_ExitCodes
  WNOHANG <- MC_WNOHANG
  MaxTails <- MC_MaxTails
  AllocMayFail = FALSE
  Execs = FALSE
SPECIFICATION Spec
INVARIANTS
  NoUseAfterFree
CHECK_DEADLOCK FALSE
