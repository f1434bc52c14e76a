CONSTANTS
  PROC_MAX <- MC_PROC_MAX_4
  ExitCodes <- MC_ExitCodes
  WNOHANG <- MC_WNOHANG
  MaxTails <- MC_MaxTails
  AllocMayFail = FALSE
  Execs = FALSE
SPECIFICATION Spec
INVARIANTS
  SlotHoldsOwnPid
CHECK_DEADLOCK FALSE
