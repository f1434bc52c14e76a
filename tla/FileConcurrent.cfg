SPECIFICATION Spec
CONSTANTS
    NPROC <- MC_NPROC_2
    OPEN_MAX <- MC_OPEN_MAX
    SYSTEM_OPEN_MAX <- MC_SYSTEM_OPEN_MAX_1
    MaxOpens <- MC_MaxOpens
    CountBits <- MC_CountBits
    VopMayFail = FALSE
    AllocMayFail = FALSE
    OpenModes <- MC_OpenModes
    ChdirPaths = {}
    UserFds <- MC_UserFds_2
INVARIANTS SysEntryHeld
CHECK_DEADLOCK FALSE
