SPECIFICATION Spec
CONSTANTS
    NPROC <- MC_NPROC_1
    OPEN_MAX <- MC_OPEN_MAX
    SYSTEM_OPEN_MAX <- MC_SYSTEM_OPEN_MAX_2
    MaxOpens <- MC_MaxOpens
    CountBits <- MC_CountBits
    VopMayFail = TRUE
    AllocMayFail = TRUE
    OpenModes <- MC_OpenModes
    ChdirPaths <- MC_ChdirPaths
    UserFds <- MC_UserFds
INVARIANTS TypeOK ConsoleRefsExact
CHECK_DEADLOCK FALSE
