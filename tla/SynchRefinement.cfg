SPECIFICATION FairSpec
CONSTANTS
  t1 = t1
  t2 = t2
  t3 = t3
  NoOwner = NoOwner
  Threads <- MC_Threads
  MaxCount <- MC_MaxCount
  InitCounts <- MC_InitCounts
  AllocMayFail = TRUE
INVARIANTS
  TypeOK
  NoLostWakeup
PROPERTIES
  SynchRefines
  SleepersProgress
\* Threads may all sleep on the cv or the semaphore with no one left to
\* wake them, and a KASSERT panic stops every thread.
CHECK_DEADLOCK FALSE
