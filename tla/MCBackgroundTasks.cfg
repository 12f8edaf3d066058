SPECIFICATION FairSpec
CONSTANTS
  Call = {k1, k2}
  InitialTasks <- MCInitialTasks
  MaxTasks = 4
INVARIANTS
  RunsAPrefix
PROPERTIES
  LateTasksRun
\* The calls are over.
CHECK_DEADLOCK FALSE
