\* A run() after a first one that was stopped, failed or interrupted.
SPECIFICATION FairSpec
CONSTANTS
  Transport <- MCTransport
  Kind <- MCKind
  MaxRuns = 2
INVARIANTS
  RunningServesThisRun
  NoOrphanListener
  RunningHasNoOrphan
  StopReleasesAll
  StartedServerCanStop
PROPERTIES
  StartupSettles
