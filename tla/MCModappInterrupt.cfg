SPECIFICATION Spec
CONSTANTS
  Transport <- MCTransport
  Kind <- MCKind
  MaxRuns = 1
INVARIANT InterruptEndsServing
