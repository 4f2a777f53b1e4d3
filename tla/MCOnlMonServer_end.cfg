\* The two places where the main thread does not lock.
SPECIFICATION Spec
CONSTANTS
  NClients = 1
  SpillRuns <- MCSpillRuns
  Requests <- MCRequests
  MaxNumSelSpills = 1
  MaxBacklog = 1
  NULL = NULL
  LIVE = LIVE
  TORN = TORN
INVARIANTS
  HistogramsUnderMutex
