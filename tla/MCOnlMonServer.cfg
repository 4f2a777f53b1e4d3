\* Two clients, of which the second gives up spill-by-spill histograms one spill
\* before the first, since they share the list of spills.
SPECIFICATION FairSpec
CONSTANTS
  NClients = 2
  SpillRuns <- MCSpillRuns
  Requests <- MCRequests
  MaxNumSelSpills = 1
  MaxBacklog = 2
  NULL = NULL
  LIVE = LIVE
  TORN = TORN
INVARIANTS
  TypeOK
  SnapshotExact
  DumpComplete
  WholeRunOnlyIfUnselectable
  AbortOnlyWhenCutOff
PROPERTIES
  ConversationsEnd
  DecoderEnds
