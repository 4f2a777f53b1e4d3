SPECIFICATION FairSpec
CONSTANTS
  Inputs <- MCInputs
  Files <- MCFiles
  FileEvents <- MCFileEvents
  FileRun <- MCFileRun
  FileLists <- MCFileLists
  NoRunTTrees <- MCNoRunTTrees
  Repeats <- MCRepeats
  NONE = NONE
  Modules <- MCModules
  EventSelectors <- MCEventSelectors
  Requests <- MCRequests
  ForcedRuns <- MCForcedRuns
  MaxCalls = 2
  MaxUnregister = 1
INVARIANTS
  TypeOK
  EveryEventOnce
  EventsWithinRuns
  WrittenIffSelected
  GoodEventsCounted
PROPERTIES
  RunReturns
