\* Five events in four blocks, online or not, two looks at the file per wait.
SPECIFICATION FairSpec
CONSTANTS
  NCodaEvents = 5
  EndBlock <- MCEndBlock
  N_WAIT = 1
INVARIANTS
  TypeOK
  InOrder
  LossBounded
  RecursionBounded
PROPERTY Termination
