\* Four spills in seventeen CODA events and three blocks; event 5, behind a flush
\* event, is blank until the DAQ fills it.
SPECIFICATION FairSpec
CONSTANTS
  NCodaEvents = 17
  EndBlock <- MCEndBlock
  N_WAIT = 1
  CodaFile <- MCCodaFile
  Blanks = {5}
  sampling = 0
  UINT_MAX = 63
  MAX_RETRIES = 2
INVARIANTS
  TypeOK
  OutputAsExpected
  RecordMatches
  SameButBlanks
PROPERTY Termination
