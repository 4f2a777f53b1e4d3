\* One spill that the slow control numbers 7.
SPECIFICATION Spec
CONSTANTS
  NCodaEvents = 7
  EndBlock <- ShortEndBlock
  N_WAIT = 1
  CodaFile <- ShortFile
  Blanks = {}
  sampling = 0
  UINT_MAX = 63
  MAX_RETRIES = 0
INVARIANT SlowControlIsPrimary
