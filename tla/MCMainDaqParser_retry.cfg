\* A flush event that is blank until the DAQ fills it, after another flush event.
SPECIFICATION Spec
CONSTANTS
  NCodaEvents = 7
  EndBlock <- ShortEndBlock
  N_WAIT = 1
  CodaFile <- ShortFile
  Blanks = {4}
  sampling = 0
  UINT_MAX = 63
  MAX_RETRIES = 2
INVARIANT HitsOnce
