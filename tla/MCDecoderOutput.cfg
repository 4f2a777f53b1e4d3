\* A run that is decoded up to three times, with crashes; one statement fails.
SPECIFICATION Spec
CONSTANTS
  EventSpills <- MCEventSpills
  m_sp_step = 10
  NONE = NONE
  MAX_ATTEMPTS = 3
  MAX_DB_ERRORS = 1
INVARIANTS
  TypeOK
  StatusTwoIsFinished
  TablesMatchFiles
