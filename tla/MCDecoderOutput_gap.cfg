\* A group of spills without events.
SPECIFICATION Spec
CONSTANTS
  EventSpills <- GapSpills
  m_sp_step = 10
  NONE = NONE
  MAX_ATTEMPTS = 1
  MAX_DB_ERRORS = 0
INVARIANT FinishedIsStatusTwo
