\* Liveness and refinement; no symmetry, which would be unsound here.
SPECIFICATION FairSpec
CONSTANTS
  Reader = reader
  Reaper = reaper
  Main = main
  NTracklets <- MCNTracklets
  POISON = POISON
  NULL = NULL
  Workers = {w1, w2}
  NEvents = 2
  use_e906_data = FALSE
  NEVENT_REDUCERS = 1
  NKFAST_TRACKERS = 1
  INPUT_PIPE_DEPTH = 1
  OUTPUT_PIPE_DEPTH = 1
  SAVENUM = 2
PROPERTIES
  Termination
  PipelineSpec
