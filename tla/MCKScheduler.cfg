\* Two workers, four events: one reducer and one tracker to share, an input pipe as
\* narrow as it can be and an output pipe in which both workers may be at a time, so
\* that the reaper can delete a job before the worker that pushed it has called Post.
SPECIFICATION Spec
CONSTANTS
  Reader = reader
  Reaper = reaper
  Main = main
  NTracklets <- MCNTracklets
  POISON = POISON
  NULL = NULL
  Workers = {w1, w2}
  NEvents = 4
  use_e906_data = TRUE
  NEVENT_REDUCERS = 1
  NKFAST_TRACKERS = 1
  INPUT_PIPE_DEPTH = 1
  OUTPUT_PIPE_DEPTH = 2
  SAVENUM = 3
SYMMETRY Symmetry
INVARIANTS
  TypeOK
  OutputExact
  JobsIntact
  PoolsSound
  JobsInFlight
  BoundedLoss
  EndsComplete
