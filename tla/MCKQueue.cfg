\* Three threads run any takes and puts they like on a pipe of depth 2 and on
\* a pool of one object.
SPECIFICATION Spec
CONSTANTS
  Threads = {t1, t2, t3}
  Queues <- MCQueues
  Items = {a, b}
  a = a
  b = b
  Depth <- MCDepth
  Initially <- MCInitially
  PipeDepth = 2
  NULL = NULL
INVARIANTS
  TypeOK
  Accounting
  MutualExclusion
  FrontSafe
PROPERTY FifoSpec
