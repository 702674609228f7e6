SPECIFICATION Spec
CONSTANTS
  JobIds = {j1, j2}
  ConversationIds = {c1, c2}
  Owners = {o1}
  Keys = {k1, k2}
  Repositories = {r1}
  Threads = {t1, t2}
  NoJob = NoJob
  NoConversation = NoConversation
  NoOwner = NoOwner
  NoRepository = NoRepository
  NoThread = NoThread
  MaxQueuedJobs = 2
  MaxEventsPerJob = 2
  RetentionPeriod = 0
  MaxAttempts = 2
  MaxTime = 0
  RotationTimes = {}
  MaxConcurrent = 2
  YieldsInClaim = TRUE
  MaxRestarts = 1
SYMMETRY Symmetry
INVARIANTS
  ProcessorInv
PROPERTIES
  StoreSpec
  ThreadNeverReplaced
