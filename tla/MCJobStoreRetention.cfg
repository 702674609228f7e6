SPECIFICATION StoreSpec
CONSTANTS
  JobIds = {j1, j2}
  ConversationIds = {c1, c2}
  Owners = {o1, o2}
  Keys = {k1, k2}
  Repositories = {r1}
  Threads = {t1}
  NoJob = NoJob
  NoConversation = NoConversation
  NoOwner = NoOwner
  NoRepository = NoRepository
  NoThread = NoThread
  MaxQueuedJobs = 2
  MaxEventsPerJob = 2
  RetentionPeriod = 1
  MaxAttempts = 1
  MaxTime = 2
  RotationTimes = {0, 1, 2}
SYMMETRY Symmetry
INVARIANTS
  IdempotencyConsistent
PROPERTIES
  KeysKept
  PruneSparesRecent
