SPECIFICATION FairSpec
CONSTANTS
  JobIds = {j1, j2}
  ConversationIds = {c1}
  Owners = {o1}
  Keys = {k1, k2}
  Repositories = {r1}
  Threads = {t1}
  NoJob = NoJob
  NoConversation = NoConversation
  NoOwner = NoOwner
  NoRepository = NoRepository
  NoThread = NoThread
  MaxQueuedJobs = 2
  MaxEventsPerJob = 3
  RetentionPeriod = 0
  MaxAttempts = 2
  MaxTime = 1
  RotationTimes = {}
  MaxConcurrent = 1
  YieldsInClaim = FALSE
  MaxRestarts = 1
INVARIANTS
  AbortReachesRuns
PROPERTIES
  EveryJobEnds
