SPECIFICATION McpFairSpec
CONSTANTS
  m1 = m1
  m2 = m2
  m3 = m3
  JobIds = {j1, j2}
  ConversationIds = {c1, c2}
  Owners = {o1}
  Keys = {k1, k2}
  Repositories = {}
  Threads = {}
  NoJob = NoJob
  NoConversation = NoConversation
  NoOwner = NoOwner
  NoRepository = NoRepository
  NoThread = NoThread
  MaxQueuedJobs = 2
  MaxEventsPerJob = 1
  RetentionPeriod = 0
  MaxAttempts = 1
  MaxTime = 1
  RotationTimes = {}
  Calls = {m1, m2}
  PrivateKeys = {k2}
  NoKey = NoKey
  Client = o1
INVARIANTS
  McpInv
  ToolTruthful
PROPERTIES
  EveryCallAnswered
