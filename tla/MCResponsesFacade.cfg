SPECIFICATION FairSpec
CONSTANTS
  r1 = r1
  r2 = r2
  JobIds = {j1}
  ConversationIds = {c1}
  Owners = {o1}
  Keys = {k1, k2}
  Repositories = {}
  Threads = {}
  NoJob = NoJob
  NoConversation = NoConversation
  NoOwner = NoOwner
  NoRepository = NoRepository
  NoThread = NoThread
  MaxQueuedJobs = 1
  MaxEventsPerJob = 4
  RetentionPeriod = 0
  MaxAttempts = 1
  MaxTime = 1
  RotationTimes = {0, 1}
  Requests = {r1, r2}
  PrivateKeys = {k2}
  NoKey = NoKey
  Streaming = {r1}
  Client = o1
INVARIANTS
  FacadeInv
PROPERTIES
  SharedJobSpared
  EveryRequestEnds
  AbandonedIsCancelled
