SPECIFICATION FairSpec
CONSTANTS
  JobIds = {j1}
  ConversationIds = {c1}
  Owners = {o1}
  Keys = {k1}
  Repositories = {}
  Threads = {}
  NoJob = NoJob
  NoConversation = NoConversation
  NoOwner = NoOwner
  NoRepository = NoRepository
  NoThread = NoThread
  MaxQueuedJobs = 1
  MaxEventsPerJob = 3
  RetentionPeriod = 0
  MaxAttempts = 1
  MaxTime = 1
  RotationTimes = {}
  Watched = j1
  Streams = {s1, s2}
  Page = 2
  ReadsYield = FALSE
INVARIANTS
  StreamInv
PROPERTIES
  ClientLearnsEnd
  NobodyPollsForTheGone
