SPECIFICATION StoreSpec
CONSTANTS
  JobIds = {j1, j2, j3}
  ConversationIds = {c1, c2}
  Owners = {o1}
  Keys = {k1, k2, k3}
  Repositories = {r1}
  Threads = {}
  NoJob = NoJob
  NoConversation = NoConversation
  NoOwner = NoOwner
  NoRepository = NoRepository
  NoThread = NoThread
  MaxQueuedJobs = 2
  MaxEventsPerJob = 3
  RetentionPeriod = 0
  MaxAttempts = 2
  MaxTime = 1
  RotationTimes = {}
SYMMETRY Symmetry
INVARIANTS
  OneRunningPerConversation
  AttemptsMatch
  EventLogMatches
  QueueBounded
  CancellationWins
  ConversationOrder
PROPERTIES
  HistoryIsFinal
  ImplementsLifecycle
