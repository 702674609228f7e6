SPECIFICATION FairSpec
CONSTANTS
  MaxBufferedNotifications = 1
  MaxNotes = 3
INVARIANTS
  CodexInv
  TextInOrder
  NoOrphan
PROPERTIES
  ImplementsRunner
