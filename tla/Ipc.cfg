SPECIFICATION FairIpcSpec
CONSTANTS
  MaxTasks = 3
  Message = {m1, m2}
  Empty = Empty
  Endpoint = {e1}
  RING_CAP = 2
  MAX_WAITERS = 2
INVARIANTS QueuedIffParked NoIdleWait
PROPERTIES ImplementsChannel ImplementsSched MailIsRead
