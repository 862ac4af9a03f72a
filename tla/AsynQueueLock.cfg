CONSTANTS
  q1 = q1
  q2 = q2
  l1 = l1
  l2 = l2
  QueueLockers = {q1, q2}
  Lockers = {l1, l2}
  PortThread = PortThread
  NoThread = NoThread
  IO = IO
  NotifiedQueueLocks = FALSE
  MaxNesting = 2
  MaxIO = 2
  MaxRefused = 1
SPECIFICATION FairSpec
INVARIANTS
  Exclusive
PROPERTIES
  QueueLockGranted
  IOServed
