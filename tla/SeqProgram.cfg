CONSTANTS
  numSS = 2
  Reader = 0
  States <- StatesOf
  InitialState = "s0"
  Flags = {"queueFlag", "flag"}
  SyncFlag = "queueFlag"
  Channels = {"q", "v"}
  Monitored = {"q", "v"}
  Queued = "q"
  EventMask <- Masks
  Delays <- DelayedStates
  QueueSize = 1
  MaxFirstMonitors = 2
SPECIFICATION FairSpec
INVARIANTS
  NoLostWakeup
  FlagFollowsQueue
PROPERTIES
  EntryWithMonitors
  ExitEnds
CHECK_DEADLOCK FALSE
