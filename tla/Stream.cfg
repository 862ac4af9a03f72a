CONSTANTS
  a = a
  b = b
  NoRecord = NoRecord
  Records <- MCRecords
  Protocol <- MCProtocol
  Handler <- MCHandler
  FormatErrors <- AfterTheStart
  Refusals <- Noticed
SPECIFICATION FairSpec
INVARIANTS
  ReplyToWriter
  BusReleased
  CompletesOnce
PROPERTIES
  ProtocolEnds
