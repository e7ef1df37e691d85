CONSTANTS
  FIND_MATCH = FIND_MATCH
  UPDATE = UPDATE
  first = first
  second = second
  NoJob = NoJob
  QueueBound = 2
  PacketType <- MCPacketType
  Content <- MCContent
  Arriving <- MCArriving
  Registered <- MCRegistered
SPECIFICATION FairSpec
INVARIANTS TypeOK ExclusiveQueues
PROPERTIES
  QuietAfterStop
  StopIsShort
  DispatchesAsPromised
  StopReturns
  UrgentIsTaken
  NormalIsTakenWhenQuiet
