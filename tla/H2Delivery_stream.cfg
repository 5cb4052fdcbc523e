SPECIFICATION FairSpec
CONSTANTS
  Channels = {c1}
  Tasks = {t1, t2, t3}
  ChunkSizes = {1}
  MaxPacket = 2
  MaxLaneReplyBytes = 3
  MaxChannelBytes = 3
  QueueSize = 2
  None = None
INVARIANTS
  TypeOK
  BuffersAccounted
  IdleIsPolled
PROPERTIES
  ImplementsStream
  ErrorIsTold
CHECK_DEADLOCK FALSE
