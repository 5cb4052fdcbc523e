SPECIFICATION FairSpec
CONSTANTS
  Channels = {c1}
  Tasks = {t1, t2, t3}
  Sizes = {1, 2}
  MaxChannelRequests = 2
  MaxChannelBytes = 2
  MaxLaneRequests = 3
  MaxLaneBytes = 4
  MaxChannelReplays = 1
  None = None
INVARIANTS
  ChannelBounded
  BytesAccounted
  ReplaysBounded
PROPERTIES
  TeardownCompletes
CHECK_DEADLOCK FALSE
