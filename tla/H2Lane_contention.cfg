SPECIFICATION Spec
CONSTANTS
  Channels = {c1, c2}
  Tasks = {t1}
  Sizes = {1}
  MaxChannelRequests = 2
  MaxChannelBytes = 2
  MaxLaneRequests = 1
  MaxLaneBytes = 2
  MaxChannelReplays = 1
  None = None
SYMMETRY Symmetry
INVARIANTS
  TypeOK
  LaneNotOversubscribed
  NoLostLaneWakeup
  ClosedChannelIsEmpty
CHECK_DEADLOCK FALSE
