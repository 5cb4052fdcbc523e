SPECIFICATION FairSpec
CONSTANTS
  Requests = {q1, q2}
  MaxStreams = 2
  Window = 2
  Batch = 2
  BodySize = 1
  ReplySize = 2
  MaxAsked = 3
  MaxSettings = 2
  None = None
INVARIANTS
  TypeOK
  NobodyOversleeps
  SlotsReturned
PROPERTIES
  RequestsEnd
CHECK_DEADLOCK FALSE
