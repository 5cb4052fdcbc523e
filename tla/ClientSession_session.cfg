SPECIFICATION FairSpec
CONSTANTS
  Talker = Talker
  Other = Other
  Dc = Dc
  None = None
  Sessions <- Clients
  Scripts <- ScriptsOf
  Configs <- BothConfigs
  Dsts <- Dcs
  High = 4
  Word = 2
  LongBytes = 1
  FieldBytes = 2
  TlsChunk = 3
  AppDataMax = 2
  Small = 3
  Medium = 5
  MaxMessage = 6
  InitLen = 2
  ReadSize = 3
  BackoffInitial = 1
  BackoffMax = 1
  BackoffSteps = 1
INVARIANTS
  UploadIntact
  DownloadIntact
  DialsAccounted
PROPERTIES
  SessionsEnd
