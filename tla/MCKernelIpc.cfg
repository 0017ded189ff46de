SPECIFICATION FairSpec
CONSTANTS
  MaxProcs = 3
  CapSlots = 3
  NumProcs = 2
  BootGrants <- WaitGrants
  MaxDelegations = 2
  Lines <- MCLines
  Delivered <- MCLines
  Timer = 0
  Console = 1
  CreditMax = 1
  Apertures = {}
  MaxRegions = 0
  RegionQuota = 0
  RegionMaxPages = 0
  RegionIdMax = 1
  ShareSlots = 0
  ImageFrames = 1
  TableFrames = 0
  GeneralFrames = 3
  DmaFrames = 0
  Requests <- IpcRequests
  MaxId = 3
INVARIANTS
  QueueInSync
  WaitAuthorized
  ParkIsHopeful
  VerdictHonest
PROPERTIES
  NeverStranded
  ReadyRuns
  TimerWaitEnds
