SPECIFICATION Spec
CONSTANTS
  MaxProcs = 3
  CapSlots = 3
  NumProcs = 1
  BootGrants <- RegionGrants
  MaxDelegations = 2
  Lines = {0}
  Delivered = {0}
  Timer = 0
  Console = 0
  CreditMax = 1
  Apertures = {}
  MaxRegions = 2
  RegionQuota = 1
  RegionMaxPages = 2
  RegionIdMax = 3
  ShareSlots = 2
  ImageFrames = 1
  TableFrames = 1
  GeneralFrames = 4
  DmaFrames = 3
  Requests <- RegionRequests
  MaxId = 3
INVARIANTS
  LedgerBacked
  MappingAuthorized
  FramesConserved
