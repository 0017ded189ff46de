SPECIFICATION UserSpec
CONSTANTS
  MaxProcs = 6
  CapSlots = 17
  NumProcs = 3
  BootGrants <- BootTables
  MaxDelegations = 16
  Lines <- MCLines
  Delivered <- MCLines
  Timer = 0
  Console = 1
  CreditMax = 1
  Apertures = {1}
  MaxRegions = 10
  RegionQuota = 4
  RegionMaxPages = 4
  RegionIdMax = 60
  ShareSlots = 3
  ImageFrames = 1
  TableFrames = 0
  GeneralFrames = 6
  DmaFrames = 16
  Requests <- NoRequests
  MaxId = 16
  Quota = 4
  Budget = 1
  HelperWaits = 2
  TickGoal = 2
  WaitBound = 2
  Machines <- MCMachines
  MaxPreempts = 2
INVARIANTS
  OnlyRacesAccuse
PROPERTIES
  BootCompletes
