SPECIFICATION Spec
CONSTANTS
  MaxProcs = 4
  CapSlots = 9
  NumProcs = 3
  BootGrants <- ShippedGrants
  MaxDelegations = 1
  Lines <- MCLines
  Delivered <- MCLines
  Timer = 0
  Console = 1
  CreditMax = 1
  Apertures = {1, 2}
  MaxRegions = 0
  RegionQuota = 0
  RegionMaxPages = 0
  RegionIdMax = 1
  ShareSlots = 0
  ImageFrames = 1
  TableFrames = 0
  GeneralFrames = 4
  DmaFrames = 0
  Requests <- ShippedRequests
  MaxId = 3
INVARIANTS
  AuthorityFromBoot
  RolesApart
  WindowAuthorized
