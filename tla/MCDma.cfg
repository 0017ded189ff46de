SPECIFICATION Spec
CONSTANTS
  Procs = {p1, p2}
  Drivers = {p1}
  Domains <- MCDomains
  Frames <- MCTwo
  Iovas <- MCFour
  Pages = {1, 2}
  RegionQuota = 2
  Slots = 2
  GrantSlots = 3
  MapSlots = 3
  RingCommands = 9
  MaxRegionId = 3
  MaxTimeouts = 1
INVARIANTS
  ReclaimedUnreached
  HardwareAgrees
  ReachAttributed
CHECK_DEADLOCK FALSE
