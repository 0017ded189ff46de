SPECIFICATION Spec
CONSTANTS
  Procs = {p1}
  Drivers = {p1}
  Domains <- MCOneDomain
  Frames <- MCThree
  Iovas <- MCThree
  Pages = {1, 2}
  RegionQuota = 2
  Slots = 2
  GrantSlots = 3
  MapSlots = 2
  RingCommands = 6
  MaxRegionId = 3
  MaxTimeouts = 0
INVARIANTS
  NothingLingers
CHECK_DEADLOCK FALSE
