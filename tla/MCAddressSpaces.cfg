SPECIFICATION Spec
CONSTANTS
  PAGE_SIZE = 2
  MAX_PROC_FRAMES = 11
  Machines <- MCMachines
  MAX_PROCS = 2
  NUM_PROCS = 1
  MAX_REGIONS = 2
  REGION_QUOTA = 1
  REGION_MAX_PAGES = 2
  SHARE_SLOTS = 1
  ArenaFrames = 3
  MaxId = 3
  MaxRegionId = 2
INVARIANTS
  FramesCharged
  KernelMapped
  NoDanglingPage
PROPERTIES
  ImplementsAddressMap
  FreshMemory
CHECK_DEADLOCK FALSE
