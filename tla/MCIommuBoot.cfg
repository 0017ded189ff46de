SPECIFICATION BootSpec
CONSTANTS
  Frames = {"dst", "src"}
  Iovas = {"IOVA", "IOVA_SRC"}
  Rights <- MCRights
  G = 3
  M = 3
  IDENTITY_LIMIT = 256
  MaxBuses = 2
  MaxFunctions = 5
  Boots <- MCBoots
  MAX_DOMAINS = 2
  MaxStuck = 1
  MaxTimeouts = 1
  MaxLost = 1
INVARIANTS
  Unambiguous
  ReachWithinGrants
  PublishedBounded
  ProbesDiscriminate
  NothingStands
PROPERTIES
  NeverRepointed
CHECK_DEADLOCK FALSE
