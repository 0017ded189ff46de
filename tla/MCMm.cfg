SPECIFICATION Spec
CONSTANTS
  PAGE_SIZE = 2
  WordBits = 3
  CapacityWords = 2
  BootMaps <- MCOverlaps
  reserve_below = 1
  dma_top = 5
  RunSizes = {0, 1, 2, 3}
INVARIANTS
  Conserved
  Partitioned
  OnlyUsableMemory
  ScansExact
