SPECIFICATION QueueSpec
CONSTANTS
  Threads <- MCThreads
  Capacity = 4
INVARIANTS
  QueueOK
PROPERTIES
  RemovalKeepsOrder
