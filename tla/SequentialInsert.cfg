SPECIFICATION MCSpec
CONSTANTS
  DIM = 2
  WIDTH = 3
  Key <- Keys
  Entries <- KeyIndices
  Workloads <- AllOrders
  QueryWorkloads <- Queried
  RectWorkloads <- Intervals
  RangeLists <- Ranges
  PoolSize = 1
  BufferCapacity = 3
INVARIANTS
  WellFormed
  Canonical
  AllInserted
  MasksExact
  QueryExact
  RangesAnswered
PROPERTIES
  ImplementsStore
  AllTerminate
