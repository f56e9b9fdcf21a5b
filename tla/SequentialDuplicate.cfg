SPECIFICATION MCSpec
CONSTANTS
  DIM = 2
  WIDTH = 3
  Key <- Keys
  Entries <- KeyIndices
  Workloads <- BulkDuplicates
  QueryWorkloads <- NoQueries
  RectWorkloads <- NoQueries
  RangeLists <- NoQueries
  PoolSize = 2
  BufferCapacity = 3
INVARIANTS
  FlushesFilledBuffers
