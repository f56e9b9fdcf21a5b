SPECIFICATION Spec
CONSTANTS
  t1 = t1
  t2 = t2
  t3 = t3
  Thread = {t1, t2}
  DIM = 2
  WIDTH = 3
  Key <- Keys
  Entries <- KeyIndices
  Workloads <- Reuse
  PoolSize = 2
  BufferCapacity = 3
  MaxDeleted = 2
INVARIANTS
  FlushedRowsComplete
