SPECIFICATION FairSpec
CONSTANTS
  t1 = t1
  t2 = t2
  t3 = t3
  Thread = {t1, t2, t3}
  DIM = 2
  WIDTH = 3
  Key <- Keys
  Entries <- KeyIndices
  Workloads <- ThreeThreads
  PoolSize = 1
  BufferCapacity = 3
  MaxDeleted = 1
INVARIANTS
  NoDanglingReference
  DeletedFits
PROPERTIES
  Termination
