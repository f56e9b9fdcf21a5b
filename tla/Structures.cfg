SPECIFICATION MCSpec
CONSTANTS
  Structures = {"pool", "rows", "node", "bits", "long", "path", "tree", "flat"}
  Capacity = 4
  MaxRows = 3
  Total = 3
  Thread = {t1, t2, t3}
  BufferCapacity = 5
  DIM = 3
  WIDTH = 3
  BlockBits = 4
  Addresses = {0, 1, 3, 4, 6, 7}
  SuffixSizes = {0, 2}
  MaxSuffixSize = 2
  Builds <- NodeBuilds
  PushesAnywhere = FALSE
  LeafMax = 4
  InnerMax = 4
  Starts <- TreeStarts
  RebalancesInner = FALSE
  SIZE = 5
  WordBits = 6
  Vals = {1, 2}
INVARIANTS
  FreeListInv
  AllocatesUnusedBuffer
  DrainedWhenDone
  FlushExact
  LayoutExact
  TreeExact
  AnswersRight
PROPERTIES
  NodeImplementsMap
  TreeImplementsMap
  FlatImplementsMap
