SPECIFICATION MCSpec
CONSTANTS
  Structures = {"tree"}
  Capacity = 1
  MaxRows = 2
  Total = 1
  Thread = {t1}
  BufferCapacity = 2
  DIM = 3
  WIDTH = 3
  BlockBits = 4
  Addresses = {}
  SuffixSizes = {}
  MaxSuffixSize = 2
  Builds = {}
  PushesAnywhere = FALSE
  LeafMax = 4
  InnerMax = 4
  Starts <- FullNext
  RebalancesInner = TRUE
  SIZE = 1
  WordBits = 1
  Vals = {}
INVARIANT ParentsKnown
CHECK_DEADLOCK FALSE
