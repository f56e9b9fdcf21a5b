SPECIFICATION FairSpec
CONSTANTS
  NThreads = 3
  Size = 2
  FixRange = 3
  Orders = {"sequential_entries", "range_per_thread", "sequential_ranges"}
  Approaches = {"buffered_bulk", "optimistic_locking"}
  Capacity = 1
  MaxRows = 2
  MaxDeleted = 1
  Generations = 2
INVARIANTS
  EachEntryOnce
  PhaseExclusive
  OneResponsible
  LeaveTogether
PROPERTIES
  UsesPoolCorrectly
  RequestKept
  Termination
