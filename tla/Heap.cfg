SPECIFICATION Spec
CONSTANTS
  HEAP_START = 0
  HEAP_END = 71
  HEADER = 12
  MIN_SPLIT = 4
  Sizes = {0, 1, 5, 16}
INVARIANTS TypeOK BlocksDisjoint HeldIsAllocated FullyMerged
