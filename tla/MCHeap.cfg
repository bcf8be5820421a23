CONSTANTS
  Regions <- MCRegions  RT_ALIGN_SIZE = 4  HeaderBytes = 3  MIN_SIZE = 6
  SizeWrap = 64  Sizes = {0, 1, 4, 7, 12, 22}
SPECIFICATION Spec
INVARIANTS HeapInv FitsFound
PROPERTY IsHeap
