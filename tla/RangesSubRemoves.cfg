SPECIFICATION Spec
CONSTANTS
  Addr = {0, 1, 2, 3, 4}
  MaxRanges = 3
INVARIANT SubRemoves
