SPECIFICATION Spec
CONSTANTS
  Byte = {0, 1}
  Pad = 1
  Size = 4
  BlockSize = 2
  Keyword <- Keywords
  MaxTokens = 3
  MaxLists = 2
  Plan <- Plans
  Aligns = {0, 2}
  Counts = {0, 1}
  MaxSearches = 2
CHECK_DEADLOCK FALSE
INVARIANTS HitsTrue MissesExplained
PROPERTIES ResumeRepeatsNothing
