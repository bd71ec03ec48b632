SPECIFICATION Spec
CONSTANTS
  BlockSize = 7
  Counts = {1, 3, 9}
  Offsets <- MCOffsets
  Size <- MCSize
  Content <- MCContent
  TextLens = {0, 2, 7}
  MinSegment = 10
  MaxCalls = 4
CHECK_DEADLOCK FALSE
INVARIANTS InStep AnswersTrue
PROPERTIES CallReturns
