SPECIFICATION Spec
CONSTANTS
  Size = 2
  MaxLen = 2
  MaxCount = 2
  MaxWrites = 2
  WSection = {1}
  UndoWrite = {TRUE, FALSE}
  Writable = {TRUE, FALSE}
  Masks = {0, 1}
CONSTRAINT Bounded
INVARIANTS TypeOK OldestKnowsBase
PROPERTIES UndoAllRestores UndoNewestRestores
