SPECIFICATION Spec
CONSTANTS
  Size = 2
  MaxLen = 2
  MaxCount = 1
  MaxWrites = 2
  WSection = {}
  UndoWrite = {TRUE}
  Writable = {TRUE}
  Masks = {1}
PROPERTY RedoAllRestores
