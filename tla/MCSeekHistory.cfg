SPECIFICATION SeekSpec
CONSTANTS
  UNDOS = 4
  Addr = {1, 2, 3}
INVARIANTS SeekTypeOK OnlyVisited
PROPERTIES UndoRedoAgree
