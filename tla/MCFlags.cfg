CONSTANTS
  Prefix = {sym, sec}
  Base = {a}
  SectionEnd = {}
  Short = {}
  MaxAddr = 2
  FromAddr = {0, 1}
  FLAG_SPACES = 1
  SpaceName = {s1, s2}
  NULL = null
  AnyText = any
  MaxFlags = 2
SPECIFICATION Spec
CHECK_DEADLOCK FALSE
INVARIANTS RemembersTrue
PROPERTIES ImplementsMap CommandsRefine
