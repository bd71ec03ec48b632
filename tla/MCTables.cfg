SPECIFICATION Spec
CONSTANTS
  SecAddr = {4}
  MaxSecAddr = 6
  SecLen = {1}
  Disk = {0, 1}
  Base = {0, 2}
  MaxSections = 2
  Macro = {"a", "b"}
  Label = {"l"}
  Body <- Bodies
  MACRO_LIMIT = 3
  RTR_MAX_HOSTS = 3
  MaxFd = 5
  MaxTraceAddr = 3
  OpSize <- OpSizes
  TraceTags <- Tags
  AtTimes = {3}
  MaxAdds = 3
  MaxIoAddr = 2
  MapFile = {"f"}
  MapLen <- MapLens
  UserByte = {1}
  IoLen = {1, 2}
  MaxMaps = 2
  MaxUndo = 2
  MaxMetaAddr = 2
  ItemLen = {1, 2}
  Text = {"a", "*b"}
  Starred = {"*b"}
  Cursors <- Selections
  MaxMeta = 2
  Comparison = {"x", "y", "z"}
  Condition <- Conditions
  WpSlots = 2
INVARIANTS SectionsTrue TracesTrue MapsTrue MetadataTrue
PROPERTIES MacrosTrue HostsTrue WatchTrue
