SPECIFICATION ListSpec
CONSTANTS
  Kinds <- Pages
  Files = {"a", "b", "c"}
  Other = "other"
  StartDirs <- Dirs
  Absent <- Lost
  Array = 3
  Batch = 3
  MaxEntries = 3
  MaxFds = 2
  MaxVisits = 3
INVARIANTS ListTypeOK DescriptorsLast
PROPERTY ListedFiles
CHECK_DEADLOCK FALSE
