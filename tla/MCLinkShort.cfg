SPECIFICATION LinkSpec
CONSTANTS
  Header = 2
  Sizes = {3}
  Block = 2
  Words <- Heard
  FirstResult = {"other"}
  MaxFds = 2
  MaxCalls = 1
INVARIANT SavedIsRecording
CHECK_DEADLOCK FALSE
