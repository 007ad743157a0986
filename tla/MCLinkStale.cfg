SPECIFICATION LinkSpec
CONSTANTS
  Header = 2
  Sizes = {2}
  Block = 2
  Words <- Heard
  FirstResult = {"other"}
  MaxFds = 3
  MaxCalls = 2
INVARIANT NothingHeardNothingDone
CHECK_DEADLOCK FALSE
