SPECIFICATION Spec
CONSTANTS
  Pids = {p1}
  MaxSignals = 1
  Taps <- ClaimTaps
  Replies = {}
  MaxFiles <- OneFile
INVARIANT BackStops
CHECK_DEADLOCK FALSE
