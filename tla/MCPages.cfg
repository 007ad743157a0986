SPECIFICATION FairSpec
CONSTANTS
  Pids = {}
  MaxSignals = 1
  Taps <- PageTaps
  Replies = {}
  MaxFiles <- OneFile

PROPERTIES PageFollows TriggerServed ShutdownEnds
CHECK_DEADLOCK FALSE
