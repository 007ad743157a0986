SPECIFICATION Spec
CONSTANTS
  Pids = {p1, p2}
  MaxSignals = 1
  Taps <- MusicTaps
  Replies = {}
  MaxFiles <- MusicFiles
PROPERTIES RemoteControl
INVARIANTS TypeOK TogglesNotLost OnePlayer NullIsSilent NowPlaying
SYMMETRY PidSymmetry
CHECK_DEADLOCK FALSE
