SPECIFICATION Spec
CONSTANTS
  Pids = {p1, p2}
  MaxSignals = 1
  Taps <- VoiceTaps
  Replies = {"MUSIC", "VIDEO", "PIC", "END", "other"}
  MaxFiles <- OneFile
INVARIANTS NullIsSilent
SYMMETRY PidSymmetry
CHECK_DEADLOCK FALSE
