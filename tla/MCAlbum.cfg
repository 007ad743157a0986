SPECIFICATION Spec
CONSTANTS
  Pids = {}
  MaxSignals = 1
  Taps <- AlbumTaps
  Replies = {}
  MaxFiles <- AlbumFiles
INVARIANTS SlideShowNotLost PictureIsIndexed IndexInRange
CHECK_DEADLOCK FALSE
