SPECIFICATION DrawSpec
CONSTANTS
  Extent = 6
  Move = 2
  Pages = 3
  Pictures <- Files
  Rows <- Heights
  Plain <- Blank
  Calls <- PageCalls
  MaxFailures = 2
INVARIANTS DrawTypeOK FrameMoves InsideBuffers PictureShown OneLeakPerFailure
PROPERTY DrawingEnds
