SPECIFICATION SamplerSpec
CONSTANTS
  Points <- Places
  FirstPress = {0}
  MaxQueue = 4
  MaxStrokes = 2
INVARIANTS OneTouchPerStroke GestureIsSector
PROPERTY StrokesHandled
CHECK_DEADLOCK FALSE
