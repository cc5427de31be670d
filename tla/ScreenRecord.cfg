SPECIFICATION Spec
CONSTANTS
  Frames = 5
  Buffers = 2
PROPERTIES StatesAdvance Finishes OverlayEnds FramesDrawn
CHECK_DEADLOCK FALSE
