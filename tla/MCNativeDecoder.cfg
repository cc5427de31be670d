SPECIFICATION Spec
CONSTANTS
  Sessions = 2
  Frames = 3
  Rotations = 2
  Surfaces = 2
  Decoders = 2
CONSTRAINT OneCause
INVARIANTS CodecAlive FrontExists GopIntact RightParameters
PROPERTY Released
CHECK_DEADLOCK FALSE
