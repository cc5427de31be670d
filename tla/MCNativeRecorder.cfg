SPECIFICATION Spec
CONSTANTS
  Starts = 2
  Rotations = 2
CONSTRAINT UpToOne
INVARIANTS CodecAlive ProjectionThere Decodable NoDeadlock
PROPERTIES EncoderEnds
CHECK_DEADLOCK FALSE
