SPECIFICATION Spec
CONSTANTS
  Openings <- MCOpenings
  OmokSize = 6
INVARIANT InputAsTrained
CHECK_DEADLOCK FALSE
