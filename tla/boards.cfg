SPECIFICATION Spec
CONSTANTS
  Openings <- MCOpenings
  OmokSize = 6
INVARIANTS
  TypeOK
  InStep
  SameMoves
  SameVerdict
  EndNoticed
  EndIsReal
  Selectable
PROPERTIES
  KingSafe
CHECK_DEADLOCK FALSE
