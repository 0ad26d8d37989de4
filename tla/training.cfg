SPECIFICATION Spec
CONSTANTS
  Variants = {"Othello", "Chess", "Omok"}
  NumIterations = 6
  EvalEvery = 5
  BufferMax = 2
  Rates = {1, 2}
  MaxStops = 2
INVARIANTS TypeOK Resumable LastKept NothingForgotten DiskBounded
PROPERTIES BestNeverWorse
CHECK_DEADLOCK FALSE
