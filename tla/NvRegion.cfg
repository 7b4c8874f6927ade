SPECIFICATION Spec
CONSTANTS
  NumSectors = 2
  SeqModulus = 8
  Records = {r1, r2, r3}
  NoRecord = NoRecord
  MaxWrites = 7
  MaxTornRun = 1
SYMMETRY Symmetry
INVARIANTS RotationInv PowerLossSafe
CHECK_DEADLOCK FALSE
