SPECIFICATION Spec
CONSTANTS
  RecordIds = {os}
  ManagerIds = {vm}
  Entry = {e1, e2}
  Limit = 2
  CounterRecord = TRUE
  Faults <- AllFaults
  MaxTrialBoots = 3
  BootIds = 4
  MaxSeals = 2
  MaxFaults = 2
SYMMETRY Symmetry
INVARIANTS
  TypeOK
  HeaderAboveMeansBootStage
  EachBootCountsOnce
  FloorIntact
  OutOfTrialBootsFloor
  ErrLeavesPrimary
  RowsOfTheirSeal
  HeaderOfItsTrial
  BailOutRetriedUnlessCut
