SPECIFICATION Spec
CONSTANTS
  os = os
  vm = vm
  Components = {os, vm}
  Nodes <- AllNodes
  MaxImages = 3
  MaxFaults = 2
INVARIANTS TypeOK VectorBootable NvFollowsVector NoneStuck
PROPERTIES FloorHasRun FinalizeArms
