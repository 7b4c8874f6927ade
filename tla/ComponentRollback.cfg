SPECIFICATION Spec
CONSTANTS
  os = os
  vm = vm
  Components = {os, vm}
  Nodes <- OwnRoutes
  MaxImages = 2
  MaxFaults = 0
INVARIANTS VectorBootable
