SPECIFICATION Spec
CONSTANTS
  RecordIds = {os, vm}
  ManagerIds = {}
  Entry = {e1, e2}
  Limit = 2
  CounterRecord = FALSE
  Faults <- Traceless
  MaxTrialBoots = 3
  BootIds = 4
  MaxSeals = 2
  MaxFaults = 2
INVARIANTS MemoryMatchesStore TrialIsActivated
PROPERTIES VectorSpec
