SPECIFICATION FairSpec
CONSTANTS
  RecordIds = {os}
  ManagerIds = {vm}
  Entry = {e1, e2}
  Limit = 2
  CounterRecord = TRUE
  Faults <- StillCounted
  MaxTrialBoots = 3
  BootIds = 4
  MaxSeals = 1
  MaxFaults = 2
PROPERTIES TrialSettles
