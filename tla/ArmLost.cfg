SPECIFICATION FairSpec
CONSTANTS
  v1 = v1
  v2 = v2
  c1 = c1
  c2 = c2
  Vms = {v1, v2}
  Conns = {c1, c2}
  Traffics <- ArmTraffic
  MaxArms = 1
  MaxCerts = 2
  MaxFaults = 1
  MaxRestarts = 1
  MaxHandles = 2
  MaxKeys = 2
PROPERTIES ArmedEnrols
CHECK_DEADLOCK FALSE
