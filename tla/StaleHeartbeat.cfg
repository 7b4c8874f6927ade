SPECIFICATION Spec
CONSTANTS
  t1 = t1
  t2 = t2
  Tasks = {t1, t2}
  Deploys <- BothDeploys
  Traffics <- StopTraffic
  MaxBoots = 3
  MaxImages = 2
  MaxResets = 2
  MaxDisables = 1

PROPERTIES ActivationIsFresh
CHECK_DEADLOCK FALSE
