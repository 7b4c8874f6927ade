SPECIFICATION FairSpec
CONSTANTS
  t1 = t1
  t2 = t2
  Tasks = {t1, t2}
  Deploys <- BothDeploys
  Traffics <- AllTraffics
  MaxBoots = 3
  MaxImages = 2
  MaxResets = 2
  MaxDisables = 2
INVARIANTS TypeOK IdentityNamesGuest IntentEnactedUnlessOverlapped DisabledIsDown CacheFresh
PROPERTIES ActivationIsFreshUnlessLeft RelaunchComesUp
CHECK_DEADLOCK FALSE
