SPECIFICATION FairSpec
CONSTANTS
  Sets = {vm, hsm}
  SingleBank = {hsm}
  Disableable = {vm}
  SecVers = {1, 2}
  MaxTrialBoots = 2
  MaxGen = 3
INVARIANTS TypeOK LaunchVerifies
PROPERTIES SecurityRatchet GenerationRatchet TrialEnds
