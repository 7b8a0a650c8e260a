SPECIFICATION FairSpec
CONSTANTS
  u1 = u1
  u2 = u2
  None = None
  Upgrades = {u1, u2}
  Settings <- LiveSettings
CHECK_DEADLOCK FALSE
PROPERTIES
  UpgradeSettles
  
