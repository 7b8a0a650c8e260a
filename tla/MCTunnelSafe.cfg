SPECIFICATION Spec
CONSTANTS
  u1 = u1
  u2 = u2
  None = None
  Upgrades = {u1, u2}
  Settings <- SafetySettings
CHECK_DEADLOCK FALSE
SYMMETRY UpgradeSymmetry
INVARIANTS
  EndsSound
  StrictAppDirect
  
PROPERTIES
  ChannelSpec
