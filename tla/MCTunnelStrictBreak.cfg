SPECIFICATION Spec
CONSTANTS
  u1 = u1
  u2 = u2
  None = None
  Upgrades = {u1, u2}
  Settings <- BreakSettings
CHECK_DEADLOCK FALSE
INVARIANTS
  SessionSurvives
