SPECIFICATION UFairSpec
CONSTANTS
  a1 = a1
  a2 = a2
  m1 = m1
  d1 = d1
  x1 = x1
  None = None
  MaxSend = 0
  MaxAsks = 2
  AgentConns = {a1}
  AppConns = {m1}
  Upgradable = {m1}
  Devices = {d1}
  DeviceOf <- MCDeviceOf
  Apps = {x1}
  AppOf <- MCAppOf
  AutoApprove = TRUE
CHECK_DEADLOCK FALSE
PROPERTIES
  ReadyPairsProposed
