SPECIFICATION FairSpec
CONSTANTS
  a1 = a1
  a2 = a2
  m1 = m1
  m2 = m2
  d1 = d1
  x1 = x1
  None = None
  MaxSend = 2
  AgentConns = {a1}
  AppConns = {m1}
  Devices = {d1}
  DeviceOf <- MCDeviceOf
  Apps = {x1}
  AppOf <- MCAppOf
  AutoApprove = FALSE
CHECK_DEADLOCK FALSE
INVARIANTS
  BusinessReadable
PROPERTIES
  RelaySpec
  ConnectingEnds
