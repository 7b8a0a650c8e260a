SPECIFICATION OpenSpec
CONSTANTS
  a1 = a1
  a2 = a2
  m1 = m1
  d1 = d1
  None = None
  MaxSend = 0
  AgentConns = {a1, a2}
  AppConns = {m1}
  Devices = {d1}
  DeviceOf <- MCDeviceOf
VIEW RelayView
SYMMETRY AgentSymmetry
CHECK_DEADLOCK FALSE
INVARIANTS
  RelayTypeOK
  
  HandshakeAuthenticated
