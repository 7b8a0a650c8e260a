SPECIFICATION SafeSpec
CONSTANTS
  a1 = a1
  a2 = a2
  m1 = m1
  m2 = m2
  d1 = d1
  x1 = x1
  i1 = i1
  p1 = p1
  p2 = p2
  t1 = t1
  g1 = g1
  e1 = e1
  c1 = c1
  v1 = v1
  v2 = v2
  s1 = s1
  r1 = r1
  w1 = w1
  None = None
  MaxSend = 0
  AgentConns = {a1}
  AppConns = {m1, m2}
  Devices = {d1}
  DeviceOf <- MCDeviceOf
  Apps = {x1}
  AppOf <- MCAppOf
  AutoApprove = FALSE
  Interactions = {i1}
  Phones = {p1, p2}
  MaxAnswers = 2
  MaxBreaks = 1
  TmuxSessions = {t1}
  ServerSessions = {g1}
  ExternalSessions = {e1}
  CreateActions = {c1}
  MaxRequests = 2
  MaxLives = 1
  MaxFailures = 2
  Viewers = {v1, v2}
  Direct = {v1}
  MaxPane = 2
  MaxCaptures = 1
  MaxStops = 0
  MaxLeaves = 0
  Prompts = 2
  Texts = {s1}
  NoText = NoText
  Edits = {r1}
  Oversized = {}
  MinReviews = 0
  MaxInjected = 1
  MaxCuts = 1
  MaxActions = 3
  WorkspaceIds = {w1}
  NoWorkspace = NoWorkspace
  MaxTexts = 2
  MaxAsked = 3
  MaxFaults = 1
  StatusAgents = {"s1", "s2"}
  StatusApps = {"t1", "t2"}
  MaxFrames = 2
  MaxRelayRuns = 2
  Controlled = {"e1"}
  Ips = {"i1"}
  AgentSockets = {"b1", "b2"}
  AppSockets = {"c1"}
  DeviceFor <- MCDeviceFor
  MaxStoreFailures = 1
  Users = {"u1", "u2"}
  MailLinks = {"l1"}
  UserSessions = {"k1"}
  Enrollments = {"n1"}
  OwnDevices = {"o1", "o2"}
  OwnAgents = {"b1"}
  OwnApps = {"c1"}
  NoUser = "none"
  NoDevice = "none"
  MaxMails = 1
  MaxDevices = 1
  Gestures = {"g1"}
  AutoLocks = {1, Never}
  Never = Never
  NoGesture = "none"
  NoConfig = NoConfig
  DefaultAuto = 1
  MaxAge = 1
  MaxWrites = 2
  MaxKeychainFailures = 1
  MaxStarts = 1
CHECK_DEADLOCK FALSE
VIEW PartsView
SYMMETRY ConnSymmetry
INVARIANTS
  PartsTypeOK
  
  OutcomesAgree
  ShownIsPending
  RequestsAgree
  NothingWithheld
  LearnedSound
  SavesKeepOthers
  DeviceShown
  ControlsHold
  AccountsHold
  LockHolds
PROPERTIES
  FirstOutcomeStands
  LiveKept
  NoSilentRevival
