SPECIFICATION LiveSpec
CONSTANTS
  i1 = i1
  p1 = p1
  v1 = v1
  w1 = w1
  w2 = w2
  Interactions = {i1}
  Phones = {p1}
  MaxAnswers = 2
  MaxBreaks = 2
  Prompts = {1, 2, 3}
  MaxProcesses = 3
  Events = {1, 2, 3}
  PageLimit = 1
  MaxPuts = 3
  MaxLists = 2
  MaxDrops = 1
  Viewers = {v1}
  Direct = {v1}
  MaxPane = 2
  MaxCaptures = 1
  MaxStops = 1
  MaxLeaves = 1
  ProbeEvents = {1, 2}
  Recorded = {1}
  ListLimit = 2
  MaxCrashes = 2
  MaxLosses = 1
  MaxToggles = 1
  WorkspaceIds = {w1, w2}
  NoWorkspace = NoWorkspace
  MaxTexts = 1
  MaxAsked = 2
  MaxFaults = 0
CHECK_DEADLOCK FALSE
INVARIANTS
  
  NoProcessLeft
  TurnsInOrder
  
PROPERTIES
  AskedIsTold
  ClosedPromptsEnd
  SyncSound
  DirectScreenFollows
  InboxKeeps
  RequestsEnd
