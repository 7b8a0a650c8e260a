SPECIFICATION ExperienceSpec
CONSTANTS
  Prompts = 3
  Texts = {s1}
  NoText = NoText
  Edits = {r1}
  Oversized = {}
  MinReviews = 0
  MaxInjected = 1
  MaxCuts = 1
  MaxActions = 3
CHECK_DEADLOCK FALSE
INVARIANT CanRestart
