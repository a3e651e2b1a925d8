SPECIFICATION Spec
CONSTANTS
  x = x
  y = y
  z = z
  Tags = {x, y, z}
  NoTag = NoTag
  MaxNodes = 3
  Subs = {s}
  NoSub = NoSub
  Answers <- ThreeAnswers
  Speeds = {0, 1, 2}
  Handlers = {h1}
  Loop = Loop
  NoOne = NoOne
  NoHash = NoHash
  NoNodes = NoNodes
  Mixed = Mixed
  Kinds = {"sub", "prefer"}
  Failures = FALSE
  Crashes = FALSE
  Budget = 4
INVARIANTS
  PreferenceHolds
CHECK_DEADLOCK FALSE
