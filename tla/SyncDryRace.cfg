SPECIFICATION Spec
CONSTANTS
  x = x
  y = y
  z = z
  Tags = {x, y}
  NoTag = NoTag
  MaxNodes = 2
  Subs = {s}
  NoSub = NoSub
  Answers <- TwoAnswers
  Speeds = {0, 1, 2}
  Handlers = {h1}
  Loop = Loop
  NoOne = NoOne
  NoHash = NoHash
  NoNodes = NoNodes
  Mixed = Mixed
  Kinds = {"manual", "measure", "dry", "sub"}
  Failures = FALSE
  Crashes = FALSE
  Budget = 4
INVARIANTS
  HashDescribesRouter
CHECK_DEADLOCK FALSE
