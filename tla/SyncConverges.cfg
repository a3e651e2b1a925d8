SPECIFICATION Spec
CONSTANTS
  x = x
  y = y
  z = z
  Tags = {x, y}
  NoTag = NoTag
  MaxNodes = 2
  Subs = {s}
  NoSub = NoSub
  Answers <- TwoAnswers
  Speeds = {1, 2}
  Handlers = {h1}
  Loop = Loop
  NoOne = NoOne
  NoHash = NoHash
  NoNodes = NoNodes
  Mixed = Mixed
  Kinds = {"manual", "measure", "dry", "drymeasure", "sub", "prefer", "auto"}
  Failures = TRUE
  Crashes = TRUE
  Budget = 2
INVARIANTS
  TypeOK
PROPERTIES
  Converges
CHECK_DEADLOCK FALSE
