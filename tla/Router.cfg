SPECIFICATION RouterSpec
CONSTANTS
  Routers = {r1, r2}
  Handlers = {h1, h2}
  LockWait = 2
  Every = 2
  Lossy = TRUE
  Restarts = TRUE
  Tags <- MCTags
  Labels <- MCLabels
  Suffixed <- MCSuffixed
  NoTag = NoTag
  MaxNodes = 3
  Speeds = {0, 10, 12, 13, 20}
  Probers = {a, b}
  ProbeNodes = {n1, n2}
  Works = {n1}
  NoNode = NoNode
INVARIANTS
  RouterTypeOK
  OneAtATime
  CooldownIsEarned
  RebootsAreSpaced
  BackupIsAnother
  NoBetterChoice
  NoFlapping
  NothingIsLeft
PROPERTIES
  EveryRequestEnds
  SwitchNeedsMargin
  LoneProbesAreTrue
