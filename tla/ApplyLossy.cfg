SPECIFICATION Spec
CONSTANTS
  NFiles = 2
  Contents = {a, b, garbled}
  Wellformed = {a, b}
  Loads = {a, b}
  Checked = {2}
  NoFile = NoFile
  Partial = Partial
  Guarded = TRUE
  Confirms = TRUE
  Probed = FALSE
  Lossy = TRUE
  Crashes = TRUE
  Reboots = TRUE
INVARIANTS
  TypeOK
  OldContentKept
  NoThirdContent
  VerdictTellsTheFiles
PROPERTIES
  StaysOff
  OkMeansInForce
  RunEnds
