SPECIFICATION Spec
CONSTANTS
  NFiles = 2
  Contents = {a, b, refused}
  Wellformed = {a, b, refused}
  Loads = {a, b}
  Checked = {2}
  NoFile = NoFile
  Partial = Partial
  Guarded = FALSE
  Confirms = TRUE
  Probed = FALSE
  Lossy = FALSE
  Crashes = TRUE
  Reboots = FALSE
INVARIANTS
  IInv
  ChecksComeFirst
  RolledBackMeansAsBefore
PROPERTIES
  RolledBackMeansRunning
  ImplementsAtomicChange
