SPECIFICATION Spec
CONSTANTS
  NFiles = 2
  Contents = {a, b}
  Wellformed = {a, b}
  Loads = {a, b}
  Checked = {2}
  NoFile = NoFile
  Partial = Partial
  Guarded = TRUE
  Confirms = FALSE
  Probed = FALSE
  Lossy = FALSE
  Crashes = FALSE
  Reboots = FALSE
PROPERTIES
  OkMeansInForce
