SPECIFICATION Spec
CONSTANTS
  site = site
  cat = cat
  host = host
  bad = bad
  base = base
  rich = rich
  word = word
  n1 = n1
  n2 = n2
  Torn = Torn
  Main = Main
  Direct = Direct
  NoBalancer = NoBalancer
  NoFile = NoFile
  Domains <- MCDomains
  Categories <- MCCategories
  Hosts <- MCHosts
  Invalid <- MCInvalid
  Templates <- MCTemplates
  Inside <- MCInside
  Keywords <- MCKeywords
  Nodes <- MCNodes
  Confs <- MCConfs
  Dlc <- MCDlc
  Big <- MCCategories
  Jobs = {j1, j2}
  MaxJobs = 3
  MaxFaults = 1
SYMMETRY AnyJob
CHECK_DEADLOCK FALSE
INVARIANTS
  TypeOK
  SitesAndGamesKept
  BalancerMatchesNodes
  LinesAreValid
  LinesAreCurrent
  TemplateIsWhole
VIEW UsedFiles
