SPECIFICATION Spec
CONSTANTS
  home = home
  Clients = {c1, c2}
  Addresses = {home, Local}
  Local = Local
  Ports = {p1, p2}
  Registered = p1
  Admin = Admin
  Wrong = {wrong}
  MaxFails = 3
  Window = 2
  Nobody = Nobody
  Screens = {s1, s2}
  Ops <- MCOps
  Vpn = "vpn"
  Nothing = Nothing
  Keys = {k1, k2}
  Urgent = Urgent
  Repeat = 2
  Unsent = Unsent
INVARIANTS
  TypeOK
  RememberedCodesWork
  OneRouterPerCode
PROPERTIES
  BlockHolds
  BlockEnds
  FreshAnswersAreTrue
  CacheCatchesUp
  FailuresAreToldAgain
