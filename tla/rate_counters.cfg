\* The counters alone: one fault, the block switched off.
SPECIFICATION WindowSpec
CONSTANTS
  Requests = {r1, r2, r3}
  IPs = {ip1}
  Paths <- CounterPaths
  Audiences <- MCAudiences
  AudienceOf <- MCAudienceOf
  RouteLimit <- MCRouteLimit
  FundPaths = {"/withdraw"}
  DefaultLimit = 1
  GlobalSetting = 2
  BlockEnabled = FALSE
  Whitelist = {}
  Threshold = 1
  CounterTTL = 2
  StrikeTTL = 2
  BanTTL = 3
  MaxFaults = 1
SYMMETRY RequestSymmetry
INVARIANTS
  AdmittedWithinLimit
  FundPathFailsClosed
  MissingTTLIsRepaired
  LessThanTwoWindows
