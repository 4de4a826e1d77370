\* A late EXPIRE of a strike against the ban of another request.
SPECIFICATION Spec
CONSTANTS
  Requests = {r1, r2, r3}
  IPs = {ip1}
  Paths <- ListPath
  Audiences <- MCAudiences
  AudienceOf <- MCAudienceOf
  RouteLimit <- MCRouteLimit
  FundPaths = {}
  DefaultLimit = 1
  GlobalSetting = 4
  BlockEnabled = TRUE
  Whitelist = {}
  Threshold = 2
  CounterTTL = 2
  StrikeTTL = 2
  BanTTL = 3
  MaxFaults = 0
PROPERTIES
  BanNeverShortened
