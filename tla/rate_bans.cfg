\* Strikes and bans when a Redis call or a process may fail.
SPECIFICATION BanSpec
CONSTANTS
  Requests = {r1, r2, r3, r4}
  IPs = {ip1, ip2}
  Paths <- BanPaths
  Audiences <- MCAudiences
  AudienceOf <- MCAudienceOf
  RouteLimit <- NoPathLimit
  FundPaths = {}
  DefaultLimit = 1
  GlobalSetting = 1
  BlockEnabled = TRUE
  Whitelist = {ip2}
  Threshold = 2
  CounterTTL = 1
  StrikeTTL = 1
  BanTTL = 2
  MaxFaults = 1
SYMMETRY RequestSymmetry
INVARIANTS
  TypeOK
  BanIsEarned
  StrikesOutliveOnlyFaults
PROPERTIES
  OnlyLateOffendersProlong
