\* Concurrent requests to two services, stragglers and insistent clients.
SPECIFICATION FairSpec
CONSTANTS
  Services = {s1, s2}
  NoService = NoService
  Requests = {r1, r2, r3}
  FailLimit = 3
  OpenTime = 2
  MaxWait = 1
INVARIANTS
  TypeOK
PROPERTIES
  NoAdmissionWhileOpen
  OpenNotShortened
  OpensOnStreak
  Recloses
