\* Three requests, two instances, four connections.
SPECIFICATION DownstreamSpec
CONSTANTS
  Callers = {c1, c2, c3}
  Addresses = {a1, a2}
  Conns = {x1, x2, x3, x4}
  None = None
  MaxList = 2
  MaxTurns = 3
SYMMETRY PoolSymmetry
INVARIANTS
  TypeOK
  NoClosedConnInUse
  NoConnLeaks
  EvenTurns
PROPERTIES
  CacheSpec
