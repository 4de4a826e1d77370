\* Copies of two signed requests, through faults of Redis and clocks ahead.
SPECIFICATION Spec
CONSTANTS
  Requests = {q1, q2}
  Copies = {c1, c2}
  Sessions = {k1}
  NoKey = NoKey
  Nonces = {n1}
  Apps = {app}
  NoApp = NoApp
  EmptyApp = EmptyApp
  NilText = NilText
  DefaultApp = app
  Skew = 1
  NonceTTL = 1
  SessionTTL = 2
  MaxTime = 3
  MaxAhead = 1
  MaxFaults = 1
SYMMETRY CopySymmetry
INVARIANTS
  TypeOK
  RepeatsOnlyHeldOrAhead
  RefusedOnlyIfSeen
