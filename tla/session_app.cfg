\* The application a client names, in the session and in the signed request.
SPECIFICATION Spec
CONSTANTS
  Requests = {q1}
  Copies = {c1}
  Sessions = {k1}
  NoKey = NoKey
  Nonces = {n1}
  Apps = {app}
  NoApp = NoApp
  EmptyApp = EmptyApp
  NilText = NilText
  DefaultApp = app
  Skew = 1
  NonceTTL = 1
  SessionTTL = 2
  MaxTime = 3
  MaxAhead = 1
  MaxFaults = 1
INVARIANTS
  SessionServesItsApp
