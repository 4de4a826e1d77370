\* A table replaced between the two reads of a request.
SPECIFICATION Spec
CONSTANTS
  Keys = {1}
  Configs <- FewConfigs
  Malformed = Malformed
  Absent = Absent
  Hosts <- MCHosts
  Lower <- MCLower
  Covers <- MCCovers
  Hints <- NoHints
  NoCode = NoCode
  Unset = Unset
  Requests = {q1}
  MaxRetries = 1
  MaxPublish = 2
INVARIANTS
  ResolvedTogether
