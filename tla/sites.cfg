\* Requests resolved while the tables are replaced.
SPECIFICATION FairSpec
CONSTANTS
  Keys = {1, 2}
  Configs <- MCConfigs
  Malformed = Malformed
  Absent = Absent
  Hosts <- MCHosts
  Lower <- MCLower
  Covers <- MCCovers
  Hints <- MCHints
  NoCode = NoCode
  Unset = Unset
  Requests = {q1}
  MaxRetries = 2
  MaxPublish = 2
INVARIANTS
  TypeOK
  ResolvedFromPublished
  HintOnlyForUnknownHosts
PROPERTIES
  
  Converges
