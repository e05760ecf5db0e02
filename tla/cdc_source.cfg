SPECIFICATION FairSpec
CONSTANTS
  s1 = s1
  s2 = s2
  s3 = s3
  g = g
  d1 = d1
  d2 = d2
  d3 = d3
  c1 = c1
  c2 = c2
  None = None
  Server = {s1, s2, s3}
  Group = {g}
  Db = {d1, d2, d3}
  Connector = {c1, c2}
  Members <- TwoMembers
  GroupOf <- FirstInGroup
  Home <- Homes
  HasJob <- Jobs
  Published = {d3}
  Lost = {s3}
  Config <- Configs
  Stray <- Old
  MaxEvents = 3
INVARIANTS
  TypeOK
PROPERTIES
  StartedAtPrimary
  AuditSound
  StageCompletes
  JobRepaired
