SPECIFICATION FairSpec
CONSTANTS
  g = g
  p = p
  NumTables = 4
  Db = {g, p}
  DbOf <- Databases
  Greenplum = {g}
  Catalog = {3}
  Purged = {1, 4}
  Broken = {1}
  Bloat <- Ratios
  Limit = 2
  Batch = 2
  MaxOld = 3
  MaxGrow = 1
  MaxEvents = 1
INVARIANTS
  TypeOK
PROPERTIES
  BatchesExhaust
  OldRowsGo
  Relieved
