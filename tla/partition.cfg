SPECIFICATION FairSpec
CONSTANTS
  NumTables = 2
  Width <- BothWidths
  Limit = 2
  Year = 3
  Threshold <- Old0
  Created <- Beginning
  MaxNow = 3
  MaxRows = 1
  MaxEvents = 1
INVARIANTS
  TypeOK
  LossOnlyInWindow
  HorizonKept
  ColdOldest
PROPERTIES
  HoleOnlyIfTicked
  TablesKept
  Replenished
