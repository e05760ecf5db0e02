SPECIFICATION Spec
CONSTANTS
  NumTables = 1
  Width <- OneDay
  Limit = 2
  Year = 3
  Threshold <- Old1
  Created <- Daily
  MaxNow = 2
  MaxRows = 0
  MaxEvents = 0
PROPERTIES
  HeadIsHistory
