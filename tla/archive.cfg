SPECIFICATION FairSpec
CONSTANTS
  x = x
  y = y
  Row = {x, y}
  PartOf <- Belongs
  NumParts = 3
  Created = 2
  MaxEvents = 2
INVARIANTS
  TypeOK
  CopiesBounded
PROPERTIES
  Archived
  Drained
