SPECIFICATION FairSpec
CONSTANTS
  k1 = k1
  k2 = k2
  yellow = yellow
  red = red
  r1 = r1
  r2 = r2
  Key = {k1}
  Severity = {yellow, red}
  Request = {r1}
  NumTargets = 2
  Down = {0}
  MaxTime = 3
  MaxEvents = 2
INVARIANTS
  NothingLeft
  FiringStable
PROPERTIES
  Announced
CHECK_DEADLOCK FALSE
