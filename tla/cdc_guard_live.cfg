SPECIFICATION FairSpec
CONSTANTS
  s1 = s1
  p1 = p1
  p2 = p2
  d1 = d1
  None = None
  Sink = {s1}
  PgSource = {p1}
  NumTasks = 1
  Db = {d1}
  DbOf <- OnePg
  Holder <- Slot1
  MaxEvents = 2
PROPERTIES
  TransientHealed
