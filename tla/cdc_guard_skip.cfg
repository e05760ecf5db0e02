SPECIFICATION Spec
CONSTANTS
  s1 = s1
  p1 = p1
  p2 = p2
  d1 = d1
  None = None
  Sink = {s1}
  PgSource = {}
  NumTasks = 2
  Db = {}
  DbOf <- NoPg
  Holder <- NoHolder
  MaxEvents = 3
INVARIANTS
  LagSkipHonoured
