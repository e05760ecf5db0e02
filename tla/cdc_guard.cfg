SPECIFICATION Spec
CONSTANTS
  s1 = s1
  p1 = p1
  p2 = p2
  d1 = d1
  None = None
  Sink = {s1}
  PgSource = {p1, p2}
  NumTasks = 2
  Db = {d1}
  DbOf <- TwoPg
  Holder <- Slot1
  MaxEvents = 2
INVARIANTS
  TypeOK
  RestartBudget
  NoGratuitousRestart
  DropOnlyAfterFatal
  SkipHonoured
PROPERTIES
  PassDwindles
