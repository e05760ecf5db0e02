SPECIFICATION FairSpec
CONSTANTS
  a = a
  b = b
  c = c
  hub = hub
  ab = ab
  ac = ac
  ca = ca
  bc = bc
  None = None
  Server = {a, b, c, hub}
  Sub = {ab, ac, bc, ca}
  Root = a
  Ship <- Shipped
  Dist <- Distributors
  Pub <- Publishers
  To <- Subscribers
  Merge = {ac}
  Blacklist = {c}
  MaxEvents = 2
INVARIANTS
  TypeOK
  CleanAfterDrop
  TraversedOnce
  UnreachableIsTrue
  Complete
PROPERTIES
  DropOnlySeenInactive
  Dwindles
  Terminates
