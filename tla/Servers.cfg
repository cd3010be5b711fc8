\* A client with a last will and a connection that stays silent while the server stops.
SPECIFICATION ServersSpec
CONSTANTS
  c1 = c1
  c2 = c2
  i1 = i1
  i2 = i2
  i3 = i3
  Conns = {c1, c2}
  Ids = {i1, i2}
  EmptyId = i3
  IdOf <- OneEach
  Filters = {}
  HasWill = {c1}
  Raising = {c1}
  MaxOps = 0
  Silent = {c2}
INVARIANT ServersTypeOK
INVARIANT StopCloses
PROPERTY ClosedLeaves
PROPERTY StopPublishesWills
PROPERTY StopReturns
CHECK_DEADLOCK FALSE
