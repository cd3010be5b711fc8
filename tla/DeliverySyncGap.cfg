\* A publish between the sync snapshot and the registration.
SPECIFICATION Spec
CONSTANTS
  a = a
  b = b
  d1 = d1
  d2 = d2
  d3 = d3
  Topics = {a, b}
  Data = {d1, d2}
  Filters = {"a"}
  Wild = {}
  Match <- MCMatchStatic
  Publishers = {p1}
  Requests <- MCPlain
  Clients = {c1}
  MaxPublishes = 1
  MaxSubscribes = 1
  MaySync = {TRUE}
  Unreadable = {}
  Initial <- MCFull
INVARIANT SyncComplete
CHECK_DEADLOCK FALSE
