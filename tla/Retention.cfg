\* Two publishing threads, deletes, and a crash.
SPECIFICATION Spec
CONSTANTS
  a = a
  b = b
  d1 = d1
  d2 = d2
  Topics = {a, b}
  Data = {d1, d2}
  Filters = {"+"}
  Wild = {"+"}
  Match <- MCMatch
  Publishers = {p1, p2}
  Requests <- MCRequests
  MaxPublishes = 3
  Initial <- MCInitial
  MaxRows = 6
  MaxCrashes = 1
INVARIANT TypeOK
INVARIANT LastCreateStored
INVARIANT DatabaseCurrent
CHECK_DEADLOCK FALSE
