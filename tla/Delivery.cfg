\* Two publishing threads, retained and one-shot messages, one of them not UTF-8, and
\* a client that subscribes twice and may be missing from the clients.
SPECIFICATION FairSpec
CONSTANTS
  a = a
  b = b
  d1 = d1
  d2 = d2
  d3 = d3
  Topics = {a, b}
  Data = {d1, d2, d3}
  Filters = {"+"}
  Wild = {"+"}
  Match <- MCMatchWild
  Publishers = {p1, p2}
  Requests <- MCRequests
  Clients = {c1}
  MaxPublishes = 2
  MaxSubscribes = 2
  MaySync = {TRUE, FALSE}
  Unreadable = {d3}
  Initial <- MCInitial
INVARIANT TypeOK
INVARIANT GapFree
INVARIANT ViewCurrent
PROPERTY EventuallyCurrent
CHECK_DEADLOCK FALSE
