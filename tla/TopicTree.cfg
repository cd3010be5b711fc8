\* Topics of up to three nodes, filters with every wildcard, two subscribers.
SPECIFICATION Spec
CONSTANTS
  Filters <- MCFilters
  Values = {"x", "y"}
  Grafts <- MCGrafts
  Clients = {"c", "d"}
  MaxRequests = 4
INVARIANT TypeOK
INVARIANT SyncIsRetained
INVARIANT UpdatesExact
INVARIANT SubscriptionsExact
PROPERTY FlatSpec
CHECK_DEADLOCK FALSE
