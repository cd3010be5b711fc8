\* Two connections contend for one id.
SPECIFICATION Spec
CONSTANTS
  c1 = c1
  c2 = c2
  i1 = i1
  i2 = i2
  Conns = {c1, c2}
  Ids = {i1}
  EmptyId = i2
  IdOf <- SharedByTwo
  Filters = {f1}
  HasWill = {c1}
  Raising = {c1}
  MaxOps = 2
INVARIANT TypeOK
INVARIANT SubscriptionsAgree
INVARIANT SettledLeaves
CHECK_DEADLOCK FALSE
