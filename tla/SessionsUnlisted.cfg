\* Two connections with one id.
SPECIFICATION Spec
CONSTANTS
  c1 = c1
  c2 = c2
  i1 = i1
  i2 = i2
  Conns = {c1, c2}
  Ids = {i1}
  EmptyId = i2
  IdOf <- SharedByTwo
  Filters = {}
  HasWill = {}
  Raising = {}
  MaxOps = 0
INVARIANT LiveRegistered
CHECK_DEADLOCK FALSE
