\* recv may return less than it was asked for.
SPECIFICATION Spec
CONSTANTS
  Writers = {w1, w2}
  Payloads <- Small
  LargePackets <- Small
  ShortReads = {"tcp"}
  ShortSizes = {1}
  ControlSizes = {0}
  MaxControls = 0
INVARIANT ReadExact
CHECK_DEADLOCK FALSE
