\* Two threads write, recv may be short over a WebSocket.
SPECIFICATION Spec
CONSTANTS
  Writers = {w1, w2}
  Payloads <- Small
  LargePackets <- Large
  ShortReads = {"websocket"}
  ShortSizes = {1, 2039}
  ControlSizes = {0, 65535}
  MaxControls = 1
INVARIANT TypeOK
INVARIANT StreamIntact
INVARIANT ReadExact
INVARIANT Aligned
PROPERTY AllRead
CHECK_DEADLOCK FALSE
