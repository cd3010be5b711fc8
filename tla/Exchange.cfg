\* Two client ids, one of which the broker uses too; two queued messages.
SPECIFICATION FairSpec
CONSTANTS
  Ids = {0, 1}
  Kinds <- MCKinds
  MaxRequests = 1
  MaxMessages = 2
  MaxId = 2
INVARIANT TypeOK
INVARIANT AckMeansPublished
INVARIANT AckAwaited
INVARIANT OneInFlight
PROPERTY Answered
PROPERTY MessagesSent
CHECK_DEADLOCK FALSE
