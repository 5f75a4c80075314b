\* An acknowledgement is retried after its message is gone.
SPECIFICATION Spec
CONSTANTS
  Keys = {k1}
  Handlers = {h1}
  MaxMsgs = 2
  MaxTicks = 2
  LateAcks = TRUE
  MaxUid = 1
INVARIANT NothingLost
