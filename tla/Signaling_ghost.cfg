\* One session that drops during its handshake.
SPECIFICATION Spec
CONSTANTS
  Keys = {k1}
  Conns = {c1, c2}
  Bridges = {}
  MsgTypes = {"offer"}
  None = None
  Sluggish = {}
  Internals = {}
  MaxSends = 0
INVARIANT OnlineHasConnection
CHECK_DEADLOCK FALSE
