\* Two users, one with an account and an internal peer, a client and a bridge that
\* speaks for that peer, and two frames: an offer and the hangup of either side, or
\* two offers at once, in every interleaving with departures and Stop.
SPECIFICATION CallsSpec
CONSTANTS
  Keys = {k1, k2}
  Conns = {c1}
  Bridges = {b1}
  MsgTypes = {"offer", "hangup", "answer"}
  None = None
  Sluggish = {}
  Internals = {k1}
  MaxSends = 2
  MaxCalls = 2
  Enrolled = {k1}
INVARIANTS
  TrackedBeforeDelivered
PROPERTIES
  TrackingSpec
CHECK_DEADLOCK FALSE
