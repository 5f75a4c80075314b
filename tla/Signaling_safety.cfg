\* Two keys, two connections and a bridge: a reconnect, a relay each way and
\* a shutdown between any two steps.
SPECIFICATION Spec
CONSTANTS
  Keys = {k1, k2}
  Conns = {c1, c2}
  Bridges = {b1}
  MsgTypes = {"offer"}
  None = None
  Sluggish = {}
  Internals = {k1}
  MaxSends = 2
SYMMETRY Symmetry
INVARIANTS
  TypeInv
  LiveSessionIsRegistered
  DeliveredAsAddressed
  RelayedOnceInOrder
PROPERTY PresenceSpec
CHECK_DEADLOCK FALSE
