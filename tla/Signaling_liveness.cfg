\* A handler, its successor and a recipient that may stop reading.
SPECIFICATION FairSpec
CONSTANTS
  Keys = {k1, k2}
  Conns = {c1, c2}
  Bridges = {}
  MsgTypes = {"offer"}
  None = None
  Sluggish = {c2}
  Internals = {}
  MaxSends = 2
PROPERTIES
  SupersededLeaves
  DepartureIsNoticed
CHECK_DEADLOCK FALSE
