\* Two users (three pairs: one may call oneself), two goroutines, three calls; users come and go, rows are pruned
\* and the server crashes between any two steps.
SPECIFICATION FairSpec
CONSTANTS
  Keys = {k1, k2}
  Procs = {p1, p2}
  None = None
  MaxCalls = 3
  MaxStarts = 1
INVARIANTS
  TypeInv
  OneCallPerPair
  OpenRowsAreTracked
PROPERTIES
  EndsItsOwnCallOnce
  HangupEndsCall
\* The calls run out: the bound, not the server, stops the model.
CHECK_DEADLOCK FALSE
