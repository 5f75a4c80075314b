\* Two calls of one line and one of another caller; two webhooks handled at
\* once, repeated ones and those of one call included, and a crash between any
\* two steps.
SPECIFICATION Spec
CONSTANTS
  c1 = c1
  c2 = c2
  c3 = c3
  phone1 = phone1
  phone2 = phone2
  k1 = k1
  Calls = {c1, c2, c3}
  Phones = {phone1, phone2}
  Keys = {k1}
  None = None
  Caller <- MCCaller
  Dialled <- MCDialled
  Inbound <- MCInbound
  Handlers = {h1, h2}
  MaxRows = 2
  MaxStarts = 1
SYMMETRY Symmetry
INVARIANTS
  TypeInv
  OnlyLateCallsComeBack
  UpCallsAreTracked
  OverCallsAreClosed
  EndedRowsHadAHangup
\* The calls run out: the bound, not the server, stops the model.
CHECK_DEADLOCK FALSE
