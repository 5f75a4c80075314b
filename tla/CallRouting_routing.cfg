\* One account, two rules and the AI settings, changed by two requests while a
\* call is evaluated.
SPECIFICATION Spec
CONSTANTS
  Users = {u1}
  Engines = {e1}
  Editors = {p1}
  Callers <- SomeCallers
  NewRules <- SomeRules
  Changes <- SomeChanges
  IllTyped = IllTyped
  Malformed = Malformed
  MaxRules = 2
INVARIANTS
  TypeInv
  DecisionOfOneMoment
  SwitchedOnWhole
CHECK_DEADLOCK FALSE
