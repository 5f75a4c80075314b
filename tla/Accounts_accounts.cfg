\* Three keys, one more than the accounts it takes to give an id out again and
\* answer with another; one profile name that two runs of `register` race for;
\* two requests at once, so that one deletes an account under the other.
SPECIFICATION Spec
CONSTANTS
  Keys = {k1, k2, k3}
  DeviceKeys = {d1}
  ContactKeys = {x1}
  Names = {n1}
  Commands = {r1, r2}
  Procs = {p1, p2}
  Ids = {1, 2, 3}
  MaxRowid = 2
  None = None
SYMMETRY Symmetry
INVARIANTS
  TypeInv
  ProfileNamesItsAccount
  RowsAreOfTheirAccount
CHECK_DEADLOCK FALSE
