\* Two users and two handlers; clients acknowledge what is still queued.
SPECIFICATION Spec
CONSTANTS
  Keys = {k1, k2}
  Handlers = {h1, h2}
  MaxMsgs = 2
  MaxTicks = 1
  LateAcks = FALSE
  MaxUid = 2
SYMMETRY Symmetry
INVARIANTS
  TypeInv
  NothingLost
  MailIsOwn
PROPERTY NewAccountsAreEmpty
