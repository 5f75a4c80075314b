\* Processes one after the other, each of which may be killed at any step.
SPECIFICATION FairSpec
CONSTANTS
  Keypairs = {key1, key2, key3}
  Missing = Missing
  Empty = Empty
  SIPEnabled = TRUE
  Requests = {r1, r2}
INVARIANTS
  TypeInv
  IdentityIsStable
  IdentityIsWhole
  WorkHasDatabase
  StartsAsConfigured
PROPERTIES
  ShutdownCompletes
  CleanupRecurs
