CONSTANTS
  a = a
  b = b
  Replicas = {a, b}
  Holders <- MCHolders
  NoHolder = NoHolder
  Vaults = {1, 2}
  NoVault = 0
  MaxEpoch = 3
  MaxRevision = 3
  TTL = 2
  Margin = 1
  MaxBoots = 1
  Scopes <- MCScopes
SYMMETRY Symmetry
CONSTRAINT OneCutOff
SPECIFICATION CSpec
INVARIANTS RequestHoldsLease RotationHeld DeliveredCommitted ReopenedDurable
