CONSTANTS
  a = a
  Replicas = {a}
  Holders <- MCHolders
  NoHolder = NoHolder
  Vaults = {1, 2}
  NoVault = 0
  MaxEpoch = 3
  MaxRevision = 3
  TTL = 3
  Margin = 1
  MaxBoots = 1
  Scopes <- MCLiveness
SPECIFICATION FairSpec
INVARIANTS CustodyIInv
PROPERTIES OperationEnds
