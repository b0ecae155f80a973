CONSTANTS
  h1 = h1
  h2 = h2
  v1 = v1
  v2 = v2
  Holders = {h1, h2}
  NoHolder = NoHolder
  Vaults = {v1, v2}
  NoVault = NoVault
  MaxEpoch = 3
  MaxRevision = 3
  Nobody = Nobody
SPECIFICATION StoreSpec
SYMMETRY Symmetry
INVARIANTS IInv AckedCommitted FastIInv SingleServerIInv
PROPERTIES FencingOrder RevisionNamesContent RemovedFinal
CHECK_DEADLOCK FALSE
