CONSTANTS
  r1 = r1
  r2 = r2
  h1 = h1
  h2 = h2
  h3 = h3
  None = None
  Replicas = {r1, r2}
  Holders = {h1, h2, h3}
  Boot <- MCBoot
  MaxEpoch = 2
SPECIFICATION Spec
SYMMETRY Symmetry
CONSTRAINT Followed
CHECK_DEADLOCK FALSE
INVARIANTS IInv
PROPERTIES ReceiptOrder
