CONSTANTS
  a = a
  b = b
  wa = wa
  wb = wb
  c1 = c1
  c2 = c2
  None = None
  Requests <- MCRequests
  Credits = {c1, c2}
  ReceiptLimit = 2
  Workers = {wa, wb}
  Replicas = {a, b}
  Home <- MCHome
  Scopes <- MCScopes
SPECIFICATION Spec
SYMMETRY Symmetry
CONSTRAINT Asked
CHECK_DEADLOCK FALSE
INVARIANTS IInv OneSpend AnswerTruthful
PROPERTIES ReceiptsKept
