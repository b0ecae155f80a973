CONSTANTS
  g1 = g1
  g2 = g2
  m1 = m1
  b1 = b1
  l1 = l1
  l2 = l2
  None = None
  Ids = {g1, g2}
  Managers = {m1}
  Borrowers = {b1}
  Logins = {l1, l2}
  Mirrored = {}
  MaxTime = 1
  Window = 1
  Cooldown = 2
  Retention = 3
  Identities = {"old", "new1", "new2"}
  Attempts = {1, 2}
  DeviceCodes = {"d1"}
  Browsers = {"b1", "b2"}
  Nobody = Nobody
  Places = 1
  DeviceTTL = 1
  SessionTTL = 2
  Recent = 0
  LastDay = 1
SPECIFICATION ServerSpec
SYMMETRY Symmetry
CHECK_DEADLOCK FALSE
INVARIANTS LoanIInv CapacityIInv EnrollmentIInv AdmissionIInv MigrationIInv
PROPERTIES LoanSteps BackfillSafe
