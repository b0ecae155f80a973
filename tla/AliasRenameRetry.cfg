CONSTANTS
  None = None
  x1 = x1
  x2 = x2
  c1 = c1
  Aliases = {"a", "b"}
  Keys = {"a", "b"}
  KeyOf <- MCKeyOf
  Spellings <- MCSpellings
  Accounts = {x1, x2}
  Clients = {c1}
  Failures = {"index"}
  MaxFaults = 1
  MaxCrashes = 1
  MaxTroubles = 2
SPECIFICATION Spec
SYMMETRY Symmetry
CHECK_DEADLOCK FALSE
PROPERTIES RetryReturns
