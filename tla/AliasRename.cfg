CONSTANTS
  None = None
  x1 = x1
  x2 = x2
  c1 = c1
  Aliases = {"a", "A", "b", "c"}
  Keys = {"a", "b", "c"}
  KeyOf <- MCKeyOf
  Spellings <- MCSpellings
  Accounts = {x1, x2}
  Clients = {c1}
  Failures = {"stop", "snapshot", "intent", "save", "move", "tombstone", "clear", "launch"}
  MaxFaults = 1
  MaxCrashes = 2
  MaxTroubles = 2
SPECIFICATION FairSpec
CHECK_DEADLOCK FALSE
INVARIANTS IInv
PROPERTIES StaleNeverServed ImplementsBook RetryReturns RestartFinishes
