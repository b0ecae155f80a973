CONSTANTS
  s1 = s1
  s2 = s2
  t1 = t1
  t2 = t2
  Accounts = {"a", "b"}
  Stated = {"a"}
  Server = Server
  NoThread = NoThread
  Threads = {t1, t2}
  Switchers = {s1, s2}
  Frames <- MCFrames
  MaxFrames = 3
  MaxPending = 3
  MaxHeld = 5
  NoFrame = NoFrame
  x1 = x1
  Sessions = {x1}
  Budget <- MCBudget
  Idle = 1
  Evict = 2
  PruneEvery = 1
  BaseDelay = 1
  MaxDelay = 2
  Doublings = 1
  Upstream = {0, 4}
  MaxNow = 7
  MaxOpen = 2
  MaxTurns = 3
  MaxPendingStops = 2
  InspectLimit = 2
  k1 = k1
  k2 = k2
  Commands = {k1, k2}
  Relays = {"r1"}
  Direct = "direct"
  None = None
  Lanes = {1, 2, 3}
  NoLane = 0
  RecoveryLimit = 1
  Hour = 1
  MaxClock = 1
  MaxWorks = 1
  MaxAsking = 1
SPECIFICATION ClientSpec
CHECK_DEADLOCK FALSE
INVARIANTS
  DaemonIInv
  RelayIInv
  ProviderIInv
  RecoveryIInv
  StateCapIInv
PROPERTIES FinishedLeftAlone
