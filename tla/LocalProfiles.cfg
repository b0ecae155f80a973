CONSTANTS
  work = work
  home = home
  s1 = s1
  s2 = s2
  w1 = w1
  w2 = w2
  c1 = c1
  c2 = c2
  None = None
  Aliases = {work, home}
  Seats = {s1, s2}
  Generations = {1, 2, 3}
  Worlds <- MCWorlds
  Qualified <- MCQualified
  Commands = {c1, c2}
SPECIFICATION LocalSpec
CONSTRAINT TwoLogins
SYMMETRY Symmetry
CHECK_DEADLOCK FALSE
INVARIANTS LocalIInv RotationKept
PROPERTIES ReplacedOnlyAgreed
