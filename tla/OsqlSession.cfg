SPECIFICATION FairSpec
CONSTANTS
  NoSess = NoSess
  Sess = {s1, s2}
  Worlds <- ThreeWorlds
INVARIANTS  NoLeak ClosesItsOwn MeetsItsSanction
PROPERTY IsFreed
CHECK_DEADLOCK FALSE
