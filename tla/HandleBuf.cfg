SPECIFICATION FairSpec
CONSTANTS
  t1 = t1
  t2 = t2
  t3 = t3
  r1 = r1
  r2 = r2
  w1 = w1
  o1 = o1
  NoReq = NoReq
  Thd = {t1, t2, t3}
  Reads = {r1, r2}
  Writes = {w1, o1}
  Offloads = {o1}
  maxthreads = 2
  maxwthreads = 1
  maxqueue = 1
  MaxPenalty = 1
  MaxIO = 1
  linger = 1
INVARIANTS ReadsInStep CountsAreTrue QueueIsAttended NoReadLeftOver
PROPERTIES Answered CoalesceReturns
CHECK_DEADLOCK FALSE
