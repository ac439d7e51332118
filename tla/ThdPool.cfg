CONSTANTS
 i1=i1 i2=i2 i3=i3 t1=t1 t2=t2 t3=t3 NoThd=NoThd NoItem=NoItem
 Threads = {t1, t2}
 Items = {i1, i2, i3}
 Flags <- MixedFlags
 MaxThreads = {1, 2}
 minnthd = 1
 maxqueue = 1
 maxqueueoverride = 1
 lingersecs = TRUE
 maxqueueagems = TRUE
 Waits = {TRUE, FALSE}
 Consumers = {i1}
SPECIFICATION FairSpec
CHECK_DEADLOCK FALSE
INVARIANTS WorkConserved QueuedOnlyWhenBusy DestroyedAfterWork
PROPERTIES WorkIsDone StopDrains
