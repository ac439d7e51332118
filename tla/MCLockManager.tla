--------------------------- MODULE MCLockManager ---------------------------
(***************************************************************************)
(* LockManager with small transactions on two objects, and the detector's  *)
(* algorithms on every waits-for map of four lockers.                      *)
(***************************************************************************)
EXTENDS LockManager

CONSTANTS a, b

TwoObj == {a, b}

R(o) == [obj |-> o, mode |-> "R"]
W(o) == [obj |-> o, mode |-> "W"]
IW(o) == [obj |-> o, mode |-> "IW"]

\* Local transactions that write in either order, or write what they have read.
Small == {<<W(a), W(b)>>, <<W(b), W(a)>>, <<R(a), W(a)>>}
Local == [programs  |-> <<{<<R(a), W(a)>>}, {<<W(a), W(b)>>, <<R(a), W(a)>>}, Small>>,
          timestamp |-> <<-1, -1, -1>>,
          nested |-> {}, lowpri |-> {}, readonly |-> {}, retries |-> 0]

\* Table locks, readers and writers of a page, and a lock asked for twice; a
\* retry, a reader that is spared and a locker that goes first.
Mixed == [programs  |-> <<{<<IW(a), R(b)>>, <<R(a), W(b)>>},
                          {<<R(a), R(a)>>, <<W(b), W(a)>>},
                          {<<R(b), W(b)>>, <<IW(a), W(b)>>}>>,
          timestamp |-> <<-1, -1, -1>>,
          nested |-> {}, lowpri |-> {3}, readonly |-> {1}, retries |-> 1]

\* Writers, so that an object has one holder at a time: the first two are
\* distributed, the second the older one.  The first may as well begin with a.
Either == {<<W(a), W(b)>>, <<W(b), W(a)>>}
Distrib == [programs  |-> <<{<<W(a), W(b)>>}, Either, Either>>,
            timestamp |-> <<2, 1, -1>>,
            nested |-> {1, 2}, lowpri |-> {}, readonly |-> {}, retries |-> 0]

ThreeLoads == {Local, Mixed, Distrib}

-----------------------------------------------------------------------------
Four == INSTANCE DeadlockDetector WITH N <- 4

\* Every map of four lockers none of which waits for itself.
Maps == {map \in [1..4 -> SUBSET (1..4)] : \A l \in 1..4 : l \notin map[l]}

\* One pass of __dd_find over the rows, ORed in place, is enough: a deadlock is
\* reported exactly when there is a cycle, at a locker on a cycle, and every
\* cycle has a locker in some reported deadlock.  (It is about the algorithm, on
\* any map whatever, and is evaluated once for each initial state.)
CyclesFound ==
    Init => \A map \in Maps :
        LET ds == Four!dd_find(map)
        IN  /\ \A i \in DOMAIN ds : Four!OnCycle(map, ds[i].who)
            /\ \A l \in 1..4 : Four!OnCycle(map, l) =>
                   \E i \in DOMAIN ds : ds[i].map \cap Four!Reach(map, l) # {}
=============================================================================
