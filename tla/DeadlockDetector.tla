-------------------------- MODULE DeadlockDetector --------------------------
(***************************************************************************)
(* The algorithms of the deadlock detector (berkdb/lock/lock_deadlock.c).  *)
(*                                                                         *)
(* A waits-for map is a function from lockers to sets of lockers, the rows *)
(* of the code's bitmap; lockers are numbered as the detector numbers them *)
(* (dd_id).  __dd_find ORs rows in place, in one pass over the rows, and   *)
(* reports deadlocks; __lock_detect_int picks a victim of each with        *)
(* __dd_verify; __dd_find_timestamp closes the rows of distributed         *)
(* transactions, which may only wait for younger ones.                     *)
(***************************************************************************)
EXTENDS Integers, Sequences, FiniteSets, SequencesExt

CONSTANT N   \* number of lockers

Locker == 1..N
InOrder == [i \in 1..N |-> i]

\* The lockers reached from l along map: a reference definition.
Reach(map, l) ==
    LET R[k \in 0..N] == IF k = 0 THEN map[l]
                         ELSE R[k-1] \cup UNION {map[j] : j \in R[k-1]}
    IN  R[N]

OnCycle(map, l) == l \in Reach(map, l)

-----------------------------------------------------------------------------
\* A faulty variant: the pass ends with the bits that were set when it began.
ored_faulty(map, i) ==
    LET r == map[i] \cup UNION {map[j] : j \in map[i]}
    IN  [row |-> r, found |-> i \in r]

\* The inner loop of __dd_find for locker i: the rows of the lockers it waits
\* for are ORed into its own, in order, until its own bit is set.
ored(map, i) ==
    FoldLeft(LAMBDA acc, j : IF acc.found \/ j \notin acc.row THEN acc
                             ELSE LET r == acc.row \cup map[j]
                                  IN  [row |-> r, found |-> i \in r],
             [row |-> map[i], found |-> FALSE], InOrder)

\* __dd_find: the deadlocks, each with the locker it was found at and the map
\* of its row.  Rows change in place, and whoever is in a deadlock is not
\* looked at again.
dd_find(map) ==
    FoldLeft(LAMBDA acc, i :
               IF ~acc.valid[i] THEN acc
               ELSE LET o == ored(acc.map, i)
                    IN  [map   |-> [acc.map EXCEPT ![i] = o.row],
                         valid |-> [j \in Locker |-> acc.valid[j] /\ ~(o.found /\ j \in o.row)],
                         dead  |-> IF o.found THEN Append(acc.dead, [who |-> i, map |-> o.row])
                                   ELSE acc.dead],
             [map |-> map, valid |-> [j \in Locker |-> TRUE], dead |-> <<>>],
             InOrder).dead

-----------------------------------------------------------------------------
\* __dd_verify: without which, some participant of the deadlock is no longer
\* waited for.  A first waiter that also holds counts as waiting for itself.
dd_verify(map, self_wait, deadmap, which) ==
    LET others == deadmap \ {which}
        waited == UNION {map[j] \cup (IF j \in self_wait THEN {j} ELSE {}) : j \in others}
    IN  \/ Cardinality(others) = 1
        \/ ~(others \subseteq waited)

\* The lockers other than i, in the order the detector looks at them.
RoundFrom(i) == [k \in 1..N-1 |-> ((i + k - 1) % N) + 1]

\* The choice of a victim of deadlock d: the locker with the least count that
\* really takes part, or at once one with low priority (killme).  When only
\* the locker we began with is left and it does not take part, the last
\* candidate dies and the detector must run again.
victim(map, self_wait, d, lcount, killme) ==
    LET consider(acc, i) ==
            IF acc.stop \/ i \notin d.map THEN acc
            ELSE IF i \in killme THEN [killid |-> i, keeper |-> acc.killid, stop |-> TRUE]
            ELSE IF lcount[i] > lcount[acc.killid] THEN acc
            ELSE [acc EXCEPT !.keeper = i,
                             !.killid = IF dd_verify(map, self_wait, d.map, i) THEN i ELSE @]
        start == [killid |-> d.who, keeper |-> 0, stop |-> d.who \in killme]
        c     == FoldLeft(consider, start, RoundFrom(d.who))
        again == /\ c.keeper # 0 /\ c.killid = d.who
                 /\ ~dd_verify(map, self_wait, d.map, c.killid)
    IN  [killid |-> IF again THEN c.keeper ELSE c.killid, again |-> again]

-----------------------------------------------------------------------------
\* __dd_find_timestamp: one pass ORs the rows of a locker's set bits into its
\* own row, in place; passes are made until nothing changes, N at most.
or_pass(map, row) ==
    FoldLeft(LAMBDA r, j : IF j \in r THEN r \cup map[j] ELSE r, row, InOrder)
closed(map, l) == FoldLeft(LAMBDA r, k : or_pass(map, r), map[l], InOrder)

\* __dd_abort_timestamp: the distributed transactions that wait, however
\* indirectly, for one that is not younger.
waitdie_victims(map, timestamp) ==
    SelectSeq(InOrder,
              LAMBDA i : /\ timestamp[i] > 0
                         /\ \E j \in closed(map, i) : timestamp[j] > 0 /\ timestamp[i] >= timestamp[j])
=============================================================================
