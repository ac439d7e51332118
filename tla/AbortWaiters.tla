---------------------------- MODULE AbortWaiters ----------------------------
(***************************************************************************)
(* __dd_abort_waiters (berkdb/lock/lock_deadlock.c): the sweep with which  *)
(* a transaction that will not give up its locks, a prepared one on a host *)
(* that downgrades, aborts whoever waits for one of its objects.           *)
(*                                                                         *)
(* The waiters are listed under the object's partition lock.  The lock is  *)
(* released, and the lockers of the list are then looked at and aborted    *)
(* one by one while others go on.  Aborting a waiter promotes those behind *)
(* it (__lock_promote).                                                    *)
(*                                                                         *)
(* One object is modelled, held by Keeper throughout.  A locker asks for   *)
(* it once, in the mode given by wants; a retry is another locker.  Of     *)
(* each locker only its last lock (the head of heldby) matters.            *)
(***************************************************************************)
EXTENDS LockQueue, FiniteSets

CONSTANTS Locker,   \* the other lockers
          Earlier,  \* those of them that hold a lock of another object
          Keeper,
          Objects   \* what the object may be: records with
                    \*   wants     the mode each locker asks for
                    \*   kept      the mode in which Keeper holds it
                    \*   detector  the deadlock detector may abort a waiter too

ASSUME LockerAssumption ==
    /\ Keeper \notin Locker /\ Earlier \subseteq Locker
    /\ Objects \subseteq [wants : [Locker -> {"R", "IW", "W"}], kept : {"R", "W"},
                          detector : BOOLEAN]

VARIABLES object,           \* which of Objects this is
          holders, waiters, \* of the object
          status,           \* of the last lock of each locker
          asked,            \* the lockers that have asked for the object
          gone,             \* the lockers that have ended: DB_LOCKER_DELETED or freed
          list,             \* the sweep: lockers that remain to be looked at
          listed,           \* history: all lockers that waited when the sweep began
          pc                \* of the sweep

vars == <<object, holders, waiters, status, asked, gone, list, listed, pc>>

Lock(l) == [id |-> l, mode |-> object.wants[l]]
\* The last lock of a locker that has none of this object.
Before(l) == IF l \in Earlier THEN "HELD" ELSE "none"

Init == /\ object \in Objects
        /\ holders = <<[id |-> Keeper, mode |-> object.kept]>> /\ waiters = <<>>
        /\ status = [l \in Locker |-> Before(l)]
        /\ asked = {} /\ gone = {}
        /\ list = <<>> /\ listed = {} /\ pc = "idle"

\* __lock_promote on holders hs and waiters ws, after st has changed.
Promote(hs, ws, st) ==
    LET k == promoted(hs, ws)
    IN  /\ holders' = hs \o SubSeq(ws, 1, k)
        /\ waiters' = SubSeq(ws, k+1, Len(ws))
        /\ status' = [l \in Locker |-> IF \E i \in 1..k : ws[i].id = l THEN "PENDING" ELSE st[l]]

-----------------------------------------------------------------------------
\* __lock_get_internal: granted when no holder and no waiter conflicts.
lock_get(l) ==
    /\ pc # "crashed"
    /\ l \notin asked
    /\ asked' = asked \cup {l}
    /\ IF \A h \in Range(holders \o waiters) : ~CONFLICTS(h.mode, object.wants[l])
       THEN /\ holders' = Append(holders, Lock(l))
            /\ status' = [status EXCEPT ![l] = "HELD"]
            /\ UNCHANGED waiters
       ELSE /\ waiters' = Append(waiters, Lock(l))
            /\ status' = [status EXCEPT ![l] = "WAITING"]
            /\ UNCHANGED holders
    /\ UNCHANGED <<object, gone, list, listed, pc>>

\* The locker wakes: its lock is granted, or freed and the transaction told
\* DB_LOCK_DEADLOCK.
wake(l) ==
    /\ pc # "crashed"
    /\ \/ status[l] = "PENDING" /\ status' = [status EXCEPT ![l] = "HELD"]
       \/ status[l] = "ABORTED" /\ status' = [status EXCEPT ![l] = Before(l)]
    /\ UNCHANGED <<object, holders, waiters, asked, gone, list, listed, pc>>

\* A locker that has got its lock waits for one of another object, and gets it.
elsewhere(l) ==
    /\ pc # "crashed"
    /\ l \in asked \ gone
    /\ \/ status[l] = "HELD" /\ status' = [status EXCEPT ![l] = "WAITING_OTHER"]
       \/ status[l] = "WAITING_OTHER" /\ status' = [status EXCEPT ![l] = "HELD"]
    /\ UNCHANGED <<object, holders, waiters, asked, gone, list, listed, pc>>

\* lock_vec with DB_LOCK_PUT_ALL at the end of a transaction.
put_all(l) ==
    /\ pc # "crashed"
    /\ l \in asked \ gone /\ status[l] \in {"HELD", "none"}
    /\ gone' = gone \cup {l}
    /\ Promote(SelectSeq(holders, LAMBDA h : h.id # l), waiters, [status EXCEPT ![l] = "none"])
    /\ UNCHANGED <<object, asked, list, listed, pc>>

-----------------------------------------------------------------------------
\* A faulty variant: the array of the list is one too short.
abort_waiters_faulty ==
    /\ pc = "idle" /\ waiters # <<>>
    /\ list' = [i \in 1 .. Len(waiters) - 1 |-> waiters[i].id]
    /\ listed' = {w.id : w \in Range(waiters)}
    /\ pc' = "look"
    /\ UNCHANGED <<object, holders, waiters, status, asked, gone>>

\* The list is made under the object's partition lock.
abort_waiters ==
    /\ pc = "idle" /\ waiters # <<>>
    /\ list' = [i \in DOMAIN waiters |-> waiters[i].id]
    /\ listed' = {w.id : w \in Range(waiters)}
    /\ pc' = "look"
    /\ UNCHANGED <<object, holders, waiters, status, asked, gone>>

\* The next locker of the list: one that has ended is passed over, and so is
\* one whose last lock waits for another object; the database stops when the
\* last lock does not wait at all.
look ==
    /\ pc = "look" /\ list # <<>>
    /\ LET l == Head(list)
       IN  \/ /\ l \in gone \/ status[l] = "WAITING_OTHER"
              /\ list' = Tail(list) /\ UNCHANGED pc
           \/ /\ l \notin gone /\ status[l] \notin {"WAITING", "WAITING_OTHER"}
              /\ pc' = "crashed" /\ UNCHANGED list
           \/ /\ l \notin gone /\ status[l] = "WAITING"
              /\ pc' = "abort" /\ UNCHANGED list
    /\ UNCHANGED <<object, holders, waiters, status, asked, gone, listed>>

\* __dd_abort of a locker that still waits, and __lock_promote.
abort(l) ==
    Promote(holders, SelectSeq(waiters, LAMBDA w : w.id # l), [status EXCEPT ![l] = "ABORTED"])

\* The abort of the sweep: __dd_abort looks again under the locks.
dd_abort ==
    /\ pc = "abort"
    /\ IF status[Head(list)] = "WAITING" THEN abort(Head(list))
       ELSE UNCHANGED <<holders, waiters, status>>
    /\ list' = Tail(list) /\ pc' = "look"
    /\ UNCHANGED <<object, asked, gone, listed>>

\* The deadlock detector aborts a waiter of the object.
detector(l) ==
    /\ pc # "crashed" /\ object.detector
    /\ l \in Earlier /\ status[l] = "WAITING"
    /\ abort(l)
    /\ UNCHANGED <<object, asked, gone, list, listed, pc>>

\* The sweep is over; its caller will sweep again.
swept ==
    /\ pc = "look" /\ list = <<>>
    /\ pc' = "idle"
    /\ UNCHANGED <<object, holders, waiters, status, asked, gone, list, listed>>

Sweep == abort_waiters \/ look \/ dd_abort \/ swept
Next == \/ Sweep
        \/ \E l \in Locker : lock_get(l) \/ wake(l) \/ elsewhere(l) \/ put_all(l) \/ detector(l)

\* abort_prepared_thd and a discarding block processor sweep again and again.
Spec == Init /\ [][Next]_vars /\ WF_vars(Sweep)

-----------------------------------------------------------------------------
TypeOK ==
    /\ object \in Objects
    /\ Range(holders \o waiters) \subseteq
           [id : Locker \cup {Keeper}, mode : {"R", "IW", "W"}]
    /\ status \in [Locker -> {"none", "HELD", "WAITING", "WAITING_OTHER", "PENDING", "ABORTED"}]
    /\ gone \subseteq asked /\ asked \subseteq Locker
    /\ Range(list) \subseteq listed /\ listed \subseteq Locker
    /\ pc \in {"idle", "look", "abort", "crashed"}

\* "This must be blocked (it can't have been promoted)" (lock_deadlock.c:2532):
\* whoever __dd_abort_waiters has listed and that has not ended still waits
\* when its turn comes, or the database stops.  It does as long as the object
\* is a page that Keeper has written, so that no abort promotes anybody, and
\* the detector leaves its waiters alone.
StillBlocked == object.kept = "W" /\ ~object.detector => pc # "crashed"

\* At the end of a sweep nobody waits who waited when it began: everyone has
\* been aborted, or was promoted by the abort of one in front, or has ended.
SweepClears == pc = "look" /\ list = <<>> => \A l \in listed : status[l] # "WAITING"
=============================================================================
