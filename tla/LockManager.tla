---------------------------- MODULE LockManager ----------------------------
(***************************************************************************)
(* The lock manager and when its deadlock detector runs (berkdb/lock).     *)
(*                                                                         *)
(* A locker runs a transaction: a sequence of lock requests, then the      *)
(* release of everything (lock_vec with DB_LOCK_PUT_ALL).  lock_get grants *)
(* a lock, queues the request, or, for a distributed transaction that      *)
(* would wait for an older one, returns DB_LOCK_DEADLOCK at once           *)
(* (wait-die).  Before it blocks, a locker runs the detector unless one is *)
(* queued already; so does a release that promotes nobody.  The detector   *)
(* reads the objects one at a time while others move on, first aborts      *)
(* distributed transactions, reads again, and aborts one victim of each    *)
(* deadlock it finds.                                                      *)
(*                                                                         *)
(* What the transactions of comdb2 do not use is left out: upgrades of     *)
(* queue cursors, dirty reads, lock timeouts, and the flags of row locks.  *)
(* A transaction with its children is one locker.                          *)
(***************************************************************************)
EXTENDS DeadlockDetector, LockQueue

CONSTANTS Obj,         \* lock objects
          Loads        \* what the lockers are, and what they run: records with
                       \*   programs   the transactions each may run: sequences of requests
                       \*   timestamp  of each; not positive when not distributed
                       \*   nested     lockers that have a master locker
                       \*   lowpri     lockers with DB_LOCKER_KILLME
                       \*   readonly   lockers with DB_LOCKER_READONLY
                       \*   retries    bound on the retries of a transaction

VARIABLES load,        \* which of Loads this is
          program,     \* of each locker
          pc, step,    \* where each locker is, and the requests it has been granted
          after,       \* where it goes on once the detector has run
          holders, waiters, \* of each object, in order
          heldby,      \* of each locker, the last lock first
          status,      \* of the request a locker waits for
          wstatus,     \* the lockers in waiting status
          priority,    \* of each locker: its count when it was last aborted
          retries,
          run_dd,      \* a release of this locker asks for a detector run
          need_dd, q,  \* the region's need_dd; a detector run is queued
          dd           \* the detector run that has dlock

locks == <<holders, waiters, heldby, status>>
lockers == <<load, program, step, after, wstatus, priority, retries, run_dd>>
vars == <<locks, lockers, pc, need_dd, q, dd>>

None == 0
Idle == [by |-> None, phase |-> "none", ids |-> {}, todo |-> {}, map |-> [l \in Locker |-> {}],
         self_wait |-> {}, last |-> [l \in Locker |-> <<>>], lcount |-> [l \in Locker |-> 0],
         victims |-> <<>>]

Init == /\ load \in Loads
        /\ program \in [Locker -> UNION Range(load.programs)]
        /\ \A l \in Locker : program[l] \in load.programs[l]
        /\ pc = [l \in Locker |-> "run"] /\ step = [l \in Locker |-> 0]
        /\ after = [l \in Locker |-> "none"]
        /\ holders = [o \in Obj |-> <<>>] /\ waiters = [o \in Obj |-> <<>>]
        /\ heldby = [l \in Locker |-> <<>>]
        /\ status = [l \in Locker |-> "none"]
        /\ wstatus = {}
        /\ priority = [l \in Locker |-> 0] /\ retries = [l \in Locker |-> 0]
        /\ run_dd = [l \in Locker |-> FALSE]
        /\ need_dd = FALSE /\ q = FALSE
        /\ dd = Idle

-----------------------------------------------------------------------------
\* Object o with holders hs and waiters ws, once promotion has run; the
\* promoted are woken with their locks pending, and dead gets its status.
Promote(o, hs, ws, dead, why) ==
    LET k  == promoted(hs, ws)
        up == {ws[i].id : i \in 1..k}
    IN  /\ holders' = [holders EXCEPT ![o] = hs \o SubSeq(ws, 1, k)]
        /\ waiters' = [waiters EXCEPT ![o] = SubSeq(ws, k+1, Len(ws))]
        /\ status' = [l \in Locker |-> IF l \in up THEN "PENDING"
                                       ELSE IF l = dead THEN why ELSE status[l]]

-----------------------------------------------------------------------------
Request(l) == program[l][step[l] + 1]

\* The holders and waiters of its object that a request of l conflicts with.
Against(l, r, seq) == {i \in DOMAIN seq : seq[i].id # l /\ CONFLICTS(seq[i].mode, r.mode)}

timestamp == load.timestamp

older(l, h) == timestamp[h] > 0 /\ timestamp[l] >= timestamp[h]

\* A distributed transaction dies when the first conflicting holder is older,
\* or else, unless the lock will be granted because it holds the object
\* already, when any waiter is.
waitdie(l, r) ==
    LET hs    == holders[r.obj]
        con   == Against(l, r, hs)
        ihold == \E h \in Range(hs) : h.id = l
    IN  /\ timestamp[l] > 0
        /\ \/ \E i \in con : (\A j \in con : i <= j) /\ older(l, hs[i].id)
           \/ /\ ~(ihold /\ con = {})
              /\ \E w \in Range(waiters[r.obj]) : w.id # l /\ older(l, w.id)

\* A faulty variant: the waiters are not looked at.
grantable_faulty(l, r) == Against(l, r, holders[r.obj]) = {}

\* Nobody that holds conflicts, and nobody that waits either, unless the
\* locker holds the object already.
grantable(l, r) ==
    /\ Against(l, r, holders[r.obj]) = {}
    /\ \/ \E h \in Range(holders[r.obj]) : h.id = l
       \/ Against(l, r, waiters[r.obj]) = {}

HasIt(l, r) == \E h \in Range(holders[r.obj]) : h.id = l /\ h.mode = r.mode /\ h.held

Turn(l) == pc[l] = "run" /\ step[l] < Len(program[l])

\* lock_get of a lock it has already: one more reference.
lock_again(l) ==
    /\ Turn(l) /\ ~waitdie(l, Request(l)) /\ HasIt(l, Request(l))
    /\ step' = [step EXCEPT ![l] = @ + 1]
    /\ UNCHANGED <<locks, pc, load, program, after, wstatus, priority, retries, run_dd, need_dd, q, dd>>

lock_grant(l) ==
    LET r == Request(l)
    IN  /\ Turn(l) /\ ~waitdie(l, r) /\ ~HasIt(l, r) /\ grantable(l, r)
        /\ holders' = [holders EXCEPT ![r.obj] = Append(@, [id |-> l, mode |-> r.mode, held |-> TRUE])]
        /\ heldby' = [heldby EXCEPT ![l] = <<r>> \o @]
        /\ step' = [step EXCEPT ![l] = @ + 1]
        /\ wstatus' = wstatus \ {l}
        /\ UNCHANGED <<waiters, status, pc, load, program, after, priority, retries, run_dd, need_dd, q, dd>>

\* A faulty variant: a locker without a master never runs the detector.
no_dd_faulty(l) == l \notin load.nested

\* Nobody can wait for a locker that holds nothing.
no_dd(l) == l \notin load.nested /\ heldby[l] = <<>>

\* The request is queued, and the locker runs the detector before it blocks.
lock_wait(l) ==
    LET r == Request(l)
    IN  /\ Turn(l) /\ ~waitdie(l, r) /\ ~HasIt(l, r) /\ ~grantable(l, r)
        /\ waiters' = [waiters EXCEPT ![r.obj] = Append(@, [id |-> l, mode |-> r.mode, held |-> FALSE])]
        /\ heldby' = [heldby EXCEPT ![l] = <<r>> \o @]
        /\ status' = [status EXCEPT ![l] = "WAITING"]
        /\ need_dd' = TRUE
        /\ wstatus' = wstatus \cup {l}
        /\ pc' = [pc EXCEPT ![l] = IF no_dd(l) THEN "wait" ELSE "detect"]
        /\ after' = [after EXCEPT ![l] = "wait"]
        /\ UNCHANGED <<holders, load, program, step, priority, retries, run_dd, q, dd>>

\* Wait-die: the transaction aborts without having been queued.
lock_die(l) ==
    /\ Turn(l) /\ waitdie(l, Request(l))
    /\ pc' = [pc EXCEPT ![l] = "die"]
    /\ UNCHANGED <<locks, lockers, need_dd, q, dd>>

-----------------------------------------------------------------------------
\* The locker wakes with its lock, or with the detector's verdict.
lock_woken(l) ==
    /\ pc[l] = "wait" /\ status[l] # "WAITING"
    /\ status' = [status EXCEPT ![l] = "none"]
    /\ \/ /\ status[l] = "PENDING"
          /\ LET o == Head(heldby[l]).obj
             IN  holders' = [holders EXCEPT ![o] = [i \in DOMAIN @ |->
                                IF @[i].id = l /\ ~@[i].held THEN [@[i] EXCEPT !.held = TRUE] ELSE @[i]]]
          /\ step' = [step EXCEPT ![l] = @ + 1]
          /\ wstatus' = wstatus \ {l}
          /\ pc' = [pc EXCEPT ![l] = "run"]
          /\ UNCHANGED heldby
       \/ /\ status[l] \in {"ABORTED", "WAITDIE"}
          /\ heldby' = [heldby EXCEPT ![l] = Tail(@)]
          /\ pc' = [pc EXCEPT ![l] = IF status[l] = "ABORTED" THEN "abort" ELSE "die"]
          /\ UNCHANGED <<holders, step, wstatus>>
    /\ UNCHANGED <<waiters, load, program, after, priority, retries, run_dd, need_dd, q, dd>>

\* A transaction that has all its locks ends.
commit(l) ==
    /\ pc[l] = "run" /\ step[l] = Len(program[l])
    /\ pc' = [pc EXCEPT ![l] = "commit"]
    /\ UNCHANGED <<locks, lockers, need_dd, q, dd>>

\* A release asks for a detector run when there are waiters and none of them
\* was promoted, or when one is needed anyway.
asks(ws, k) == (ws # <<>> /\ k = 0) \/ need_dd

Ending == {"commit", "abort", "die"}

\* DB_LOCK_PUT_ALL releases one lock after the other, the last first.
lock_put(l) ==
    /\ pc[l] \in Ending /\ heldby[l] # <<>>
    /\ LET r  == Head(heldby[l])
           hs == SelectSeq(holders[r.obj], LAMBDA h : ~(h.id = l /\ h.mode = r.mode))
           ws == waiters[r.obj]
       IN  /\ Promote(r.obj, hs, ws, None, "none")
           /\ run_dd' = [run_dd EXCEPT ![l] = @ \/ asks(ws, promoted(hs, ws))]
    /\ heldby' = [heldby EXCEPT ![l] = Tail(@)]
    /\ UNCHANGED <<pc, load, program, step, after, wstatus, priority, retries, need_dd, q, dd>>

\* The victim of a deadlock is retried; the victim of wait-die is not, for its
\* distributed transaction fails with a verify error.
Rests(l) == IF pc[l] = "abort" /\ retries[l] < load.retries THEN "again" ELSE "end"

\* Everything is released: the detector runs if a release asked for it, and
\* the transaction is retried, or is over.
lock_put_end(l) ==
    /\ pc[l] \in Ending /\ heldby[l] = <<>>
    /\ run_dd' = [run_dd EXCEPT ![l] = FALSE]
    /\ wstatus' = wstatus \ {l}
    /\ after' = [after EXCEPT ![l] = Rests(l)]
    /\ pc' = [pc EXCEPT ![l] = IF run_dd[l] \/ need_dd THEN "detect" ELSE Rests(l)]
    /\ UNCHANGED <<locks, load, program, step, priority, retries, need_dd, q, dd>>

\* The retry of an aborted transaction keeps its timestamp and its priority.
retry(l) ==
    /\ pc[l] = "again"
    /\ pc' = [pc EXCEPT ![l] = "run"]
    /\ step' = [step EXCEPT ![l] = 0]
    /\ retries' = [retries EXCEPT ![l] = @ + 1]
    /\ UNCHANGED <<locks, load, program, after, wstatus, priority, run_dd, need_dd, q, dd>>

-----------------------------------------------------------------------------
\* __lock_detect: nothing to do when a run is queued.
detect_skip(l) ==
    /\ pc[l] = "detect" /\ q
    /\ pc' = [pc EXCEPT ![l] = after[l]]
    /\ UNCHANGED <<locks, lockers, need_dd, q, dd>>

detect_queue(l) ==
    /\ pc[l] = "detect" /\ ~q
    /\ q' = TRUE
    /\ pc' = [pc EXCEPT ![l] = "queued"]
    /\ UNCHANGED <<locks, lockers, need_dd, dd>>

WithWaiters == {o \in Obj : waiters[o] # <<>>}
Alive == {l \in Locker : pc[l] # "end" /\ pc[l] # "again"}

\* The count a victim is chosen by: the priority it has from earlier aborts and
\* its write locks; readers without either are spared (DB_LOCK_MINWRITE_EVER).
Spared == 2147483646
lcount(l) ==
    LET held == IF status[l] = "WAITING" THEN Tail(heldby[l]) ELSE heldby[l]
        n    == priority[l] + Len(SelectSeq(held, LAMBDA r : r.mode \in {"W", "IW"}))
    IN  IF n = 0 /\ l \in load.readonly THEN Spared ELSE n

\* A pass of __dd_build begins with the lockers it is about.
Pass(l, phase, ids) ==
    [Idle EXCEPT !.by = l, !.phase = phase, !.ids = ids, !.todo = WithWaiters,
                 !.lcount = [i \in Locker |-> lcount(i)]]

\* The run has dlock: whoever waits from now on queues another one.
detect_start(l) ==
    /\ pc[l] = "queued" /\ dd.by = None
    /\ pc' = [pc EXCEPT ![l] = "dd"]
    /\ q' = FALSE
    /\ need_dd' = FALSE
    /\ dd' = Pass(l, "timestamps", wstatus \cup {i \in Alive : timestamp[i] > 0})
    /\ UNCHANGED <<locks, lockers>>

\* __dd_build at one object: every waiter waits for every holder; the first
\* waiter not for itself.
dd_build(o) ==
    LET held  == {h.id : h \in {x \in Range(holders[o]) : x.held}} \cap dd.ids
        ws    == waiters[o]
        wait  == {i \in DOMAIN ws : ws[i].id \in dd.ids}
        first == {ws[i].id : i \in wait \cap {1}}
        row(l) == held \ (IF l \in first THEN {l} ELSE {})
    IN  /\ o \in dd.todo
        /\ dd' = [dd EXCEPT !.todo = @ \ {o},
                            !.map = [l \in Locker |-> IF l \in {ws[i].id : i \in wait}
                                                      THEN @[l] \cup row(l) ELSE @[l]],
                            !.self_wait = @ \cup (first \cap held)]
        /\ UNCHANGED <<locks, lockers, pc, need_dd, q>>

\* The object has lost its waiters under the detector, which starts over.
dd_restart(o) ==
    /\ o \in dd.todo /\ waiters[o] = <<>>
    /\ dd' = [dd EXCEPT !.todo = WithWaiters, !.map = Idle.map]
    /\ UNCHANGED <<locks, lockers, pc, need_dd, q>>

LastLock == [l \in Locker |-> IF heldby[l] = <<>> THEN <<>> ELSE <<Head(heldby[l])>>]

\* A faulty variant: the pass is made only when every locker is distributed.
Distributed_faulty == \A l \in dd.ids : timestamp[l] > 0

Distributed == \E l \in dd.ids : timestamp[l] > 0

\* The map is read, and the last lock of each locker; first the victims of
\* wait-die.
dd_timestamps ==
    /\ dd.phase = "timestamps" /\ dd.todo = {} /\ Distributed
    /\ need_dd' = FALSE
    /\ dd' = [dd EXCEPT !.phase = "waitdie", !.last = LastLock,
                        !.victims = waitdie_victims(dd.map, timestamp)]
    /\ UNCHANGED <<locks, lockers, pc, q>>

\* The map is read again without the locks of those aborted.
dd_again ==
    /\ dd.phase = "waitdie" /\ dd.victims = <<>>
    /\ dd' = Pass(dd.by, "deadlocks", wstatus)
    /\ UNCHANGED <<locks, lockers, pc, need_dd, q>>

\* The deadlocks of the map, and a victim of each.
dd_deadlocks ==
    LET ds == dd_find(dd.map)
        vs == [i \in DOMAIN ds |-> victim(dd.map, dd.self_wait, ds[i], dd.lcount, load.lowpri)]
    IN  /\ dd.phase = "deadlocks" \/ (dd.phase = "timestamps" /\ ~Distributed)
        /\ dd.todo = {}
        /\ need_dd' = \E i \in DOMAIN vs : vs[i].again
        /\ dd' = [dd EXCEPT !.phase = "abort", !.last = LastLock,
                            !.victims = [i \in DOMAIN vs |-> vs[i].killid]]
        /\ UNCHANGED <<locks, lockers, pc, q>>

\* __dd_abort: the victim is aborted if it still waits for the same lock; the
\* waiters behind it may be promoted.
dd_abort ==
    LET v == Head(dd.victims)
        r == Head(heldby[v])
        waits == heldby[v] # <<>> /\ dd.last[v] = <<r>> /\ status[v] = "WAITING"
    IN  /\ dd.victims # <<>>
        /\ IF waits
           THEN /\ Promote(r.obj, holders[r.obj], SelectSeq(waiters[r.obj], LAMBDA w : w.id # v),
                           v, IF dd.phase = "waitdie" THEN "WAITDIE" ELSE "ABORTED")
                /\ priority' = [priority EXCEPT ![v] = dd.lcount[v]]
                /\ UNCHANGED need_dd
           ELSE /\ need_dd' = (need_dd \/ (v \in Alive /\ heldby[v] = <<>>))
                /\ UNCHANGED <<holders, waiters, status, priority>>
        /\ dd' = [dd EXCEPT !.victims = Tail(@)]
        /\ UNCHANGED <<heldby, pc, load, program, step, after, wstatus, retries, run_dd, q>>

\* The run is over; the locker blocks, or goes on.
dd_end ==
    /\ dd.phase = "abort" /\ dd.victims = <<>>
    /\ pc' = [pc EXCEPT ![dd.by] = after[dd.by]]
    /\ dd' = Idle
    /\ UNCHANGED <<locks, lockers, need_dd, q>>

Done == (\A l \in Locker : pc[l] = "end") /\ UNCHANGED vars

Own(l) == \/ lock_again(l) \/ lock_grant(l) \/ lock_wait(l) \/ lock_die(l)
          \/ lock_woken(l) \/ commit(l) \/ lock_put(l) \/ lock_put_end(l) \/ retry(l)
          \/ detect_skip(l) \/ detect_queue(l) \/ detect_start(l)

Detector == \/ \E o \in Obj : dd_build(o) \/ dd_restart(o)
            \/ dd_timestamps \/ dd_again \/ dd_deadlocks \/ dd_abort \/ dd_end

Next == (\E l \in Locker : Own(l)) \/ Detector \/ Done

Spec == Init /\ [][Next]_vars

-----------------------------------------------------------------------------
Row == [id : Locker, mode : {"R", "W", "IW", "IR"}, held : BOOLEAN]

\* Every variable keeps its type; a pending lock belongs to a locker that has
\* yet to wake.
TypeOK ==
    /\ \A o \in Obj : holders[o] \in Seq(Row) /\ waiters[o] \in Seq(Row)
    /\ pc \in [Locker -> {"run", "wait", "detect", "queued", "dd", "again", "end"} \cup Ending]
    /\ status \in [Locker -> {"none", "WAITING", "PENDING", "ABORTED", "WAITDIE"}]
    /\ \A l \in Locker : step[l] \in 0..Len(program[l]) /\ retries[l] \in 0..load.retries
    /\ dd.by \in Locker \cup {None}
    /\ \A o \in Obj : \A i \in 1..Len(holders[o]) :
           ~holders[o][i].held => status[holders[o][i].id] = "PENDING"

\* Two lockers never hold an object in conflicting modes, whether a lock was
\* granted at once or by promotion (lock_get, __lock_promote).
HoldersAgree ==
    \A o \in Obj : \A i, j \in 1..Len(holders[o]) :
        holders[o][i].id # holders[o][j].id => ~CONFLICTS(holders[o][i].mode, holders[o][j].mode)

\* Whom a blocked locker really waits for: the holders it conflicts with and
\* the waiters before it that it conflicts with.
WaitsFor(l) ==
    IF status[l] # "WAITING" THEN {}
    ELSE LET r  == Head(heldby[l])
             ws == waiters[r.obj]
             me == CHOOSE i \in DOMAIN ws : ws[i].id = l
         IN  {holders[r.obj][i].id : i \in Against(l, r, holders[r.obj])}
                 \cup {ws[i].id : i \in Against(l, r, ws) \cap 1..me-1}
Graph == [l \in Locker |-> WaitsFor(l)]

\* A detector run is on its way, or somebody is about to release its locks.
Coming == \/ q \/ dd.by # None
          \/ \E l \in Locker : pc[l] \in {"detect"} \cup Ending \/ status[l] \in {"ABORTED", "WAITDIE"}

\* A deadlock is never left alone: a detector run is on its way, or a release
\* that will ask for one (__lock_detect's queue, the state_changed of
\* __lock_put_internal, need_dd).
NoDeadlockLeft == Coming \/ \A l \in Locker : ~OnCycle(Graph, l)

\* Once the detector is quiet, no distributed transaction waits, however
\* indirectly, for one that is not younger; so the waits of several databases
\* together have no cycle (wait-die, __dd_abort_timestamp).
WaitsForYounger ==
    Coming \/ \A l \in Locker : timestamp[l] > 0 =>
                  \A h \in Reach(Graph, l) : timestamp[h] > 0 => timestamp[l] < timestamp[h]

\* Nobody gets an object past a waiter it conflicts with, unless it holds the
\* object already: writers do not starve behind readers (lock_get).
NoOvertaking ==
    [][\A o \in Obj, l \in Locker :
          ~(\E h \in Range(holders[o]) : h.id = l) =>
              \A h \in Range(holders'[o]) : h.id = l =>
                  \A w \in Range(waiters[o]) \cap Range(waiters'[o]) :
                      \/ ~CONFLICTS(w.mode, h.mode)
                      \/ \E i, j \in DOMAIN waiters[o] :
                            i < j /\ waiters[o][i].id = l /\ waiters[o][j] = w]_vars
=============================================================================
