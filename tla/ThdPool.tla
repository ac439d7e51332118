------------------------------ MODULE ThdPool ------------------------------
(***************************************************************************)
(* The generic thread pool (util/thdpool.c).  Every request thread of the  *)
(* database hands its work to a pool of this kind: SQL statements, socket   *)
(* requests, page faults, the log apply of a replicant.                    *)
(*                                                                         *)
(* One step is one critical section under pool->mutex.  The mutex is        *)
(* released only inside the condition waits, so those are where the steps   *)
(* of thdpool_enqueue and of thdpool_thd are cut.  A caller enqueues one    *)
(* item, with the flags Flags[item]; struct thd objects are the slots in    *)
(* Threads, reused after a thread has exited.                              *)
(***************************************************************************)
EXTENDS Naturals, FiniteSets, Listc

CONSTANTS
  Threads,           \* slots for struct thd, a bound on live threads
  Items,             \* work items, each enqueued by a caller of its own
  Flags,             \* [Items -> SUBSET FlagNames], the arguments of the call
  MaxThreads,        \* the values maxnthd is set to (0: no limit)
  minnthd, maxqueue, maxqueueoverride,
  lingersecs,        \* BOOLEAN: does an excess thread linger before it exits
  maxqueueagems,     \* BOOLEAN: are items that queued too long dropped
  Waits,             \* the values wait may have: does enqueue block while no
                     \* thread is free
  Consumers,         \* items whose work registers as a waiting consumer
  NoThd, NoItem

FlagNames == {"override", "front", "dispatch", "force", "queueonly"}

ASSUME PoolAssumption ==
  /\ Flags \in [Items -> SUBSET FlagNames]
  /\ MaxThreads \subseteq Nat /\ MaxThreads # {}
  /\ minnthd \in Nat /\ maxqueue \in Nat /\ maxqueueoverride \in Nat
  /\ lingersecs \in BOOLEAN /\ maxqueueagems \in BOOLEAN /\ Waits \subseteq BOOLEAN
  /\ Consumers \subseteq Items
  /\ NoThd \notin Threads /\ NoItem \notin Items
  /\ IsFiniteSet(Threads)

VARIABLES
  stopped, maxnthd, wait, nactthd, nwaitthd, waiting_for_thread,
  thdlist,      \* set of threads counted by the pool
  freelist,     \* LIFO list of threads waiting for work
  queue,        \* FIFO of items
  pc,           \* where each thread is
  ts,           \* is the thread's wait timed
  check_exit,   \* local of thdpool_thd
  slot,         \* thd->work: the item handed to the thread
  cur,          \* the local copy the thread works on
  call,         \* the state of each caller of thdpool_enqueue
  mine,         \* the local thd of a blocked caller
  runs,         \* how often work_fn was called for the item
  consuming,    \* items now counted in nwaitthd
  destroyed

poolVars == <<stopped, maxnthd, wait, nwaitthd, consuming, destroyed>>
listVars == <<thdlist, freelist, queue>>
thdVars  == <<pc, ts, check_exit, slot, cur, nactthd>>
callVars == <<call, mine, waiting_for_thread>>
vars == <<poolVars, listVars, thdVars, callVars, runs>>

PC == {"none", "start", "loop", "wait", "woken", "timedout", "run", "check", "exit"}
Calls == {"idle", "blocked", "signalled", "ok", "failed"}

(* thdpool_create, followed by the setters of the pool's owner. *)
Init ==
  /\ stopped = FALSE /\ maxnthd \in MaxThreads /\ wait \in Waits
  /\ nactthd = 0 /\ nwaitthd = 0
  /\ waiting_for_thread = FALSE
  /\ thdlist = {} /\ freelist = <<>> /\ queue = <<>>
  /\ pc = [t \in Threads |-> "none"]
  /\ ts = [t \in Threads |-> FALSE]
  /\ check_exit = [t \in Threads |-> FALSE]
  /\ slot = [t \in Threads |-> NoItem]
  /\ cur = [t \in Threads |-> NoItem]
  /\ call = [i \in Items |-> "idle"]
  /\ mine = [i \in Items |-> NoThd]
  /\ runs = [i \in Items |-> 0]
  /\ consuming = {} /\ destroyed = FALSE

Has(i, f) == f \in Flags[i]
NThds == Cardinality(thdlist)
Live(t) == pc[t] \notin {"none", "exit"}

(* No caller is inside thdpool_enqueue. *)
NobodyInside == \A i \in Items : call[i] \notin {"blocked", "signalled"}

(* pthread_cond_signal on thd->cond: lost unless the thread waits. *)
Signalled(p, t) == IF t # NoThd /\ p[t] = "wait" THEN [p EXCEPT ![t] = "woken"] ELSE p

-----------------------------------------------------------------------------
(* thdpool_enqueue *)

(* A thread may be created: forced, no limit, or below the limit. *)
may_create(i) == Has(i, "dispatch") \/ maxnthd = 0 \/ NThds < maxnthd + nwaitthd

(* Is there room on the queue for i? *)
may_queue(i) ==
  \/ Len(queue) < maxqueue
  \/ Has(i, "force")
  \/ /\ Has(i, "override")
     /\ \/ Has(i, "front")
        \/ maxqueueoverride = 0
        \/ Len(queue) < maxqueue + maxqueueoverride

Return(i, rc) == call' = [call EXCEPT ![i] = rc] /\ mine' = [mine EXCEPT ![i] = NoThd]

(* Hand the item over: to thd itself, or to the queue, waking thd if there   *)
(* is one.  p is the thread states with a thread just created.              *)
hand_over(i, thd, p) ==
  IF thd # NoThd /\ ~Has(i, "queueonly")
  THEN /\ slot' = [slot EXCEPT ![thd] = i]
       /\ pc' = Signalled(p, thd)
       /\ Return(i, "ok") /\ UNCHANGED queue
  ELSE IF may_queue(i)
  THEN /\ queue' = IF Has(i, "front") THEN <<i>> \o queue ELSE Append(queue, i)
       /\ pc' = Signalled(p, thd)
       /\ Return(i, "ok") /\ UNCHANGED slot
  ELSE /\ pc' = p
       /\ Return(i, "failed") /\ UNCHANGED <<queue, slot>>

(* Wait for a thread to reach its loop. *)
block(i, thd) ==
  /\ waiting_for_thread' = TRUE
  /\ call' = [call EXCEPT ![i] = "blocked"]
  /\ mine' = [mine EXCEPT ![i] = thd]
  /\ UNCHANGED <<queue, slot>>

(* The part from label "again": take a free thread, or create one, or none. *)
again(i, waiting) ==
  \/ /\ freelist # <<>>
     /\ freelist' = Tail(freelist)
     /\ hand_over(i, Head(freelist), pc)
     /\ waiting_for_thread' = waiting /\ UNCHANGED thdlist
  \/ \E t \in Threads :
       /\ freelist = <<>> /\ may_create(i) /\ pc[t] = "none"
       /\ thdlist' = thdlist \cup {t}
       /\ UNCHANGED freelist
       /\ IF Has(i, "queueonly")
          THEN block(i, t) /\ pc' = [pc EXCEPT ![t] = "start"]
          ELSE hand_over(i, t, [pc EXCEPT ![t] = "start"]) /\ waiting_for_thread' = waiting
  \/ /\ freelist = <<>> /\ ~may_create(i)
     /\ UNCHANGED <<thdlist, freelist>>
     /\ IF wait THEN block(i, NoThd) /\ UNCHANGED pc
        ELSE hand_over(i, NoThd, pc) /\ waiting_for_thread' = waiting

(* The call up to its first wait or its return.  The pool whose callers wait *)
(* (recovery_processors) has one caller, the thread that applies the log.    *)
thdpool_enqueue(i) ==
  /\ call[i] = "idle" /\ ~destroyed
  /\ wait => NobodyInside
  /\ \/ Return(i, "failed")      \* the pool is stopped, or out of memory
        /\ UNCHANGED <<listVars, pc, slot, waiting_for_thread>>
     \/ ~stopped /\ again(i, waiting_for_thread)
  /\ UNCHANGED <<poolVars, runs, ts, check_exit, cur, nactthd>>

(* The caller returns from its wait on wait_for_thread. *)
enqueue_resume(i) ==
  /\ call[i] = "signalled"
  /\ IF Has(i, "queueonly")
     THEN /\ waiting_for_thread' = FALSE
          /\ hand_over(i, mine[i], pc)
          /\ UNCHANGED <<thdlist, freelist>>
     ELSE again(i, FALSE)
  /\ UNCHANGED <<poolVars, runs, ts, check_exit, cur, nactthd>>

-----------------------------------------------------------------------------
(* thdpool_thd *)

(* The thread begins to run. *)
thd_started(t) ==
  /\ pc[t] = "start" /\ ~destroyed
  /\ pc' = [pc EXCEPT ![t] = "loop"]
  /\ nactthd' = nactthd + 1
  /\ UNCHANGED <<poolVars, listVars, callVars, runs, ts, check_exit, slot, cur>>

(* pool->thdlist holds more threads than the limit. *)
too_many == maxnthd > 0 /\ NThds > maxnthd + nwaitthd

(* Leave the pool's lists. *)
leave(t) ==
  /\ thdlist' = thdlist \ {t}
  /\ freelist' = listc_rfl(freelist, t)
  /\ pc' = [pc EXCEPT ![t] = "exit"]

(* get_work_ll found nothing: exit, or go on the free list and wait. *)
no_work(t, thr_exit, timed) ==
  LET excess == NThds > minnthd /\ ~timed IN
  IF stopped \/ thr_exit \/ (excess /\ ~lingersecs)
  THEN leave(t) /\ UNCHANGED ts
  ELSE /\ freelist' = IF t \in Range(freelist) THEN freelist ELSE <<t>> \o freelist
       /\ pc' = [pc EXCEPT ![t] = "wait"]
       /\ ts' = [ts EXCEPT ![t] = timed \/ excess]
       /\ UNCHANGED thdlist

(* get_work_ll and what follows it: the item in the thread's own slot first, *)
(* else the head of the queue, after the n items before it that had queued   *)
(* too long were given back with THD_FREE.                                  *)
get_work(t, thr_exit, timed) ==
  IF slot[t] # NoItem
  THEN /\ cur' = [cur EXCEPT ![t] = slot[t]]
       /\ slot' = [slot EXCEPT ![t] = NoItem]
       /\ pc' = [pc EXCEPT ![t] = "run"]
       /\ UNCHANGED <<queue, runs, thdlist, freelist, ts>>
  ELSE \E n \in 0 .. Len(queue) :
       /\ n > 0 => maxqueueagems
       /\ runs' = [i \in Items |-> runs[i] + (IF \E k \in 1 .. n : queue[k] = i THEN 1 ELSE 0)]
       /\ UNCHANGED slot
       /\ IF n < Len(queue)
          THEN /\ cur' = [cur EXCEPT ![t] = queue[n + 1]]
               /\ queue' = SubSeq(queue, n + 2, Len(queue))
               /\ pc' = [pc EXCEPT ![t] = "run"]
               /\ UNCHANGED <<thdlist, freelist, ts>>
          ELSE /\ queue' = <<>>
               /\ UNCHANGED cur
               /\ no_work(t, thr_exit, timed)

\* A faulty variant: the threads of a stopped pool do not look for work.
thd_loop_stopped(t) ==
  /\ pc[t] = "loop" /\ ~stopped
  /\ check_exit' = [check_exit EXCEPT ![t] = too_many]
  /\ LET asleep == {i \in Items : call[i] = "blocked"} IN
     IF waiting_for_thread /\ asleep # {}
     THEN \E i \in asleep : call' = [call EXCEPT ![i] = "signalled"]
     ELSE UNCHANGED call
  /\ get_work(t, FALSE, FALSE)
  /\ UNCHANGED <<poolVars, mine, waiting_for_thread, nactthd>>

(* The top of the loop: note an excess of threads, let one blocked caller    *)
(* go on, and look for work.                                                *)
thd_loop(t) ==
  /\ pc[t] = "loop"
  /\ check_exit' = [check_exit EXCEPT ![t] = too_many]
  /\ LET asleep == {i \in Items : call[i] = "blocked"} IN
     IF waiting_for_thread /\ asleep # {}
     THEN \E i \in asleep : call' = [call EXCEPT ![i] = "signalled"]
     ELSE UNCHANGED call
  /\ get_work(t, FALSE, FALSE)
  /\ UNCHANGED <<poolVars, mine, waiting_for_thread, nactthd>>

(* The wait ends: signalled (or spuriously), or by its timeout.  The thread  *)
(* looks again once it has the mutex back.                                  *)
thd_spurious(t) ==
  /\ pc[t] = "wait"
  /\ pc' = [pc EXCEPT ![t] = "woken"]
  /\ UNCHANGED <<poolVars, listVars, callVars, runs, ts, check_exit, slot, cur, nactthd>>

thd_timeout(t) ==
  /\ pc[t] = "wait" /\ ts[t]
  /\ pc' = [pc EXCEPT ![t] = "timedout"]
  /\ UNCHANGED <<poolVars, listVars, callVars, runs, ts, check_exit, slot, cur, nactthd>>

\* A faulty variant: a thread whose wait timed out exits without a last look.
thd_wakes_faulty(t) ==
  /\ \/ pc[t] = "woken" /\ get_work(t, FALSE, ts[t])
     \/ pc[t] = "timedout" /\ leave(t) /\ UNCHANGED <<slot, cur, queue, runs, ts>>
  /\ UNCHANGED <<poolVars, callVars, check_exit, nactthd>>

thd_wakes(t) ==
  /\ \/ pc[t] = "woken" /\ get_work(t, FALSE, ts[t])
     \/ pc[t] = "timedout" /\ get_work(t, TRUE, FALSE)
  /\ UNCHANGED <<poolVars, callVars, check_exit, nactthd>>

(* work_fn(THD_RUN) returns. *)
thd_work_done(t) ==
  /\ pc[t] = "run" /\ cur[t] \notin consuming
  /\ runs' = [runs EXCEPT ![cur[t]] = @ + 1]
  /\ cur' = [cur EXCEPT ![t] = NoItem]
  /\ pc' = [pc EXCEPT ![t] = IF check_exit[t] THEN "check" ELSE "loop"]
  /\ UNCHANGED <<poolVars, listVars, callVars, ts, check_exit, slot, nactthd>>

(* The second look at the number of threads, after the work. *)
\* A faulty variant: the number of threads is not looked at again.
thd_check_exit_faulty(t) ==
  /\ pc[t] = "check"
  /\ leave(t)
  /\ UNCHANGED <<poolVars, queue, callVars, runs, ts, check_exit, slot, cur, nactthd>>

thd_check_exit(t) ==
  /\ pc[t] = "check"
  /\ IF too_many THEN leave(t)
     ELSE pc' = [pc EXCEPT ![t] = "loop"] /\ UNCHANGED <<thdlist, freelist>>
  /\ UNCHANGED <<poolVars, queue, callVars, runs, ts, check_exit, slot, cur, nactthd>>

(* The code after label thread_exit. *)
thd_exit(t) ==
  /\ pc[t] = "exit"
  /\ pc' = [pc EXCEPT ![t] = "none"]
  /\ nactthd' = nactthd - 1
  /\ UNCHANGED <<poolVars, listVars, callVars, runs, ts, check_exit, slot, cur>>

-----------------------------------------------------------------------------
(* A running trigger consumer is not counted against the limit while it      *)
(* waits for its registration (luabb_trigger_register).                     *)
thdpool_add_waitthd(t) ==
  /\ pc[t] = "run" /\ cur[t] \in Consumers \ consuming
  /\ consuming' = consuming \cup {cur[t]} /\ nwaitthd' = nwaitthd + 1
  /\ UNCHANGED <<stopped, maxnthd, wait, destroyed, listVars, thdVars, callVars, runs>>

thdpool_remove_waitthd(t) ==
  /\ pc[t] = "run" /\ cur[t] \in consuming
  /\ consuming' = consuming \ {cur[t]} /\ nwaitthd' = nwaitthd - 1
  /\ UNCHANGED <<stopped, maxnthd, wait, destroyed, listVars, thdVars, callVars, runs>>

thdpool_set_maxthds(n) ==
  /\ n # maxnthd /\ ~destroyed /\ maxnthd' = n
  /\ UNCHANGED <<stopped, wait, nwaitthd, consuming, destroyed, listVars, thdVars, callVars, runs>>

(* Every thread of the pool is signalled, waiting or not. *)
\* A faulty variant: the waiting threads are not signalled.
thdpool_stop_faulty ==
  /\ ~stopped /\ stopped' = TRUE
  /\ UNCHANGED <<maxnthd, wait, nwaitthd, consuming, destroyed, listVars, callVars, runs, thdVars>>

thdpool_stop ==
  /\ ~stopped /\ stopped' = TRUE
  /\ pc' = [t \in Threads |-> IF t \in thdlist /\ pc[t] = "wait" THEN "woken" ELSE pc[t]]
  /\ UNCHANGED <<maxnthd, wait, nwaitthd, consuming, destroyed, listVars, callVars, runs,
                 ts, check_exit, slot, cur, nactthd>>

thdpool_resume ==
  /\ stopped /\ ~destroyed /\ stopped' = FALSE
  /\ UNCHANGED <<maxnthd, wait, nwaitthd, consuming, destroyed, listVars, thdVars, callVars, runs>>

(* thdpool_destroy, after thdpool_stop: it waits until no thread is active,  *)
(* and frees the pool with what is left on its queue.  Its owner sees to it  *)
(* that nobody is inside thdpool_enqueue.                                   *)
\* A faulty variant: destroy does not wait for the threads.
thdpool_destroy_faulty ==
  /\ stopped /\ ~destroyed /\ NobodyInside
  /\ destroyed' = TRUE /\ queue' = <<>>
  /\ UNCHANGED <<stopped, maxnthd, wait, nwaitthd, consuming, thdlist, freelist, thdVars, callVars, runs>>

thdpool_destroy ==
  /\ stopped /\ nactthd = 0 /\ ~destroyed /\ NobodyInside
  /\ destroyed' = TRUE /\ queue' = <<>>
  /\ UNCHANGED <<stopped, maxnthd, wait, nwaitthd, consuming, thdlist, freelist, thdVars, callVars, runs>>

-----------------------------------------------------------------------------
ThdNext(t) ==
  \/ thd_started(t) \/ thd_loop(t) \/ thd_wakes(t) \/ thd_timeout(t)
  \/ thd_work_done(t) \/ thd_check_exit(t) \/ thd_exit(t)
  \/ thdpool_remove_waitthd(t)

Next ==
  \/ \E i \in Items : thdpool_enqueue(i) \/ enqueue_resume(i)
  \/ \E t \in Threads : ThdNext(t) \/ thd_spurious(t) \/ thdpool_add_waitthd(t)
  \/ \E n \in MaxThreads : thdpool_set_maxthds(n)
  \/ thdpool_stop \/ thdpool_resume \/ thdpool_destroy

Spec == Init /\ [][Next]_vars

(* The kernel runs every thread of the pool, work functions return (however  *)
(* often a consumer registers before), a timed wait ends, and a signalled    *)
(* caller gets the mutex.  Nothing obliges anyone to enqueue, to stop the    *)
(* pool or to change its limits.                                             *)
Fairness ==
  /\ \A t \in Threads : WF_vars(ThdNext(t)) /\ SF_vars(thd_work_done(t))
  /\ \A i \in Items : WF_vars(enqueue_resume(i))

FairSpec == Spec /\ Fairness

-----------------------------------------------------------------------------
TypeOK ==
  /\ stopped \in BOOLEAN /\ maxnthd \in MaxThreads /\ wait \in Waits /\ destroyed \in BOOLEAN
  /\ nactthd \in Nat /\ nwaitthd \in Nat
  /\ waiting_for_thread \in BOOLEAN
  /\ thdlist \subseteq Threads
  /\ freelist \in Seq(Threads) /\ queue \in Seq(Items)
  /\ pc \in [Threads -> PC]
  /\ ts \in [Threads -> BOOLEAN] /\ check_exit \in [Threads -> BOOLEAN]
  /\ slot \in [Threads -> Items \cup {NoItem}]
  /\ cur \in [Threads -> Items \cup {NoItem}]
  /\ call \in [Items -> Calls] /\ mine \in [Items -> Threads \cup {NoThd}]
  /\ runs \in [Items -> Nat]
  /\ consuming \subseteq Consumers

(* The items waiting, being worked on or worked off: where item i is. *)
Places(i) ==
  Cardinality({k \in DOMAIN queue : queue[k] = i})
  + Cardinality({t \in thdlist : slot[t] = i})
  + Cardinality({t \in thdlist : cur[t] = i})
  + runs[i]

(* Accepted work is neither lost nor done twice: an item for which           *)
(* thdpool_enqueue returned 0 is in exactly one place (the queue, a thread's *)
(* slot, a thread's hands, or finished), a refused one in none, whatever     *)
(* threads time out, exit or are signalled meanwhile.                        *)
WorkConserved ==
  destroyed \/ \A i \in Items : Places(i) = (IF call[i] = "ok" THEN 1 ELSE 0)

(* The LIFO free list holds only threads of the pool that wait without work: *)
(* thdpool_enqueue may hand an item to its head without looking further.     *)
FreeThreadsIdle ==
  /\ IsInjective(freelist)
  /\ \A t \in Range(freelist) :
       /\ t \in thdlist /\ slot[t] = NoItem /\ cur[t] = NoItem
       /\ pc[t] \in {"wait", "woken", "timedout"}

(* No work waits while a thread is idle: items stay on the queue only while  *)
(* the pool has threads and every one of them is on its way back to          *)
(* get_work_ll ("We only start queueing if all threads are busy").           *)
QueuedOnlyWhenBusy ==
  queue # <<>> => /\ thdlist # {}
                  /\ \A t \in thdlist : pc[t] # "wait"

(* When thdpool_destroy frees the pool, all work it accepted has been done,  *)
(* unless a thread was created that has not begun to run: such a thread is   *)
(* not yet counted in nactthd, which is what thdpool_destroy waits for.      *)
DestroyedAfterWork ==
  destroyed => \/ \A i \in Items : call[i] = "ok" => runs[i] = 1
               \/ \E t \in thdlist : pc[t] = "start"

(* Every accepted item is eventually run or, when it queued too long, given  *)
(* back to its owner.                                                       *)
WorkIsDone == \A i \in Items : call[i] = "ok" ~> (runs[i] > 0 \/ destroyed)

(* A pool that stays stopped winds down: its queue drains and all its        *)
(* threads leave, so that thdpool_destroy can return.                        *)
StopDrains == <>[]stopped => <>[](thdlist = {} \/ destroyed)
=============================================================================
