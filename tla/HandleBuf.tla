----------------------------- MODULE HandleBuf -----------------------------
(***************************************************************************)
(* The request queue and request threads of a database (db/handle_buf.c).  *)
(*                                                                         *)
(* handle_buf_main2 queues a request on q_reqs (a read on rq_reqs too) and *)
(* hands out as much of the queue as the limits on threads and on writer   *)
(* threads allow.  A thread that ends a request takes the next one, and    *)
(* passes over a writer that does not fit for the oldest read.  A thread   *)
(* with nothing to do waits on the idle list and retires after a while.    *)
(* thd_coalesce waits for the moment with no request at all.               *)
(*                                                                         *)
(* Everything happens under one mutex: a step is one critical section,     *)
(* except the dispatch loop, which is one step per request.                *)
(***************************************************************************)
EXTENDS Integers, FiniteSets, Listc

CONSTANTS Thd,           \* threads that may exist
          Reads, Writes, \* requests that are not, and are, writers
          Offloads,      \* those of the writers that come from osql sessions
          maxthreads,    \* gbl_maxthreads
          maxwthreads,   \* gbl_maxwthreads
          maxqueue,      \* gbl_maxqueue
          MaxPenalty,    \* bound on gbl_maxwthreadpenalty
          MaxIO,         \* bound on iothreads
          linger,        \* gbl_thd_linger, in waits of one second
          NoReq

ASSUME LimitsAssumption ==
    /\ maxthreads \in Nat \ {0} /\ maxwthreads \in 1..maxthreads
    /\ maxqueue \in Nat /\ linger \in Nat \ {0}
    /\ MaxPenalty \in Nat /\ MaxIO \in Nat /\ IsFiniteSet(Thd)
    /\ Reads \cap Writes = {} /\ Offloads \subseteq Writes
    /\ NoReq \notin Reads \cup Writes

VARIABLES q_reqs, rq_reqs, \* the queue of all requests and of the reads in it
          idle,            \* idle threads, the last to come first
          busy,            \* threads with a request
          iq,              \* the request of each thread
          write_thd_count, iothreads, penalty,
          state,           \* of each request
          where,           \* of each thread: none, runs, waits, signalled
          ii,              \* seconds each thread has waited
          holder,          \* the request whose handle_buf_main2 has the mutex
          coalesce         \* thd_coalesce: not called, waiting, returned

vars == <<q_reqs, rq_reqs, idle, busy, iq, write_thd_count, iothreads, penalty,
          state, where, ii, holder, coalesce>>

Req == Reads \cup Writes

is_req_write(r) == r \in Writes

Init == /\ q_reqs = <<>> /\ rq_reqs = <<>>
        /\ idle = <<>> /\ busy = {}
        /\ iq = [t \in Thd |-> NoReq]
        /\ write_thd_count = 0 /\ iothreads = 0 /\ penalty = 0
        /\ state = [r \in Req |-> "new"]
        /\ where = [t \in Thd |-> "none"]
        /\ ii = [t \in Thd |-> 0]
        /\ holder = NoReq
        /\ coalesce = "no"

-----------------------------------------------------------------------------
\* A faulty variant: a penalty can take every writer thread away.
numwriterthreads_faulty == maxwthreads - penalty

\* How many writers may run now; a penalty never takes the last one.
numwriterthreads == IF maxwthreads - penalty < 1 THEN 1 ELSE maxwthreads - penalty

\* A writer that does not fit, with count writers running.
over_limit(r, count) == is_req_write(r) /\ count - iothreads >= numwriterthreads

\* The request a free thread takes: the oldest, or the oldest read when that
\* is a writer that does not fit.
Chosen(count) ==
    IF q_reqs = <<>> THEN NoReq
    ELSE IF ~over_limit(Head(q_reqs), count) THEN Head(q_reqs)
    ELSE IF rq_reqs # <<>> THEN Head(rq_reqs)
    ELSE NoReq

\* A faulty variant: the read queue is not kept up with the queue.
Unqueued_faulty(r) == /\ q_reqs' = listc_rfl(q_reqs, r)
                      /\ UNCHANGED rq_reqs

\* The chosen request leaves both queues.
Unqueued(r) == /\ q_reqs' = listc_rfl(q_reqs, r)
               /\ rq_reqs' = listc_rfl(rq_reqs, r)

\* A faulty variant: a new request goes to the top of the queues.
main2_faulty(r) ==
    /\ holder = NoReq
    /\ state[r] = "new"
    /\ q_reqs' = <<r>> \o q_reqs
    /\ rq_reqs' = IF is_req_write(r) THEN rq_reqs ELSE <<r>> \o rq_reqs
    /\ state' = [state EXCEPT ![r] = "queued"]
    /\ holder' = r
    /\ UNCHANGED <<idle, busy, iq, write_thd_count, iothreads, penalty, where, ii, coalesce>>

\* handle_buf_main2 up to the dispatch loop.
handle_buf_main2(r) ==
    /\ holder = NoReq
    /\ state[r] = "new"
    /\ q_reqs' = Append(q_reqs, r)
    /\ rq_reqs' = IF is_req_write(r) THEN rq_reqs ELSE Append(rq_reqs, r)
    /\ state' = [state EXCEPT ![r] = "queued"]
    /\ holder' = r
    /\ UNCHANGED <<idle, busy, iq, write_thd_count, iothreads, penalty, where, ii, coalesce>>

may_dispatch == Cardinality(busy) - iothreads < maxthreads

\* The thread is born with the request, or is signalled.
Handed(t, r) == where' = [where EXCEPT ![t] = IF @ = "none" THEN "runs" ELSE "signalled"]

\* One turn of the dispatch loop, to the first idle thread or a new one.
dispatch ==
    /\ holder # NoReq
    /\ may_dispatch
    /\ LET r == Chosen(write_thd_count) IN
       /\ r # NoReq
       /\ \E t \in Thd :
             /\ \/ idle # <<>> /\ t = Head(idle) /\ idle' = Tail(idle)
                \/ idle = <<>> /\ where[t] = "none" /\ UNCHANGED idle
             /\ iq' = [iq EXCEPT ![t] = r]
             /\ busy' = busy \cup {t}
             /\ Handed(t, r)
       /\ Unqueued(r)
       /\ state' = [state EXCEPT ![r] = "given"]
       /\ write_thd_count' = write_thd_count + (IF is_req_write(r) THEN 1 ELSE 0)
    /\ UNCHANGED <<iothreads, penalty, ii, holder, coalesce>>

\* The end of handle_buf_main2: a request that would make the queue too long
\* is taken off again, if it is still the last one, and rejected.
drain ==
    /\ holder # NoReq
    /\ ~may_dispatch \/ Chosen(write_thd_count) = NoReq
    /\ IF holder \notin Offloads /\ Len(q_reqs) > maxqueue /\ listc_bot(q_reqs) = holder
       THEN /\ Unqueued(holder)
            /\ state' = [state EXCEPT ![holder] = "rejected"]
       ELSE UNCHANGED <<q_reqs, rq_reqs, state>>
    /\ holder' = NoReq
    /\ UNCHANGED <<idle, busy, iq, write_thd_count, iothreads, penalty, where, ii, coalesce>>

-----------------------------------------------------------------------------
\* A faulty variant: the writer's end is not counted.
writers_left_stale(r) == write_thd_count

\* The writers that remain when the request r ends.
writers_left(r) == write_thd_count - (IF is_req_write(r) THEN 1 ELSE 0)

\* thd_req, between handle_ireq and the wait: the request is done, and the
\* next one is taken, or the thread becomes idle.
thd_req(t) ==
    /\ holder = NoReq
    /\ where[t] = "runs"
    /\ LET count == writers_left(iq[t])
           r == Chosen(count)
       IN \/ /\ r # NoReq
             /\ Unqueued(r)
             /\ iq' = [iq EXCEPT ![t] = r]
             /\ state' = [state EXCEPT ![iq[t]] = "done", ![r] = "given"]
             /\ write_thd_count' = count + (IF is_req_write(r) THEN 1 ELSE 0)
             /\ UNCHANGED <<idle, busy, where, ii>>
          \/ /\ r = NoReq
             /\ iq' = [iq EXCEPT ![t] = NoReq]
             /\ state' = [state EXCEPT ![iq[t]] = "done"]
             /\ write_thd_count' = count
             /\ busy' = busy \ {t}
             /\ idle' = <<t>> \o idle
             /\ where' = [where EXCEPT ![t] = "waits"]
             /\ ii' = [ii EXCEPT ![t] = 1]
             /\ UNCHANGED <<q_reqs, rq_reqs>>
    /\ UNCHANGED <<iothreads, penalty, holder, coalesce>>

\* pthread_cond_timedwait returns 0: a request is there, or the wakeup was
\* spurious and the thread waits again.
thd_wakeup(t) ==
    /\ holder = NoReq
    /\ where[t] \in {"waits", "signalled"}
    /\ IF iq[t] = NoReq
       THEN /\ where' = [where EXCEPT ![t] = "waits"]
            /\ ii' = [ii EXCEPT ![t] = IF @ < linger THEN @ + 1 ELSE @]
       ELSE /\ where' = [where EXCEPT ![t] = "runs"]
            /\ ii' = [ii EXCEPT ![t] = 0]
    /\ UNCHANGED <<q_reqs, rq_reqs, idle, busy, iq, write_thd_count, iothreads, penalty,
                   state, holder, coalesce>>

\* A faulty variant: at its linger's end a thread with a request waits again.
timedout_faulty(t) ==
    /\ holder = NoReq
    /\ where[t] \in {"waits", "signalled"}
    /\ IF ii[t] < linger
       THEN /\ ii' = [ii EXCEPT ![t] = @ + 1]
            /\ where' = [where EXCEPT ![t] = "waits"]
            /\ UNCHANGED idle
       ELSE /\ where' = [where EXCEPT ![t] = IF iq[t] = NoReq THEN "none" ELSE "waits"]
            /\ idle' = IF iq[t] = NoReq THEN listc_rfl(idle, t) ELSE idle
            /\ ii' = [ii EXCEPT ![t] = 0]
    /\ UNCHANGED <<q_reqs, rq_reqs, busy, iq, write_thd_count, iothreads, penalty,
                   state, holder, coalesce>>

\* It returns ETIMEDOUT: the thread waits for another second, whatever thd->iq
\* holds, until its linger time is up; then it runs its request or retires.
thd_timedout(t) ==
    /\ holder = NoReq
    /\ where[t] \in {"waits", "signalled"}
    /\ IF ii[t] < linger
       THEN /\ ii' = [ii EXCEPT ![t] = @ + 1]
            /\ where' = [where EXCEPT ![t] = "waits"]
            /\ UNCHANGED idle
       ELSE /\ where' = [where EXCEPT ![t] = IF iq[t] = NoReq THEN "none" ELSE "runs"]
            /\ idle' = IF iq[t] = NoReq THEN listc_rfl(idle, t) ELSE idle
            /\ ii' = [ii EXCEPT ![t] = 0]
    /\ UNCHANGED <<q_reqs, rq_reqs, busy, iq, write_thd_count, iothreads, penalty,
                   state, holder, coalesce>>

-----------------------------------------------------------------------------
\* thd_io_start and thd_io_complete: a request thread is in the disk.
thd_io_start == /\ holder = NoReq
                /\ iothreads < MaxIO
                /\ iothreads < Cardinality({t \in Thd : where[t] = "runs"})
                /\ iothreads' = iothreads + 1
                /\ UNCHANGED <<q_reqs, rq_reqs, idle, busy, iq, write_thd_count, penalty,
                               state, where, ii, holder, coalesce>>

thd_io_complete == /\ holder = NoReq
                   /\ iothreads > 0
                   /\ iothreads' = iothreads - 1
                   /\ UNCHANGED <<q_reqs, rq_reqs, idle, busy, iq, write_thd_count, penalty,
                                  state, where, ii, holder, coalesce>>

\* adjust_maxwthreadpenalty after a deadlock of a writer, and the end of the
\* writer's handle_op_local; delay_lock is not the queue's mutex.
adjust_maxwthreadpenalty ==
    /\ \/ /\ write_thd_count > 0
          /\ penalty < MaxPenalty /\ penalty < maxwthreads
          /\ penalty' = penalty + 1
       \/ penalty > 0 /\ penalty' = 0
    /\ UNCHANGED <<q_reqs, rq_reqs, idle, busy, iq, write_thd_count, iothreads,
                   state, where, ii, holder, coalesce>>

quiet == busy = {} /\ q_reqs = <<>>

\* A faulty variant: nothing looks again after the first check.
thd_coalesce_faulty ==
    /\ holder = NoReq
    /\ coalesce = "no"
    /\ coalesce' = IF quiet THEN "returned" ELSE "waiting"
    /\ UNCHANGED <<q_reqs, rq_reqs, idle, busy, iq, write_thd_count, iothreads, penalty,
                   state, where, ii, holder>>

\* thd_coalesce: the call, and the return once there is no request; the wait
\* is for a second at a time, so it needs no wakeup.
thd_coalesce ==
    /\ holder = NoReq
    /\ \/ coalesce = "no" /\ coalesce' = IF quiet THEN "returned" ELSE "waiting"
       \/ coalesce = "waiting" /\ quiet /\ coalesce' = "returned"
    /\ UNCHANGED <<q_reqs, rq_reqs, idle, busy, iq, write_thd_count, iothreads, penalty,
                   state, where, ii, holder>>

ThdStep(t) == thd_req(t) \/ thd_wakeup(t) \/ thd_timedout(t)

Next == \/ \E r \in Req : handle_buf_main2(r)
        \/ dispatch
        \/ drain
        \/ \E t \in Thd : ThdStep(t)
        \/ thd_io_start \/ thd_io_complete
        \/ adjust_maxwthreadpenalty
        \/ thd_coalesce

Spec == Init /\ [][Next]_vars

\* Critical sections end, requests end, a signalled thread wakes up, and a
\* wait of one second ends.
FairSpec == /\ Spec
            /\ WF_vars(dispatch \/ drain)
            /\ \A t \in Thd : /\ WF_vars(thd_req(t))
                              /\ WF_vars(thd_timedout(t))
            /\ WF_vars(coalesce = "waiting" /\ thd_coalesce)

-----------------------------------------------------------------------------
\* Properties.

\* Queues, lists and counters have their types.
TypeOK ==
    /\ q_reqs \in Seq(Req) /\ rq_reqs \in Seq(Reads)
    /\ idle \in Seq(Thd) /\ busy \subseteq Thd
    /\ iq \in [Thd -> Req \cup {NoReq}]
    /\ write_thd_count \in 0..Cardinality(Thd)
    /\ iothreads \in 0..MaxIO /\ penalty \in 0..MaxPenalty
    /\ state \in [Req -> {"new", "queued", "given", "done", "rejected"}]
    /\ where \in [Thd -> {"none", "runs", "waits", "signalled"}]
    /\ ii \in [Thd -> 0..linger]
    /\ holder \in Req \cup {NoReq}
    /\ coalesce \in {"no", "waiting", "returned"}

\* The read queue is the queue without its writers: a thread that passes over
\* a writer serves the oldest read, and never one that has already run.
ReadsInStep ==
    /\ IsInjective(q_reqs) /\ IsInjective(rq_reqs)
    /\ Range(rq_reqs) = {r \in Range(q_reqs) : ~is_req_write(r)}
    /\ \A j, k \in DOMAIN rq_reqs : \A m, n \in DOMAIN q_reqs :
          rq_reqs[j] = q_reqs[m] /\ rq_reqs[k] = q_reqs[n] => (j < k <=> m < n)

\* write_thd_count and the busy list say what the threads do: the limit on
\* writers counts every thread that has a writer's request, and an idle thread
\* has none.
CountsAreTrue ==
    /\ write_thd_count = Cardinality({t \in Thd : iq[t] \in Writes})
    /\ busy = {t \in Thd : iq[t] # NoReq}
    /\ Range(idle) = {t \in Thd : iq[t] = NoReq /\ where[t] # "none"}

\* Outside the mutex no more than maxthreads requests run, and a request that
\* is dispatched never takes the writers past their limit, unless a thread
\* came back from the disk or a penalty was imposed meanwhile.
WithinLimits ==
    [][ /\ Cardinality(busy') > Cardinality(busy) =>
              Cardinality(busy') - iothreads <= maxthreads
        /\ write_thd_count' > write_thd_count =>
              write_thd_count' - iothreads <= numwriterthreads ]_vars

\* Requests that wait have somebody to take them: with every thread idle the
\* queue is empty, for nobody but a new request would look at it again.
QueueIsAttended == holder = NoReq /\ q_reqs # <<>> => busy # {}

\* handle_buf_main2's abort() cannot happen: when the queue is too full and
\* the request just added is no longer the last one, the last one is a writer.
NoReadLeftOver ==
    (/\ holder # NoReq
     /\ ~may_dispatch \/ Chosen(write_thd_count) = NoReq
     /\ holder \notin Offloads
     /\ Len(q_reqs) > maxqueue
     /\ listc_bot(q_reqs) # holder)
    => is_req_write(listc_bot(q_reqs))

\* Every request that is taken is answered: it runs, or it is rejected at once
\* because the queue is too long.
Answered == \A r \in Req : (state[r] = "queued") ~> (state[r] \in {"done", "rejected"})

\* thd_coalesce returns once no more requests come.
CoalesceReturns == (coalesce = "waiting") ~> (coalesce = "returned")
=============================================================================
