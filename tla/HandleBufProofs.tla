-------------------------- MODULE HandleBufProofs --------------------------
(***************************************************************************)
(* Proofs about the request queue, for any number of threads and requests  *)
(* and any limits.                                                         *)
(*                                                                         *)
(* The argument: a request is new, queued, in the hands of one thread, or  *)
(* at its end (ServedOnce); the two queues agree on the order of the reads *)
(* (InStep); and while handle_buf_main2 has the mutex, its request is the  *)
(* last one until the reads are gone (HolderLast).  The limits on threads  *)
(* and writers are at least one, so a queue that cannot be served has a    *)
(* thread at work that will look at it again (QueueIsAttended).            *)
(***************************************************************************)
EXTENDS HandleBuf, ListLemmas, FiniteSetTheorems

InStep ==
    /\ IsInjective(q_reqs) /\ IsInjective(rq_reqs)
    /\ Range(rq_reqs) = Range(q_reqs) \cap Reads
    /\ \A x, y \in Range(rq_reqs) : Ahead(rq_reqs, x, y) <=> Ahead(q_reqs, x, y)

\* No request is lost, and none is given to two threads: those in state queued
\* are the queue, and those in state given are the threads' requests.
ServedOnce ==
    /\ \A r \in Req : r \in Range(q_reqs) <=> state[r] = "queued"
    /\ \A r \in Req : state[r] = "given" <=> \E t \in Thd : iq[t] = r
    /\ \A t, u \in Thd : iq[t] = iq[u] /\ iq[t] # NoReq => t = u

Fits == \A t \in Thd : /\ where[t] = "none" => iq[t] = NoReq
                       /\ where[t] = "runs" => iq[t] # NoReq

HolderLast ==
    holder # NoReq /\ rq_reqs # <<>> =>
        /\ holder \in Range(q_reqs)
        /\ \A r \in Range(q_reqs) : r # holder => Ahead(q_reqs, r, holder)

IInv == /\ TypeOK /\ InStep /\ ServedOnce /\ Fits
        /\ CountsAreTrue /\ IsInjective(idle)
        /\ HolderLast /\ QueueIsAttended

\* The threads that have a writer's request.
Writing == {t \in Thd : iq[t] \in Writes}

-----------------------------------------------------------------------------
\* Operators of the model.

\* One writer may always run.
LEMMA OneWriter ==
    ASSUME TypeOK
    PROVE  numwriterthreads \in Nat /\ numwriterthreads >= 1
  BY LimitsAssumption DEF TypeOK, numwriterthreads, LimitsAssumption

\* The queues hold requests.
LEMMA QueueTypes ==
    ASSUME TypeOK
    PROVE  /\ q_reqs \in Seq(Req) /\ rq_reqs \in Seq(Req) /\ idle \in Seq(Thd)
           /\ Range(q_reqs) \subseteq Req /\ Range(rq_reqs) \subseteq Reads /\ Range(idle) \subseteq Thd
           /\ NoReq \notin Req
<1>1. q_reqs \in Seq(Req) /\ rq_reqs \in Seq(Reads) /\ idle \in Seq(Thd) BY DEF TypeOK
<1>2. Range(q_reqs) \subseteq Req /\ Range(rq_reqs) \subseteq Reads /\ Range(idle) \subseteq Thd
  BY <1>1, ElementAt
<1>3. rq_reqs \in Seq(Req)
  <2>1. Reads \subseteq Req BY DEF Req
  <2> QED BY <1>1, <2>1, SeqDef
<1> QED BY <1>1, <1>2, <1>3, LimitsAssumption DEF LimitsAssumption, Req

\* A chosen request is on the queue, at its top or at the top of the reads, and
\* a writer that is chosen fits.
LEMMA ChosenIsQueued ==
    ASSUME TypeOK, InStep, NEW c, Chosen(c) # NoReq
    PROVE  /\ Chosen(c) \in Req /\ Chosen(c) \in Range(q_reqs) /\ q_reqs # <<>>
           /\ \/ Chosen(c) = Head(q_reqs) /\ ~over_limit(Chosen(c), c)
              \/ Chosen(c) = Head(rq_reqs) /\ rq_reqs # <<>> /\ Chosen(c) \in Reads
<1>1. Range(q_reqs) \subseteq Req /\ Range(rq_reqs) \subseteq Reads /\ Range(rq_reqs) \subseteq Range(q_reqs)
  BY QueueTypes DEF InStep
<1>2. q_reqs # <<>> BY DEF Chosen
<1>3. Head(q_reqs) \in Range(q_reqs) BY <1>2, QueueTypes, RemoveTop
<1>4. CASE ~over_limit(Head(q_reqs), c)
  <2>1. Chosen(c) = Head(q_reqs) BY <1>2, <1>4 DEF Chosen
  <2> QED BY <1>1, <1>2, <1>3, <1>4, <2>1
<1>5. CASE over_limit(Head(q_reqs), c)
  <2>1. rq_reqs # <<>> /\ Chosen(c) = Head(rq_reqs) BY <1>2, <1>5 DEF Chosen
  <2>2. Head(rq_reqs) \in Range(rq_reqs) BY <2>1, QueueTypes, RemoveTop
  <2> QED BY <1>1, <1>2, <2>1, <2>2
<1> QED BY <1>4, <1>5

\* When none is chosen from a queue, writers are at work and no read waits.
LEMMA NoneChosen ==
    ASSUME TypeOK, NEW c \in Int, Chosen(c) = NoReq, q_reqs # <<>>
    PROVE  rq_reqs = <<>> /\ c >= 1
<1>1. Head(q_reqs) \in Range(q_reqs) /\ Range(q_reqs) \subseteq Req /\ NoReq \notin Req
  BY QueueTypes, RemoveTop
<1>2. over_limit(Head(q_reqs), c) BY <1>1 DEF Chosen
<1>3. rq_reqs = <<>>
  <2>1. SUFFICES ASSUME rq_reqs # <<>> PROVE FALSE OBVIOUS
  <2>2. Head(rq_reqs) \in Range(rq_reqs) /\ Range(rq_reqs) \subseteq Reads BY <2>1, QueueTypes, RemoveTop
  <2> QED BY <1>1, <1>2, <2>1, <2>2 DEF Chosen, Req
<1>4. c - iothreads >= numwriterthreads /\ iothreads \in Nat BY <1>2, LimitsAssumption DEF over_limit, TypeOK, LimitsAssumption
<1> QED BY <1>3, <1>4, OneWriter

\* A chosen writer keeps to the limit on writers.
LEMMA ChosenFits ==
    ASSUME TypeOK, InStep, NEW c \in Int, Chosen(c) # NoReq, is_req_write(Chosen(c))
    PROVE  c + 1 - iothreads <= numwriterthreads
<1>1. ~over_limit(Chosen(c), c)
  BY ChosenIsQueued, LimitsAssumption DEF is_req_write, LimitsAssumption
<1>2. iothreads \in Nat /\ numwriterthreads \in Nat BY OneWriter, LimitsAssumption DEF TypeOK, LimitsAssumption
<1> QED BY <1>1, <1>2 DEF over_limit

\* The threads with a writer, when one of them changes its request.
LEMMA WritersChange ==
    ASSUME TypeOK, NEW t \in Thd, NEW v \in Req \cup {NoReq}, iq' = [iq EXCEPT ![t] = v]
    PROVE  /\ Cardinality(Writing) \in Nat /\ Cardinality(Writing') \in 0..Cardinality(Thd)
           /\ Cardinality(Writing') = Cardinality(Writing) - (IF iq[t] \in Writes THEN 1 ELSE 0)
                                        + (IF v \in Writes THEN 1 ELSE 0)
<1>1. IsFiniteSet(Thd) /\ iq \in [Thd -> Req \cup {NoReq}] BY LimitsAssumption DEF TypeOK, LimitsAssumption
<1> DEFINE R == Writing \ {t}
<1>2. IsFiniteSet(Writing) /\ Cardinality(Writing) \in Nat /\ IsFiniteSet(R) /\ Cardinality(R) \in Nat
      /\ t \notin R /\ Cardinality(Thd) \in Nat
  BY <1>1, FS_Subset, FS_CardinalityType DEF Writing
<1>3. Cardinality(R) = Cardinality(Writing) - (IF iq[t] \in Writes THEN 1 ELSE 0)
  <2>1. CASE iq[t] \in Writes BY Zenon, <1>2, <2>1, FS_RemoveElement DEF Writing
  <2>2. CASE iq[t] \notin Writes
    <3>1. R = Writing BY <2>2 DEF Writing
    <3>2. Cardinality(R) = Cardinality(Writing) BY Zenon, <3>1
    <3> HIDE DEF R
    <3> QED BY <1>2, <2>2, <3>2
  <2> QED BY <2>1, <2>2
<1>4. Writing' = IF v \in Writes THEN R \cup {t} ELSE R BY <1>1 DEF Writing
<1> HIDE DEF R
<1>5. Cardinality(Writing') = Cardinality(R) + (IF v \in Writes THEN 1 ELSE 0)
  <2>1. CASE v \in Writes BY Zenon, <1>2, <1>4, <2>1, FS_AddElement
  <2>2. CASE v \notin Writes BY <1>2, <1>4, <2>2
  <2> QED BY <2>1, <2>2
<1>6. Cardinality(Writing') \in 0..Cardinality(Thd)
  <2>1. Writing' \subseteq Thd BY DEF Writing
  <2>2. IsFiniteSet(Writing') /\ Cardinality(Writing') <= Cardinality(Thd) BY <1>1, <2>1, FS_Subset
  <2>3. Cardinality(Writing') \in Nat BY <2>2, FS_CardinalityType
  <2> QED BY <1>2, <2>2, <2>3
<1> QED BY <1>2, <1>3, <1>5, <1>6

\* A request leaves both queues and they stay in step.
LEMMA UnqueuedInStep ==
    ASSUME TypeOK, InStep, NEW r, Unqueued(r)
    PROVE  /\ InStep' /\ q_reqs' \in Seq(Req) /\ rq_reqs' \in Seq(Reads)
           /\ Range(q_reqs') = Range(q_reqs) \ {r} /\ Range(rq_reqs') = Range(rq_reqs) \ {r}
           /\ \A x, y : Ahead(q_reqs', x, y) <=> Ahead(q_reqs, x, y) /\ x # r /\ y # r
<1>1. q_reqs \in Seq(Req) /\ rq_reqs \in Seq(Reads) /\ IsInjective(q_reqs) /\ IsInjective(rq_reqs)
  BY DEF TypeOK, InStep
<1>2. /\ q_reqs' \in Seq(Req) /\ IsInjective(q_reqs') /\ Range(q_reqs') = Range(q_reqs) \ {r}
      /\ \A x, y : Ahead(q_reqs', x, y) <=> Ahead(q_reqs, x, y) /\ x # r /\ y # r
  BY <1>1, RemoveElement DEF Unqueued
<1>3. /\ rq_reqs' \in Seq(Reads) /\ IsInjective(rq_reqs') /\ Range(rq_reqs') = Range(rq_reqs) \ {r}
      /\ \A x, y : Ahead(rq_reqs', x, y) <=> Ahead(rq_reqs, x, y) /\ x # r /\ y # r
  BY <1>1, RemoveElement DEF Unqueued
<1>4. InStep' BY <1>2, <1>3 DEF InStep
<1> QED BY <1>2, <1>3, <1>4
-----------------------------------------------------------------------------
\* The two ways in which a thread comes to a request, and the one in which it
\* is left without one.

\* dispatch, to an idle or a new thread.
Dispatched(t, r) ==
    /\ holder # NoReq /\ may_dispatch
    /\ r = Chosen(write_thd_count) /\ r # NoReq /\ Unqueued(r)
    /\ \/ idle # <<>> /\ t = Head(idle) /\ idle' = Tail(idle)
       \/ where[t] = "none" /\ UNCHANGED idle
    /\ iq' = [iq EXCEPT ![t] = r] /\ busy' = busy \cup {t}
    /\ where' = [where EXCEPT ![t] = IF @ = "none" THEN "runs" ELSE "signalled"]
    /\ state' = [state EXCEPT ![r] = "given"]
    /\ write_thd_count' = write_thd_count + (IF is_req_write(r) THEN 1 ELSE 0)
    /\ UNCHANGED <<iothreads, penalty, ii, holder, coalesce>>

\* The end of thd_req's loop, with a next request.
GoesOn(t, r) ==
    /\ holder = NoReq /\ where[t] = "runs"
    /\ r = Chosen(writers_left(iq[t])) /\ r # NoReq /\ Unqueued(r)
    /\ iq' = [iq EXCEPT ![t] = r]
    /\ state' = [state EXCEPT ![iq[t]] = "done", ![r] = "given"]
    /\ write_thd_count' = writers_left(iq[t]) + (IF is_req_write(r) THEN 1 ELSE 0)
    /\ UNCHANGED <<idle, busy, where, ii, iothreads, penalty, holder, coalesce>>

\* And without.
Rests(t) ==
    /\ holder = NoReq /\ where[t] = "runs"
    /\ Chosen(writers_left(iq[t])) = NoReq
    /\ iq' = [iq EXCEPT ![t] = NoReq]
    /\ state' = [state EXCEPT ![iq[t]] = "done"]
    /\ write_thd_count' = writers_left(iq[t])
    /\ busy' = busy \ {t} /\ idle' = <<t>> \o idle
    /\ where' = [where EXCEPT ![t] = "waits"] /\ ii' = [ii EXCEPT ![t] = 1]
    /\ UNCHANGED <<q_reqs, rq_reqs, iothreads, penalty, holder, coalesce>>

\* A wait ends, in whatever way.
Waits(t) == thd_wakeup(t) \/ thd_timedout(t)

\* Steps that touch neither queues, threads nor requests.
Elsewhere ==
    /\ iothreads' \in 0..MaxIO /\ penalty' \in 0..MaxPenalty /\ coalesce' \in {"no", "waiting", "returned"}
    /\ UNCHANGED <<q_reqs, rq_reqs, idle, busy, iq, write_thd_count, state, where, ii, holder>>

\* Every step is of one of these kinds.
LEMMA Kinds ==
    ASSUME TypeOK, Next
    PROVE  \/ \E r \in Req : handle_buf_main2(r)
           \/ \E t \in Thd : \E r : Dispatched(t, r)
           \/ drain
           \/ \E t \in Thd : (\E r : GoesOn(t, r)) \/ Rests(t) \/ Waits(t)
           \/ Elsewhere
<1>1. CASE dispatch
  <2>1. PICK r : r = Chosen(write_thd_count) OBVIOUS
  <2>2. PICK t \in Thd :
           /\ \/ idle # <<>> /\ t = Head(idle) /\ idle' = Tail(idle)
              \/ idle = <<>> /\ where[t] = "none" /\ UNCHANGED idle
           /\ iq' = [iq EXCEPT ![t] = r]
           /\ busy' = busy \cup {t}
           /\ Handed(t, r)
    BY Zenon, <1>1, <2>1 DEF dispatch
  <2>3. Dispatched(t, r) BY Zenon, <1>1, <2>1, <2>2 DEF dispatch, Dispatched, Handed
  <2> QED BY <2>3
<1>2. ASSUME NEW t \in Thd, thd_req(t) PROVE (\E r : GoesOn(t, r)) \/ Rests(t)
  <2>1. PICK r : r = Chosen(writers_left(iq[t])) OBVIOUS
  <2>2. GoesOn(t, r) \/ Rests(t) BY <1>2, <2>1 DEF thd_req, GoesOn, Rests
  <2> QED BY <2>2
<1>3. CASE thd_io_start \/ thd_io_complete \/ adjust_maxwthreadpenalty \/ thd_coalesce
  <2>1. /\ iothreads \in 0..MaxIO /\ penalty \in 0..MaxPenalty /\ MaxIO \in Nat /\ MaxPenalty \in Nat
        /\ coalesce \in {"no", "waiting", "returned"}
    BY LimitsAssumption DEF TypeOK, LimitsAssumption
  <2>2. CASE thd_io_start BY <2>1, <2>2 DEF thd_io_start, Elsewhere
  <2>3. CASE thd_io_complete BY <2>1, <2>3 DEF thd_io_complete, Elsewhere
  <2>4. CASE adjust_maxwthreadpenalty BY <2>1, <2>4 DEF adjust_maxwthreadpenalty, Elsewhere
  <2>5. CASE thd_coalesce
    <3>1. coalesce' \in {"no", "waiting", "returned"} BY <2>5 DEF thd_coalesce
    <3> QED BY <2>1, <2>5, <3>1 DEF thd_coalesce, Elsewhere
  <2> QED BY <1>3, <2>2, <2>3, <2>4, <2>5
<1> QED BY <1>1, <1>2, <1>3 DEF Next, ThdStep, Waits

-----------------------------------------------------------------------------
\* A thread that is handed a request is idle or new, one that rests has one.
LEMMA Empty ==
    ASSUME IInv, NEW t \in Thd, NEW r, Dispatched(t, r)
    PROVE  iq[t] = NoReq
<1>1. CASE idle # <<>> /\ t = Head(idle)
  <2>1. t \in Range(idle) BY <1>1, QueueTypes, RemoveTop DEF IInv
  <2> QED BY <2>1 DEF IInv, CountsAreTrue
<1> QED BY <1>1 DEF Dispatched, IInv, Fits

\* A thread that takes a queued request is the only one that has it.
LEMMA ServedTakes ==
    ASSUME IInv, NEW t \in Thd, NEW r \in Req, r \in Range(q_reqs),
           Range(q_reqs') = Range(q_reqs) \ {r}, iq' = [iq EXCEPT ![t] = r],
           \/ iq[t] = NoReq /\ state' = [state EXCEPT ![r] = "given"]
           \/ iq[t] # NoReq /\ state' = [state EXCEPT ![iq[t]] = "done", ![r] = "given"]
    PROVE  ServedOnce'
<1>1. /\ iq \in [Thd -> Req \cup {NoReq}] /\ ServedOnce /\ NoReq \notin Req
      /\ state \in [Req -> {"new", "queued", "given", "done", "rejected"}]
  BY QueueTypes DEF IInv, TypeOK
<1>2. state[r] = "queued" /\ \A u \in Thd : iq[u] # r BY <1>1 DEF ServedOnce
<1>3. iq[t] # NoReq => iq[t] \in Req /\ state[iq[t]] = "given" BY <1>1 DEF ServedOnce
<1>4. iq'[t] = r /\ \A u \in Thd : u # t => iq'[u] = iq[u] BY <1>1
<1>5. /\ state'[r] = "given"
      /\ iq[t] # NoReq => state'[iq[t]] = "done"
      /\ \A p \in Req : p # r /\ p # iq[t] => state'[p] = state[p]
  BY <1>1, <1>2, <1>3
<1>6. ASSUME NEW p \in Req
      PROVE  /\ p \in Range(q_reqs') <=> state'[p] = "queued"
             /\ state'[p] = "given" <=> \E u \in Thd : iq'[u] = p
  <2>1. CASE p = r BY <1>4, <1>5, <2>1
  <2>2. CASE p # r /\ p = iq[t]
    <3>1. \A u \in Thd : u # t => iq[u] # p BY <1>1, <2>2 DEF ServedOnce
    <3> QED BY <1>1, <1>3, <1>4, <1>5, <2>2, <3>1 DEF ServedOnce
  <2>3. CASE p # r /\ p # iq[t]
    <3>1. /\ p \in Range(q_reqs) <=> state[p] = "queued"
          /\ state[p] = "given" <=> \E u \in Thd : iq[u] = p
      BY <1>1 DEF ServedOnce
    <3>2. (\E u \in Thd : iq'[u] = p) <=> \E u \in Thd : iq[u] = p BY <1>4, <2>3
    <3> QED BY <1>5, <2>3, <3>1, <3>2
  <2> QED BY <2>1, <2>2, <2>3
<1>7. \A u, v \in Thd : iq'[u] = iq'[v] /\ iq'[u] # NoReq => u = v
  BY <1>1, <1>2, <1>4 DEF ServedOnce
<1> QED BY <1>6, <1>7 DEF ServedOnce

\* Requests stay with one thread, or on the queue.
LEMMA ServedStep ==
    ASSUME IInv, Next
    PROVE  ServedOnce'
<1>1. /\ iq \in [Thd -> Req \cup {NoReq}] /\ ServedOnce /\ NoReq \notin Req /\ TypeOK /\ InStep /\ Fits
      /\ state \in [Req -> {"new", "queued", "given", "done", "rejected"}]
  BY QueueTypes DEF IInv, TypeOK
<1>2. ASSUME NEW r \in Req, handle_buf_main2(r) PROVE ServedOnce'
  <2>1. Range(q_reqs') = Range(q_reqs) \cup {r} BY <1>1, <1>2, QueueTypes, AddToBottom DEF handle_buf_main2
  <2>2. state[r] = "new" /\ state' = [state EXCEPT ![r] = "queued"] /\ UNCHANGED iq BY <1>2 DEF handle_buf_main2
  <2> QED BY <1>1, <2>1, <2>2 DEF ServedOnce
<1>3. ASSUME NEW t \in Thd, NEW r, Dispatched(t, r) PROVE ServedOnce'
  <2>1. r \in Req /\ r \in Range(q_reqs) BY <1>1, <1>3, ChosenIsQueued DEF Dispatched
  <2>2. Range(q_reqs') = Range(q_reqs) \ {r} BY <1>1, <1>3, UnqueuedInStep DEF Dispatched
  <2>3. iq[t] = NoReq BY <1>3, Empty
  <2>4. iq' = [iq EXCEPT ![t] = r] /\ state' = [state EXCEPT ![r] = "given"] BY <1>3 DEF Dispatched
  <2> QED BY Zenon, <2>1, <2>2, <2>3, <2>4, ServedTakes
<1>4. CASE drain
  <2>1. CASE UNCHANGED <<q_reqs, state>>
    <3>1. UNCHANGED iq BY <1>4 DEF drain
    <3> QED BY <1>1, <2>1, <3>1 DEF ServedOnce
  <2>2. CASE Unqueued(holder) /\ state' = [state EXCEPT ![holder] = "rejected"] /\ listc_bot(q_reqs) = holder
             /\ Len(q_reqs) > maxqueue
    <3>1. Range(q_reqs') = Range(q_reqs) \ {holder} BY <1>1, <2>2, UnqueuedInStep
    <3>2. holder \in Range(q_reqs) /\ holder \in Req
      <4>1. Len(q_reqs) \in Nat /\ Len(q_reqs) > 0
        BY <1>1, <2>2, QueueTypes, ElementAt, LimitsAssumption DEF LimitsAssumption
      <4>2. Len(q_reqs) \in 1..Len(q_reqs) BY <4>1
      <4> QED BY <1>1, <2>2, <4>2, QueueTypes, ElementAt DEF listc_bot
    <3>3. UNCHANGED iq BY <1>4 DEF drain
    <3> QED BY <1>1, <2>2, <3>1, <3>2, <3>3 DEF ServedOnce
  <2> QED BY <1>4, <2>1, <2>2 DEF drain
<1>5. ASSUME NEW t \in Thd, NEW r, GoesOn(t, r) PROVE ServedOnce'
  <2>1. r \in Req /\ r \in Range(q_reqs) BY <1>1, <1>5, ChosenIsQueued DEF GoesOn
  <2>2. Range(q_reqs') = Range(q_reqs) \ {r} BY <1>1, <1>5, UnqueuedInStep DEF GoesOn
  <2>3. iq[t] # NoReq BY <1>1, <1>5 DEF GoesOn, Fits
  <2>4. iq' = [iq EXCEPT ![t] = r] /\ state' = [state EXCEPT ![iq[t]] = "done", ![r] = "given"]
    BY <1>5 DEF GoesOn
  <2> QED BY Zenon, <2>1, <2>2, <2>3, <2>4, ServedTakes
<1>6. ASSUME NEW t \in Thd, Rests(t) PROVE ServedOnce'
  <2>1. PICK p \in Req : iq[t] = p BY <1>1, <1>6 DEF Rests, Fits
  <2>2. /\ iq' = [iq EXCEPT ![t] = NoReq] /\ state' = [state EXCEPT ![p] = "done"] /\ UNCHANGED q_reqs
        /\ state[p] = "given" /\ \A u \in Thd : u # t => iq[u] # p
    BY <1>1, <1>6, <2>1 DEF Rests, ServedOnce
  <2> QED BY <1>1, <2>1, <2>2 DEF ServedOnce
<1>7. ASSUME NEW t \in Thd, Waits(t) PROVE ServedOnce'
  <2>1. UNCHANGED <<q_reqs, iq, state>> BY <1>7 DEF Waits, thd_wakeup, thd_timedout
  <2> QED BY <1>1, <2>1 DEF ServedOnce
<1>8. CASE Elsewhere BY <1>1, <1>8 DEF Elsewhere, ServedOnce
<1> QED BY <1>1, <1>2, <1>3, <1>4, <1>5, <1>6, <1>7, <1>8, Kinds

\* The busy and the idle list and write_thd_count follow the threads.
LEMMA CountsStep ==
    ASSUME IInv, Next
    PROVE  /\ CountsAreTrue' /\ IsInjective(idle') /\ idle' \in Seq(Thd)
           /\ write_thd_count' \in 0..Cardinality(Thd) /\ Fits'
<1>1. /\ iq \in [Thd -> Req \cup {NoReq}] /\ NoReq \notin Req /\ TypeOK /\ InStep /\ Fits
      /\ where \in [Thd -> {"none", "runs", "waits", "signalled"}]
      /\ IsInjective(idle) /\ idle \in Seq(Thd) /\ write_thd_count \in 0..Cardinality(Thd)
      /\ write_thd_count = Cardinality(Writing) /\ busy = {t \in Thd : iq[t] # NoReq}
      /\ Range(idle) = {t \in Thd : iq[t] = NoReq /\ where[t] # "none"}
      /\ CountsAreTrue
  BY QueueTypes DEF IInv, TypeOK, CountsAreTrue, Writing
<1>2. SUFFICES /\ write_thd_count' = Cardinality(Writing') /\ busy' = {t \in Thd : iq'[t] # NoReq}
               /\ Range(idle') = {t \in Thd : iq'[t] = NoReq /\ where'[t] # "none"}
               /\ IsInjective(idle') /\ idle' \in Seq(Thd)
               /\ write_thd_count' \in 0..Cardinality(Thd) /\ Fits'
  BY DEF CountsAreTrue, Writing
<1>3. ASSUME UNCHANGED <<write_thd_count, busy, idle, iq, where>> PROVE <1>2!1
  BY <1>1, <1>3 DEF Writing, Fits
<1>4. ASSUME NEW t \in Thd, NEW r, Dispatched(t, r) PROVE <1>2!1
  <2>1. r \in Req /\ iq[t] = NoReq BY Zenon, <1>1, <1>4, ChosenIsQueued, Empty DEF Dispatched
  <2>2. /\ iq' = [iq EXCEPT ![t] = r] /\ busy' = busy \cup {t}
        /\ where' = [where EXCEPT ![t] = IF @ = "none" THEN "runs" ELSE "signalled"]
        /\ write_thd_count' = write_thd_count + (IF r \in Writes THEN 1 ELSE 0)
    BY <1>4 DEF Dispatched, is_req_write
  <2>3. iq[t] \notin Writes BY <1>1, <2>1 DEF Req
  <2>4. write_thd_count' = Cardinality(Writing') /\ Cardinality(Writing') \in 0..Cardinality(Thd)
    <3>1. /\ Cardinality(Writing) \in Nat /\ Cardinality(Writing') \in 0..Cardinality(Thd)
          /\ Cardinality(Writing') = Cardinality(Writing) - 0 + (IF r \in Writes THEN 1 ELSE 0)
      BY Zenon, <1>1, <2>1, <2>2, <2>3, WritersChange
    <3> QED BY <1>1, <2>2, <3>1
  <2>5. busy' = {u \in Thd : iq'[u] # NoReq} BY <1>1, <2>1, <2>2
  <2>6. IsInjective(idle') /\ idle' \in Seq(Thd) /\ Range(idle') = Range(idle) \ {t}
    <3>1. CASE idle # <<>> /\ t = Head(idle) /\ idle' = Tail(idle) BY <1>1, <3>1, RemoveTop
    <3>2. CASE where[t] = "none" /\ UNCHANGED idle
      <4>1. t \notin Range(idle) BY <1>1, <3>2
      <4> QED BY <1>1, <3>2, <4>1
    <3> QED BY <1>4, <3>1, <3>2 DEF Dispatched
  <2>7. Range(idle') = {u \in Thd : iq'[u] = NoReq /\ where'[u] # "none"} BY <1>1, <2>1, <2>2, <2>6
  <2>8. Fits' BY <1>1, <2>1, <2>2 DEF Fits
  <2> QED BY <2>4, <2>5, <2>6, <2>7, <2>8
<1>5. ASSUME NEW t \in Thd, NEW r, GoesOn(t, r) PROVE <1>2!1
  <2>1. r \in Req /\ iq[t] # NoReq BY <1>1, <1>5, ChosenIsQueued DEF GoesOn, Fits
  <2>2. /\ iq' = [iq EXCEPT ![t] = r] /\ UNCHANGED <<busy, idle, where>>
        /\ write_thd_count' = write_thd_count - (IF iq[t] \in Writes THEN 1 ELSE 0) + (IF r \in Writes THEN 1 ELSE 0)
    BY <1>5 DEF GoesOn, is_req_write, writers_left
  <2>3. write_thd_count' = Cardinality(Writing') /\ Cardinality(Writing') \in 0..Cardinality(Thd)
    <3>1. /\ Cardinality(Writing) \in Nat /\ Cardinality(Writing') \in 0..Cardinality(Thd)
          /\ Cardinality(Writing') = Cardinality(Writing) - (IF iq[t] \in Writes THEN 1 ELSE 0)
                                       + (IF r \in Writes THEN 1 ELSE 0)
      BY Zenon, <1>1, <2>1, <2>2, WritersChange
    <3> QED BY <1>1, <2>2, <3>1
  <2>4. busy' = {u \in Thd : iq'[u] # NoReq} BY <1>1, <2>1, <2>2
  <2>5. Range(idle') = {u \in Thd : iq'[u] = NoReq /\ where'[u] # "none"} BY <1>1, <2>1, <2>2
  <2>6. where[t] = "runs" BY <1>5 DEF GoesOn
  <2>7. Fits' BY <1>1, <2>1, <2>2, <2>6 DEF Fits
  <2> QED BY <1>1, <2>2, <2>3, <2>4, <2>5, <2>7
<1>6. ASSUME NEW t \in Thd, Rests(t) PROVE <1>2!1
  <2>1. /\ iq' = [iq EXCEPT ![t] = NoReq] /\ where' = [where EXCEPT ![t] = "waits"]
        /\ busy' = busy \ {t} /\ idle' = <<t>> \o idle
        /\ write_thd_count' = write_thd_count - (IF iq[t] \in Writes THEN 1 ELSE 0)
        /\ iq[t] # NoReq
    BY <1>1, <1>6 DEF Rests, is_req_write, writers_left, Fits
  <2>2. NoReq \notin Writes BY <1>1 DEF Req
  <2>3. write_thd_count' = Cardinality(Writing') /\ Cardinality(Writing') \in 0..Cardinality(Thd)
    <3>1. /\ Cardinality(Writing) \in Nat /\ Cardinality(Writing') \in 0..Cardinality(Thd)
          /\ Cardinality(Writing') = Cardinality(Writing) - (IF iq[t] \in Writes THEN 1 ELSE 0) + 0
      BY Zenon, <1>1, <2>1, <2>2, WritersChange
    <3> QED BY <1>1, <2>1, <3>1
  <2>4. busy' = {u \in Thd : iq'[u] # NoReq} BY <1>1, <2>1
  <2>5. t \notin Range(idle) BY <1>1, <2>1
  <2>6. IsInjective(idle') /\ idle' \in Seq(Thd) /\ Range(idle') = {t} \cup Range(idle)
    BY <1>1, <2>1, <2>5, AddToTop
  <2>7. Range(idle') = {u \in Thd : iq'[u] = NoReq /\ where'[u] # "none"} BY <1>1, <2>1, <2>6
  <2>8. Fits' BY <1>1, <2>1 DEF Fits
  <2> QED BY <2>3, <2>4, <2>6, <2>7, <2>8
<1>7. ASSUME NEW t \in Thd, Waits(t) PROVE <1>2!1
  <2>1. UNCHANGED <<busy, iq, write_thd_count>> /\ where[t] \in {"waits", "signalled"}
    BY <1>7 DEF Waits, thd_wakeup, thd_timedout
  <2>2. write_thd_count' = Cardinality(Writing') /\ busy' = {u \in Thd : iq'[u] # NoReq}
    BY <1>1, <2>1 DEF Writing
  <2>3. CASE iq[t] = NoReq /\ where' = [where EXCEPT ![t] = "none"] /\ idle' = listc_rfl(idle, t)
    <3>1. IsInjective(idle') /\ idle' \in Seq(Thd) /\ Range(idle') = Range(idle) \ {t}
      BY <1>1, <2>3, RemoveElement
    <3>2. Range(idle') = {u \in Thd : iq'[u] = NoReq /\ where'[u] # "none"} BY <1>1, <2>1, <2>3, <3>1
    <3>3. Fits' BY <1>1, <2>1, <2>3 DEF Fits
    <3> QED BY <1>1, <2>1, <2>2, <3>1, <3>2, <3>3
  <2>4. CASE /\ \/ where' = [where EXCEPT ![t] = "waits"]
                \/ iq[t] # NoReq /\ where' = [where EXCEPT ![t] = "runs"]
             /\ UNCHANGED idle
    <3>1. Range(idle') = {u \in Thd : iq'[u] = NoReq /\ where'[u] # "none"} BY <1>1, <2>1, <2>4
    <3>2. Fits' BY <1>1, <2>1, <2>4 DEF Fits
    <3> QED BY <1>1, <2>1, <2>2, <2>4, <3>1, <3>2
  <2> QED BY <1>7, <2>3, <2>4 DEF Waits, thd_wakeup, thd_timedout
<1>8. ASSUME (\E r \in Req : handle_buf_main2(r)) \/ drain \/ Elsewhere PROVE <1>2!1
  BY <1>3, <1>8 DEF handle_buf_main2, drain, Elsewhere
<1> QED BY Zenon, <1>1, <1>4, <1>5, <1>6, <1>7, <1>8, Kinds

\* The queues stay in step, and the last request last.
LEMMA QueueStep ==
    ASSUME IInv, Next
    PROVE  InStep' /\ HolderLast' /\ q_reqs' \in Seq(Req) /\ rq_reqs' \in Seq(Reads)
<1>1. /\ TypeOK /\ InStep /\ HolderLast /\ ServedOnce /\ NoReq \notin Req
      /\ q_reqs \in Seq(Req) /\ rq_reqs \in Seq(Reads) /\ IsInjective(q_reqs) /\ IsInjective(rq_reqs)
      /\ Range(q_reqs) \subseteq Req /\ Range(rq_reqs) \subseteq Reads /\ Range(rq_reqs) \subseteq Range(q_reqs)
  BY QueueTypes DEF IInv, TypeOK, InStep
<1>2. ASSUME UNCHANGED <<q_reqs, rq_reqs>>, holder' = holder \/ holder' = NoReq
      PROVE  InStep' /\ HolderLast' /\ q_reqs' \in Seq(Req) /\ rq_reqs' \in Seq(Reads)
  BY <1>1, <1>2 DEF InStep, HolderLast
<1>3. ASSUME NEW r \in Req, handle_buf_main2(r)
      PROVE  InStep' /\ HolderLast' /\ q_reqs' \in Seq(Req) /\ rq_reqs' \in Seq(Reads)
  <2>1. /\ q_reqs' = Append(q_reqs, r) /\ rq_reqs' = IF r \in Writes THEN rq_reqs ELSE Append(rq_reqs, r)
        /\ state[r] = "new" /\ holder' = r
    BY <1>3 DEF handle_buf_main2, is_req_write
  <2>2. r \notin Range(q_reqs) /\ r \notin Range(rq_reqs) BY <1>1, <2>1 DEF ServedOnce
  <2>3. /\ q_reqs' \in Seq(Req) /\ IsInjective(q_reqs') /\ Range(q_reqs') = Range(q_reqs) \cup {r}
    BY <1>1, <2>1, <2>2, AddToBottom
  <2>4. \A x, y : Ahead(q_reqs', x, y) <=> Ahead(q_reqs, x, y) \/ (x \in Range(q_reqs) /\ y = r)
    BY <1>1, <2>1, AheadBottom
  <2>5. ~\E x : Ahead(q_reqs, x, r) \/ Ahead(q_reqs, r, x)
    <3>1. \A k \in 1..Len(q_reqs) : q_reqs[k] # r BY <1>1, <2>2, ElementAt
    <3> QED BY <3>1 DEF Ahead
  <2>6. HolderLast' BY <2>1, <2>3, <2>4 DEF HolderLast
  <2>7. CASE r \in Writes
    <3>1. r \notin Reads BY <2>7, LimitsAssumption DEF LimitsAssumption
    <3>2. rq_reqs' = rq_reqs BY <2>1, <2>7
    <3>3. Range(rq_reqs') = Range(q_reqs') \cap Reads BY <1>1, <2>3, <3>1, <3>2 DEF InStep
    <3>4. \A x, y \in Range(rq_reqs') : Ahead(rq_reqs', x, y) <=> Ahead(q_reqs', x, y)
      BY <1>1, <2>2, <2>4, <3>2 DEF InStep
    <3> QED BY <1>1, <2>3, <2>6, <3>2, <3>3, <3>4 DEF InStep
  <2>8. CASE r \notin Writes
    <3>1. r \in Reads BY <2>8 DEF Req
    <3>2. rq_reqs' = Append(rq_reqs, r) BY <2>1, <2>8
    <3>3. /\ rq_reqs' \in Seq(Reads) /\ IsInjective(rq_reqs') /\ Range(rq_reqs') = Range(rq_reqs) \cup {r}
      BY <1>1, <2>2, <3>1, <3>2, AddToBottom
    <3>4. \A x, y : Ahead(rq_reqs', x, y) <=> Ahead(rq_reqs, x, y) \/ (x \in Range(rq_reqs) /\ y = r)
      BY <1>1, <3>1, <3>2, AheadBottom
    <3>5. ~\E x : Ahead(rq_reqs, x, r) \/ Ahead(rq_reqs, r, x)
      <4>1. \A k \in 1..Len(rq_reqs) : rq_reqs[k] # r BY <1>1, <2>2, ElementAt
      <4> QED BY <4>1 DEF Ahead
    <3>6. Range(rq_reqs') = Range(q_reqs') \cap Reads BY <1>1, <2>3, <3>1, <3>3 DEF InStep
    <3>7. ASSUME NEW x \in Range(rq_reqs'), NEW y \in Range(rq_reqs')
          PROVE  Ahead(rq_reqs', x, y) <=> Ahead(q_reqs', x, y)
      BY <1>1, <2>2, <2>4, <2>5, <3>3, <3>4, <3>5 DEF InStep
    <3> QED BY <2>3, <2>6, <3>3, <3>6, <3>7 DEF InStep
  <2> QED BY <2>7, <2>8
<1>4. ASSUME NEW r, r \in Range(q_reqs), Unqueued(r), holder' = holder,
             r = Head(q_reqs) \/ (r = Head(rq_reqs) /\ rq_reqs # <<>>)
      PROVE  InStep' /\ HolderLast' /\ q_reqs' \in Seq(Req) /\ rq_reqs' \in Seq(Reads)
  <2>1. /\ InStep' /\ q_reqs' \in Seq(Req) /\ rq_reqs' \in Seq(Reads)
        /\ Range(q_reqs') = Range(q_reqs) \ {r} /\ Range(rq_reqs') = Range(rq_reqs) \ {r}
        /\ \A x, y : Ahead(q_reqs', x, y) <=> Ahead(q_reqs, x, y) /\ x # r /\ y # r
    BY <1>1, <1>4, UnqueuedInStep
  <2>2. SUFFICES ASSUME holder # NoReq, rq_reqs' # <<>>
        PROVE  /\ holder \in Range(q_reqs')
               /\ \A x \in Range(q_reqs') : x # holder => Ahead(q_reqs', x, holder)
    BY <1>4, <2>1 DEF HolderLast
  <2>3. PICK y : y \in Range(rq_reqs) /\ y # r BY <2>1, <2>2, EmptyList
  <2>4. rq_reqs # <<>> /\ y \in Range(q_reqs) BY <1>1, <2>3, EmptyList
  <2>5. holder \in Range(q_reqs) /\ \A x \in Range(q_reqs) : x # holder => Ahead(q_reqs, x, holder)
    BY <1>1, <2>2, <2>4 DEF HolderLast
  <2>6. holder # r
    <3>1. SUFFICES ASSUME holder = r PROVE FALSE OBVIOUS
    <3>2. Ahead(q_reqs, y, r) BY <2>3, <2>4, <2>5, <3>1
    <3>3. q_reqs # <<>> BY <1>1, <2>4, EmptyList
    <3>4. CASE r = Head(q_reqs) BY <1>1, <3>2, <3>3, <3>4, AheadTop
    <3>5. CASE r = Head(rq_reqs)
      <4>1. r \in Range(rq_reqs) BY <1>1, <2>4, <3>5, RemoveTop
      <4>2. Ahead(rq_reqs, y, r) BY <1>1, <2>3, <3>2, <4>1 DEF InStep
      <4> QED BY <1>1, <2>4, <3>5, <4>2, AheadTop
    <3> QED BY <1>4, <3>4, <3>5
  <2> QED BY <2>1, <2>5, <2>6
<1>5. ASSUME NEW t \in Thd, NEW r, Dispatched(t, r) \/ GoesOn(t, r)
      PROVE  InStep' /\ HolderLast' /\ q_reqs' \in Seq(Req) /\ rq_reqs' \in Seq(Reads)
  <2>1. PICK c : r = Chosen(c) /\ Chosen(c) # NoReq /\ Unqueued(r) /\ holder' = holder
    BY <1>5 DEF Dispatched, GoesOn
  <2>2. r \in Range(q_reqs) /\ (r = Head(q_reqs) \/ (r = Head(rq_reqs) /\ rq_reqs # <<>>))
    BY <1>1, <2>1, ChosenIsQueued
  <2> QED BY <1>4, <2>1, <2>2
<1>6. CASE drain
  <2>1. holder' = NoReq /\ (UNCHANGED <<q_reqs, rq_reqs>> \/ Unqueued(holder)) BY <1>6 DEF drain
  <2>2. CASE Unqueued(holder) BY <1>1, <2>1, <2>2, UnqueuedInStep DEF HolderLast
  <2> QED BY <1>2, <2>1, <2>2
<1>7. ASSUME NEW t \in Thd, Rests(t) \/ Waits(t)
      PROVE  UNCHANGED <<q_reqs, rq_reqs, holder>>
  BY <1>7 DEF Rests, Waits, thd_wakeup, thd_timedout
<1>8. CASE Elsewhere BY <1>2, <1>8 DEF Elsewhere
<1> QED BY <1>1, <1>2, <1>3, <1>5, <1>6, <1>7, <1>8, Kinds

\* Nobody leaves a queue that nobody will look at.
LEMMA AttendedStep ==
    ASSUME IInv, Next
    PROVE  QueueIsAttended'
<1>1. /\ TypeOK /\ InStep /\ Fits /\ QueueIsAttended /\ CountsAreTrue
      /\ iq \in [Thd -> Req \cup {NoReq}] /\ NoReq \notin Req /\ IsFiniteSet(Thd)
      /\ write_thd_count \in Nat /\ write_thd_count = Cardinality(Writing)
      /\ iothreads \in Nat /\ maxthreads \in Nat /\ maxthreads >= 1
      /\ busy = {t \in Thd : iq[t] # NoReq}
  <2>1. write_thd_count \in 0..Cardinality(Thd) /\ iothreads \in 0..MaxIO BY DEF IInv, TypeOK
  <2> QED BY <2>1, QueueTypes, LimitsAssumption DEF IInv, TypeOK, CountsAreTrue, Writing, LimitsAssumption
<1>2. ASSUME NEW S, S \subseteq Writing, Cardinality(S) >= 1 PROVE S # {} /\ S \subseteq busy
  <2>1. S # {} BY <1>2, FS_EmptySet
  <2> QED BY <1>1, <1>2, <2>1 DEF Writing, Req
<1>3. CASE \E r \in Req : handle_buf_main2(r) BY <1>1, <1>3 DEF handle_buf_main2, QueueIsAttended
<1>4. ASSUME NEW t \in Thd, NEW r, Dispatched(t, r) PROVE QueueIsAttended'
  BY <1>4 DEF Dispatched, QueueIsAttended
<1>5. CASE drain
  <2>1. UNCHANGED busy BY <1>5 DEF drain
  <2>2. CASE ~may_dispatch
    <3>1. busy # {} BY <1>1, <2>2, FS_EmptySet DEF may_dispatch
    <3> QED BY <2>1, <3>1 DEF QueueIsAttended
  <2>3. CASE Chosen(write_thd_count) = NoReq
    <3>1. CASE q_reqs = <<>>
      <4>1. Range(q_reqs') = {}
        <5>1. Range(q_reqs) = {} BY <3>1, EmptyList
        <5>2. q_reqs' = q_reqs \/ Unqueued(holder) BY <1>5 DEF drain
        <5>3. CASE Unqueued(holder)
          <6>1. Range(q_reqs') = Range(q_reqs) \ {holder} BY <1>1, <5>3, UnqueuedInStep
          <6> QED BY <5>1, <6>1
        <5> QED BY <5>1, <5>2, <5>3
      <4>2. q_reqs' \in Seq(Req) BY QueueStep
      <4>3. q_reqs' = <<>> BY <4>1, <4>2, EmptyList
      <4> QED BY <4>3 DEF QueueIsAttended
    <3>2. CASE q_reqs # <<>>
      <4>1. write_thd_count >= 1 BY <1>1, <2>3, <3>2, NoneChosen
      <4>2. Writing # {} /\ Writing \subseteq busy BY <1>1, <1>2, <4>1
      <4> QED BY <2>1, <4>2 DEF QueueIsAttended
    <3> QED BY <3>1, <3>2
  <2> QED BY <1>5, <2>2, <2>3 DEF drain
<1>6. ASSUME NEW t \in Thd, NEW r, GoesOn(t, r) PROVE QueueIsAttended'
  <2>1. t \in busy /\ UNCHANGED busy BY <1>1, <1>6 DEF GoesOn, Fits
  <2> QED BY <2>1 DEF QueueIsAttended
<1>7. ASSUME NEW t \in Thd, Rests(t) PROVE QueueIsAttended'
  <2>1. /\ UNCHANGED q_reqs /\ busy' = busy \ {t} /\ Chosen(writers_left(iq[t])) = NoReq
        /\ writers_left(iq[t]) = write_thd_count - (IF iq[t] \in Writes THEN 1 ELSE 0)
    BY <1>7 DEF Rests, writers_left, is_req_write
  <2>2. SUFFICES ASSUME q_reqs # <<>> PROVE busy \ {t} # {} BY <2>1 DEF QueueIsAttended
  <2>3. writers_left(iq[t]) \in Int BY <1>1, <2>1
  <2>4. writers_left(iq[t]) >= 1 BY <1>1, <2>1, <2>2, <2>3, NoneChosen
  <2> DEFINE R == Writing \ {t}
  <2>5. IsFiniteSet(Writing) BY <1>1, FS_Subset DEF Writing
  <2>6. Cardinality(R) = Cardinality(Writing) - (IF iq[t] \in Writes THEN 1 ELSE 0)
    <3>1. CASE iq[t] \in Writes BY Zenon, <2>5, <3>1, FS_RemoveElement DEF Writing
    <3>2. CASE iq[t] \notin Writes
      <4>1. R = Writing BY <3>2 DEF Writing
      <4>2. Cardinality(R) = Cardinality(Writing) BY <4>1
      <4> HIDE DEF R
      <4> QED BY <1>1, <3>2, <4>2
    <3> QED BY <3>1, <3>2
  <2>7. R \subseteq Writing /\ t \notin R OBVIOUS
  <2> HIDE DEF R
  <2>8. Cardinality(R) >= 1 BY <1>1, <2>1, <2>4, <2>6
  <2>9. R # {} /\ R \subseteq busy BY <1>2, <2>7, <2>8
  <2> QED BY <2>7, <2>9
<1>8. ASSUME (\E t \in Thd : Waits(t)) \/ Elsewhere PROVE QueueIsAttended'
  <2>1. UNCHANGED <<holder, q_reqs, busy>> BY <1>8 DEF Waits, thd_wakeup, thd_timedout, Elsewhere
  <2> QED BY <1>1, <2>1 DEF QueueIsAttended
<1> QED BY <1>1, <1>3, <1>4, <1>5, <1>6, <1>7, <1>8, Kinds

\* The types.
LEMMA TypeStep ==
    ASSUME IInv, Next
    PROVE  TypeOK'
<1>1. /\ TypeOK /\ InStep /\ Fits /\ NoReq \notin Req
      /\ iq \in [Thd -> Req \cup {NoReq}] /\ busy \subseteq Thd
      /\ state \in [Req -> {"new", "queued", "given", "done", "rejected"}]
      /\ where \in [Thd -> {"none", "runs", "waits", "signalled"}]
      /\ ii \in [Thd -> 0..linger] /\ holder \in Req \cup {NoReq}
      /\ iothreads \in 0..MaxIO /\ penalty \in 0..MaxPenalty
      /\ coalesce \in {"no", "waiting", "returned"} /\ linger \in Nat /\ linger >= 1
  BY QueueTypes, LimitsAssumption DEF IInv, TypeOK, LimitsAssumption
<1>2. /\ q_reqs' \in Seq(Req) /\ rq_reqs' \in Seq(Reads) /\ idle' \in Seq(Thd)
      /\ write_thd_count' \in 0..Cardinality(Thd)
  BY QueueStep, CountsStep
<1>3. SUFFICES /\ iq' \in [Thd -> Req \cup {NoReq}] /\ busy' \subseteq Thd
               /\ state' \in [Req -> {"new", "queued", "given", "done", "rejected"}]
               /\ where' \in [Thd -> {"none", "runs", "waits", "signalled"}]
               /\ ii' \in [Thd -> 0..linger] /\ holder' \in Req \cup {NoReq}
               /\ iothreads' \in 0..MaxIO /\ penalty' \in 0..MaxPenalty
               /\ coalesce' \in {"no", "waiting", "returned"}
  BY <1>2 DEF TypeOK
<1>4. ASSUME NEW r \in Req, handle_buf_main2(r) PROVE <1>3!1
  BY <1>1, <1>4 DEF handle_buf_main2
<1>5. ASSUME NEW t \in Thd, NEW r, Dispatched(t, r) PROVE <1>3!1
  <2>1. r \in Req BY <1>1, <1>5, ChosenIsQueued DEF Dispatched
  <2>2. iq' \in [Thd -> Req \cup {NoReq}] /\ busy' \subseteq Thd BY <1>1, <1>5, <2>1 DEF Dispatched
  <2>3. /\ state' \in [Req -> {"new", "queued", "given", "done", "rejected"}]
        /\ where' \in [Thd -> {"none", "runs", "waits", "signalled"}]
    BY <1>1, <1>5, <2>1 DEF Dispatched
  <2>4. UNCHANGED <<iothreads, penalty, ii, holder, coalesce>> BY <1>5 DEF Dispatched
  <2> QED BY <1>1, <2>2, <2>3, <2>4
<1>6. CASE drain
  <2>1. UNCHANGED <<busy, iq, iothreads, penalty, where, ii, coalesce>> /\ holder' = NoReq BY <1>6 DEF drain
  <2>2. state' \in [Req -> {"new", "queued", "given", "done", "rejected"}] BY <1>1, <1>6 DEF drain
  <2> QED BY <1>1, <2>1, <2>2
<1>7. ASSUME NEW t \in Thd, NEW r, GoesOn(t, r) PROVE <1>3!1
  <2>1. r \in Req BY <1>1, <1>7, ChosenIsQueued DEF GoesOn
  <2>2. iq' \in [Thd -> Req \cup {NoReq}] BY <1>1, <1>7, <2>1 DEF GoesOn
  <2>3. state' \in [Req -> {"new", "queued", "given", "done", "rejected"}]
    <3>1. state' = [state EXCEPT ![iq[t]] = "done", ![r] = "given"] BY <1>7 DEF GoesOn
    <3> QED BY Zenon, <1>1, <3>1
  <2>4. UNCHANGED <<busy, where, ii, iothreads, penalty, holder, coalesce>> BY <1>7 DEF GoesOn
  <2> QED BY <1>1, <2>2, <2>3, <2>4
<1>8. ASSUME NEW t \in Thd, Rests(t) PROVE <1>3!1
  <2>1. iq' \in [Thd -> Req \cup {NoReq}] /\ busy' \subseteq Thd BY <1>1, <1>8 DEF Rests
  <2>2. /\ state' \in [Req -> {"new", "queued", "given", "done", "rejected"}]
        /\ where' \in [Thd -> {"none", "runs", "waits", "signalled"}]
    BY Zenon, <1>1, <1>8 DEF Rests
  <2>3. ii' \in [Thd -> 0..linger]
    <3>1. ii' = [ii EXCEPT ![t] = 1] /\ 1 \in 0..linger BY <1>1, <1>8 DEF Rests
    <3> QED BY <1>1, <3>1
  <2>4. UNCHANGED <<iothreads, penalty, holder, coalesce>> BY <1>8 DEF Rests
  <2> QED BY <1>1, <2>1, <2>2, <2>3, <2>4
<1>9. ASSUME NEW t \in Thd, Waits(t) PROVE <1>3!1
  <2>1. UNCHANGED <<busy, iq, iothreads, penalty, state, holder, coalesce>>
    BY Zenon, <1>9 DEF Waits, thd_wakeup, thd_timedout
  <2>2. where' \in [Thd -> {"none", "runs", "waits", "signalled"}]
    BY <1>1, <1>9 DEF Waits, thd_wakeup, thd_timedout
  <2>3. ii' \in [Thd -> 0..linger]
    <3>1. \E n \in 0..linger : ii' = [ii EXCEPT ![t] = n]
      <4>1. ii[t] \in 0..linger BY <1>1
      <4>2. ii[t] < linger => ii[t] + 1 \in 0..linger BY <1>1, <4>1
      <4>3. 0 \in 0..linger BY <1>1
      <4> QED BY Zenon, <1>9, <4>1, <4>2, <4>3 DEF Waits, thd_wakeup, thd_timedout
    <3> QED BY <1>1, <3>1
  <2> QED BY <1>1, <2>1, <2>2, <2>3
<1>10. CASE Elsewhere BY <1>1, <1>10 DEF Elsewhere
<1> QED BY Zenon, <1>1, <1>4, <1>5, <1>6, <1>7, <1>8, <1>9, <1>10, Kinds

-----------------------------------------------------------------------------
\* The empty queue with no threads.
LEMMA InitInv == Init => IInv
<1> SUFFICES ASSUME Init PROVE IInv OBVIOUS
<1>1. IsFiniteSet(Thd) /\ Cardinality(Thd) \in Nat /\ NoReq \notin Req /\ linger \in Nat
      /\ MaxIO \in Nat /\ MaxPenalty \in Nat
  BY FS_CardinalityType, LimitsAssumption DEF LimitsAssumption, Req
<1>2. TypeOK BY <1>1, EmptyList DEF Init, TypeOK
<1>3. CountsAreTrue
  <2>1. {t \in Thd : iq[t] \in Writes} = {} BY <1>1 DEF Init, Req
  <2>2. write_thd_count = Cardinality({t \in Thd : iq[t] \in Writes}) BY Zenon, <2>1, FS_EmptySet DEF Init
  <2>3. Range(idle) = {} /\ {t \in Thd : iq[t] = NoReq /\ where[t] # "none"} = {} /\ busy = {}
        /\ {t \in Thd : iq[t] # NoReq} = {}
    BY EmptyList DEF Init
  <2> QED BY <2>2, <2>3 DEF CountsAreTrue
<1>4. InStep BY EmptyList DEF Init, InStep
<1>5. ServedOnce BY <1>1, EmptyList DEF Init, ServedOnce
<1>6. Fits /\ HolderLast /\ QueueIsAttended /\ IsInjective(idle)
  BY EmptyList DEF Init, Fits, HolderLast, QueueIsAttended
<1> QED BY <1>2, <1>3, <1>4, <1>5, <1>6 DEF IInv

\* IInv is inductive.
LEMMA Inductive == IInv /\ [Next]_vars => IInv'
<1>1. ASSUME IInv, Next PROVE IInv'
  BY <1>1, TypeStep, QueueStep, ServedStep, CountsStep, AttendedStep DEF IInv
<1>2. ASSUME IInv, UNCHANGED vars PROVE IInv'
  BY Zenon, <1>2 DEF vars, IInv, TypeOK, InStep, ServedOnce, Fits, CountsAreTrue, HolderLast, QueueIsAttended
<1> QED BY <1>1, <1>2

\* The invariant holds in every state of every run of the dispatcher.
LEMMA Invariance == Spec => []IInv
  BY InitInv, Inductive, PTL DEF Spec

\* The queues agree place by place.
LEMMA StepInv == IInv => ReadsInStep
<1> SUFFICES ASSUME IInv PROVE ReadsInStep OBVIOUS
<1>1. /\ InStep /\ q_reqs \in Seq(Req) /\ rq_reqs \in Seq(Req) /\ IsInjective(q_reqs) /\ IsInjective(rq_reqs)
      /\ Range(q_reqs) \subseteq Req
  BY QueueTypes DEF IInv, InStep
<1>2. Range(rq_reqs) = {r \in Range(q_reqs) : ~is_req_write(r)}
  BY <1>1, LimitsAssumption DEF InStep, is_req_write, Req, LimitsAssumption
<1>3. DOMAIN q_reqs = 1..Len(q_reqs) /\ DOMAIN rq_reqs = 1..Len(rq_reqs) BY <1>1, ElementAt
<1>4. ASSUME NEW j \in DOMAIN rq_reqs, NEW k \in DOMAIN rq_reqs, NEW m \in DOMAIN q_reqs, NEW n \in DOMAIN q_reqs,
             rq_reqs[j] = q_reqs[m], rq_reqs[k] = q_reqs[n]
      PROVE  j < k <=> m < n
  <2>1. Ahead(rq_reqs, rq_reqs[j], rq_reqs[k]) <=> j < k BY <1>1, <1>3, AheadPlaces
  <2>2. Ahead(q_reqs, q_reqs[m], q_reqs[n]) <=> m < n BY <1>1, <1>3, AheadPlaces
  <2>3. rq_reqs[j] \in Range(rq_reqs) /\ rq_reqs[k] \in Range(rq_reqs) BY <1>1, <1>3, ElementAt
  <2> QED BY <1>1, <1>4, <2>1, <2>2, <2>3 DEF InStep
<1> QED BY <1>1, <1>2, <1>4 DEF ReadsInStep

\* When the last request is another's, no read is left, and so it is a writer.
LEMMA LeftOverInv == IInv => NoReadLeftOver
<1> SUFFICES ASSUME IInv, holder # NoReq, Len(q_reqs) > maxqueue, listc_bot(q_reqs) # holder
             PROVE  is_req_write(listc_bot(q_reqs))
  BY DEF NoReadLeftOver
<1>1. /\ InStep /\ HolderLast /\ q_reqs \in Seq(Req) /\ IsInjective(q_reqs) /\ maxqueue \in Nat
  BY QueueTypes, LimitsAssumption DEF IInv, InStep, LimitsAssumption
<1>2. rq_reqs = <<>> BY <1>1, AheadLast DEF HolderLast
<1>3. Range(q_reqs) \cap Reads = {} BY <1>1, <1>2, EmptyList DEF InStep
<1>4. Len(q_reqs) \in Nat /\ Len(q_reqs) \in 1..Len(q_reqs) BY <1>1, ElementAt
<1>5. listc_bot(q_reqs) \in Range(q_reqs) /\ listc_bot(q_reqs) \in Req BY <1>1, <1>4, ElementAt DEF listc_bot
<1> QED BY <1>3, <1>5 DEF is_req_write, Req

-----------------------------------------------------------------------------
\* The type invariant of db/handle_buf.c.
THEOREM TypeCorrect == Spec => []TypeOK
<1>1. IInv => TypeOK BY DEF IInv
<1> QED BY <1>1, Invariance, PTL

\* The read queue that thd_req and handle_buf_main2 turn to when a writer does
\* not fit has the reads of the queue in their order, and no others.
THEOREM QueuesInStep == Spec => []ReadsInStep
  BY StepInv, Invariance, PTL

\* write_thd_count, busy and idle are what the threads do, at every moment
\* outside the mutex of handle_buf.c.
THEOREM CountsFollow == Spec => []CountsAreTrue
<1>1. IInv => CountsAreTrue BY DEF IInv
<1> QED BY <1>1, Invariance, PTL

\* handle_buf_main2 and thd_req never leave a request on the queue with every
\* thread idle.
THEOREM Attention == Spec => []QueueIsAttended
<1>1. IInv => QueueIsAttended BY DEF IInv
<1> QED BY <1>1, Invariance, PTL

\* The abort() of handle_buf_main2, for a read left at the end of a queue that
\* is too long, is not reached.
THEOREM AbortUnreachable == Spec => []NoReadLeftOver
  BY LeftOverInv, Invariance, PTL

\* Every request that handle_buf_main2 queues is on the queue until one thread,
\* and no other, has it.
THEOREM RequestsServedOnce == Spec => []ServedOnce
<1>1. IInv => ServedOnce BY DEF IInv
<1> QED BY <1>1, Invariance, PTL

\* A step that gives a thread a request keeps to the limits.
LEMMA LimitsStep ==
    ASSUME IInv, [Next]_vars
    PROVE  [/\ Cardinality(busy') > Cardinality(busy) =>
                  Cardinality(busy') - iothreads <= maxthreads
            /\ write_thd_count' > write_thd_count =>
                  write_thd_count' - iothreads <= numwriterthreads]_vars
<1>1. /\ TypeOK /\ InStep /\ iothreads \in Nat /\ maxthreads \in Nat /\ write_thd_count \in Nat
      /\ IsFiniteSet(busy) /\ Cardinality(busy) \in Nat
  <2>1. busy \subseteq Thd /\ IsFiniteSet(Thd) /\ iothreads \in 0..MaxIO /\ write_thd_count \in 0..Cardinality(Thd)
    BY LimitsAssumption DEF IInv, TypeOK, LimitsAssumption
  <2>2. IsFiniteSet(busy) /\ Cardinality(busy) \in Nat BY <2>1, FS_Subset, FS_CardinalityType
  <2> QED BY <2>1, <2>2, LimitsAssumption DEF IInv, LimitsAssumption
<1> DEFINE Kept == /\ Cardinality(busy') > Cardinality(busy) => Cardinality(busy') - iothreads <= maxthreads
                   /\ write_thd_count' > write_thd_count => write_thd_count' - iothreads <= numwriterthreads
<1>2. SUFFICES ASSUME Next PROVE Kept OBVIOUS
<1>3. ASSUME NEW t \in Thd, NEW r, Dispatched(t, r) PROVE Kept
  <2>1. /\ Cardinality(busy) - iothreads < maxthreads /\ busy' = busy \cup {t}
        /\ r = Chosen(write_thd_count) /\ r # NoReq
        /\ write_thd_count' = write_thd_count + (IF is_req_write(r) THEN 1 ELSE 0)
    BY <1>3 DEF Dispatched, may_dispatch
  <2>2. Cardinality(busy') \in {Cardinality(busy), Cardinality(busy) + 1}
    <3>1. Cardinality(busy \cup {t}) = IF t \in busy THEN Cardinality(busy) ELSE Cardinality(busy) + 1
      BY Zenon, <1>1, FS_AddElement
    <3> QED BY <2>1, <3>1
  <2>3. Cardinality(busy') > Cardinality(busy) => Cardinality(busy') - iothreads <= maxthreads
    BY <1>1, <2>1, <2>2
  <2>4. is_req_write(r) => write_thd_count + 1 - iothreads <= numwriterthreads
    BY <1>1, <2>1, ChosenFits
  <2> QED BY <1>1, <2>1, <2>3, <2>4
<1>4. ASSUME NEW t \in Thd, NEW r, GoesOn(t, r) PROVE Kept
  <2>1. PICK c \in Int : c = writers_left(iq[t]) /\ c <= write_thd_count BY <1>1 DEF writers_left
  <2>2. /\ UNCHANGED busy /\ r = Chosen(c) /\ r # NoReq
        /\ write_thd_count' = c + (IF is_req_write(r) THEN 1 ELSE 0)
    BY <1>4, <2>1 DEF GoesOn
  <2>3. is_req_write(r) => c + 1 - iothreads <= numwriterthreads BY <1>1, <2>2, ChosenFits
  <2> QED BY <1>1, <2>1, <2>2, <2>3
<1>5. ASSUME NEW t \in Thd, Rests(t) PROVE Kept
  <2>1. busy' = busy \ {t} /\ write_thd_count' = write_thd_count - (IF is_req_write(iq[t]) THEN 1 ELSE 0)
    BY <1>5 DEF Rests, writers_left
  <2>2. Cardinality(busy \ {t}) = IF t \in busy THEN Cardinality(busy) - 1 ELSE Cardinality(busy)
    BY Zenon, <1>1, FS_RemoveElement
  <2> QED BY <1>1, <2>1, <2>2
<1>6. ASSUME (\E r \in Req : handle_buf_main2(r)) \/ drain \/ (\E t \in Thd : Waits(t)) \/ Elsewhere
      PROVE  UNCHANGED <<busy, write_thd_count>>
  BY Zenon, <1>6 DEF handle_buf_main2, drain, Waits, thd_wakeup, thd_timedout, Elsewhere
<1>7. ASSUME UNCHANGED <<busy, write_thd_count>> PROVE Kept BY <1>1, <1>7
<1> QED BY <1>1, <1>2, <1>3, <1>4, <1>5, <1>6, <1>7, Kinds

\* No step of handle_buf_main2 or thd_req hands out a request past
\* gbl_maxthreads or past the number of writers allowed at that moment.
THEOREM KeepsToLimits == Spec => WithinLimits
  BY Invariance, LimitsStep, PTL DEF WithinLimits, Spec
=============================================================================
