--------------------------- MODULE ThdPoolProofs ---------------------------
(***************************************************************************)
(* Proofs about the thread pool, for any number of threads, callers and    *)
(* items, any limits and any sequence of changes of them.  They are about  *)
(* pools whose callers do not ask for the queue (THDPOOL_QUEUE_ONLY): such *)
(* a caller takes a thread off the free list and may leave it waiting      *)
(* there, off every list.                                                  *)
(*                                                                         *)
(* The argument: of every thread, its place in thdpool_thd decides whether *)
(* it is listed, free, handed an item or working on one (Fits); the queue  *)
(* is in use only while nobody is free (Busy); so an item moves along      *)
(* queue or slot, hands, done, and is in one of these places (Accounted).  *)
(***************************************************************************)
EXTENDS ThdPool, ListLemmas, FiniteSetTheorems

\* What the place of a thread says about it.
Fits(t) ==
    /\ t \in thdlist <=> pc[t] \notin {"none", "exit"}
    /\ cur[t] # NoItem <=> pc[t] = "run"
    /\ slot[t] # NoItem => pc[t] \in {"start", "loop", "woken", "timedout"}
    /\ t \in Range(freelist) => slot[t] = NoItem /\ pc[t] \in {"wait", "woken", "timedout"}
    /\ pc[t] = "wait" => t \in Range(freelist)

\* The threads that thdpool_destroy waits for.
Running == {t \in Threads : pc[t] \notin {"none", "start"}}

\* The counters count.
Counted ==
    /\ nactthd = Cardinality(Running)
    /\ IsFiniteSet(consuming) /\ nwaitthd = Cardinality(consuming)

\* Items queue only while no thread is free.
Busy == queue # <<>> => freelist = <<>> /\ thdlist # {}

Given(i) == \E t \in Threads : slot[t] = i
Held(i) == \E t \in Threads : cur[t] = i

\* An item is in one kind of place, or in none.
Apart(i) ==
    /\ runs[i] \in {0, 1}
    /\ i \in Range(queue) => ~Given(i) /\ ~Held(i) /\ runs[i] = 0
    /\ Given(i) => ~Held(i) /\ runs[i] = 0
    /\ Held(i) => runs[i] = 0
    /\ call[i] = "ok" <=> i \in Range(queue) \/ Given(i) \/ Held(i) \/ runs[i] = 1

\* And in each kind of place it is once.
One(f) == \A t, u \in Threads : f[t] = f[u] /\ f[t] # NoItem => t = u
Single == IsInjective(queue) /\ One(slot) /\ One(cur)

Accounted == Single /\ \A i \in Items : Apart(i)

\* Nothing happens in a pool that is destroyed.
Over ==
    destroyed => /\ stopped /\ NobodyInside
                 /\ \A t \in Threads : pc[t] \in {"none", "start"}
                 /\ DestroyedAfterWork

IInv ==
    /\ TypeOK /\ Counted /\ IsInjective(freelist) /\ Busy
    /\ \A t \in Threads : Fits(t)
    /\ destroyed \/ Accounted
    /\ Over

\* No caller asks for the queue.
NoQueueOnly == \A i \in Items : ~Has(i, "queueonly")

-----------------------------------------------------------------------------
\* What a call of thdpool_enqueue does once it has the mutex: the item goes to
\* a free thread, to a new one, to the queue or nowhere, or the caller waits.

GiveFree(i) ==
    /\ freelist # <<>> /\ freelist' = Tail(freelist)
    /\ slot' = [slot EXCEPT ![Head(freelist)] = i]
    /\ pc' = Signalled(pc, Head(freelist))
    /\ call' = [call EXCEPT ![i] = "ok"]
    /\ UNCHANGED <<queue, thdlist>>

GiveNew(i, t) ==
    /\ pc[t] = "none" /\ pc' = [pc EXCEPT ![t] = "start"]
    /\ slot' = [slot EXCEPT ![t] = i]
    /\ thdlist' = thdlist \cup {t}
    /\ call' = [call EXCEPT ![i] = "ok"]
    /\ freelist = <<>> /\ UNCHANGED <<queue, freelist>>

Enqueues(i) ==
    /\ freelist = <<>> /\ ~may_create(i)
    /\ queue' = <<i>> \o queue \/ queue' = Append(queue, i)
    /\ call' = [call EXCEPT ![i] = "ok"]
    /\ UNCHANGED <<slot, pc, thdlist, freelist>>

Refused(i) ==
    /\ \E c \in {"blocked", "failed"} : call' = [call EXCEPT ![i] = c]
    /\ UNCHANGED <<queue, slot, pc, thdlist, freelist>>

CallStep(i) ==
    /\ i \in Items /\ call[i] \in {"idle", "signalled"} /\ ~destroyed
    /\ GiveFree(i) \/ (\E t \in Threads : GiveNew(i, t)) \/ Enqueues(i) \/ Refused(i)
    /\ mine' \in [Items -> Threads \cup {NoThd}] /\ waiting_for_thread' \in BOOLEAN
    /\ UNCHANGED <<poolVars, runs, ts, check_exit, cur, nactthd>>

\* thdpool_enqueue, before and after its wait, is one of these.
LEMMA AgainCalls ==
    ASSUME NoQueueOnly, TypeOK, PoolAssumption, NEW i \in Items, NEW w \in BOOLEAN, again(i, w)
    PROVE  /\ GiveFree(i) \/ (\E t \in Threads : GiveNew(i, t)) \/ Enqueues(i) \/ Refused(i)
           /\ mine' \in [Items -> Threads \cup {NoThd}] /\ waiting_for_thread' \in BOOLEAN
<1> USE DEF NoQueueOnly
<1>1. /\ mine \in [Items -> Threads \cup {NoThd}] /\ freelist \in Seq(Threads) /\ NoThd \notin Threads
      /\ pc \in [Threads -> PC]
  BY DEF TypeOK, PoolAssumption
<1>2. CASE freelist # <<>> /\ freelist' = Tail(freelist) /\ hand_over(i, Head(freelist), pc)
           /\ waiting_for_thread' = w /\ UNCHANGED thdlist
  <2>1. Head(freelist) \in Threads BY <1>1, <1>2
  <2>2. /\ slot' = [slot EXCEPT ![Head(freelist)] = i] /\ pc' = Signalled(pc, Head(freelist))
        /\ Return(i, "ok") /\ UNCHANGED queue
    BY <1>1, <1>2, <2>1 DEF hand_over
  <2> QED BY <1>1, <1>2, <2>2 DEF GiveFree, Return
<1>3. ASSUME NEW t \in Threads, freelist = <<>>, pc[t] = "none", thdlist' = thdlist \cup {t},
             UNCHANGED freelist, hand_over(i, t, [pc EXCEPT ![t] = "start"]),
             waiting_for_thread' = w
      PROVE  /\ GiveNew(i, t)
             /\ mine' \in [Items -> Threads \cup {NoThd}] /\ waiting_for_thread' \in BOOLEAN
  <2>1. /\ slot' = [slot EXCEPT ![t] = i] /\ pc' = Signalled([pc EXCEPT ![t] = "start"], t)
        /\ Return(i, "ok") /\ UNCHANGED queue
    BY <1>1, <1>3 DEF hand_over
  <2>2. pc' = [pc EXCEPT ![t] = "start"] BY <1>1, <2>1 DEF Signalled
  <2> QED BY Zenon, <1>1, <1>3, <2>1, <2>2 DEF GiveNew, Return
<1>4. CASE freelist = <<>> /\ ~may_create(i) /\ UNCHANGED <<thdlist, freelist>>
           /\ IF wait THEN block(i, NoThd) /\ UNCHANGED pc
              ELSE hand_over(i, NoThd, pc) /\ waiting_for_thread' = w
  <2>1. CASE wait BY <1>1, <1>4, <2>1 DEF block, Refused
  <2>2. CASE ~wait
    <3>1. hand_over(i, NoThd, pc) /\ Signalled(pc, NoThd) = pc BY <1>4, <2>2 DEF Signalled
    <3>2. \/ /\ queue' = <<i>> \o queue \/ queue' = Append(queue, i)
             /\ pc' = pc /\ Return(i, "ok") /\ UNCHANGED slot
          \/ pc' = pc /\ Return(i, "failed") /\ UNCHANGED <<queue, slot>>
      BY <3>1 DEF hand_over
    <3> QED BY <1>1, <1>4, <2>2, <3>2 DEF Return, Enqueues, Refused
  <2> QED BY <2>1, <2>2
<1> QED BY Zenon, <1>2, <1>3, <1>4 DEF again

\* A caller's step is such a call.
LEMMA EnqueueCalls ==
    ASSUME NoQueueOnly, IInv, NEW i \in Items, thdpool_enqueue(i) \/ enqueue_resume(i)
    PROVE  CallStep(i)
<1>1. TypeOK /\ waiting_for_thread \in BOOLEAN /\ mine \in [Items -> Threads \cup {NoThd}]
  BY DEF IInv, TypeOK
<1>2. ~destroyed
  BY Zenon DEF IInv, Over, NobodyInside, thdpool_enqueue, enqueue_resume
<1>3. /\ call[i] \in {"idle", "signalled"}
      /\ UNCHANGED <<poolVars, runs, ts, check_exit, cur, nactthd>>
  BY Zenon DEF thdpool_enqueue, enqueue_resume
<1>4. CASE Return(i, "failed") /\ UNCHANGED <<listVars, pc, slot, waiting_for_thread>>
  BY <1>1, <1>2, <1>3, <1>4 DEF Return, CallStep, Refused, listVars
<1>5. CASE again(i, waiting_for_thread)
  BY <1>1, <1>2, <1>3, <1>5, AgainCalls, PoolAssumption DEF CallStep
<1>6. CASE again(i, FALSE)
  BY Zenon, <1>1, <1>2, <1>3, <1>6, AgainCalls, PoolAssumption DEF CallStep
<1> QED BY Zenon, <1>4, <1>5, <1>6 DEF thdpool_enqueue, enqueue_resume, NoQueueOnly

-----------------------------------------------------------------------------
\* What get_work_ll and what follows it do.

Takes(t, i) ==
    /\ pc' = [pc EXCEPT ![t] = "run"] /\ cur' = [cur EXCEPT ![t] = i]
    /\ UNCHANGED <<thdlist, freelist, ts>>

TakesSlot(t) ==
    /\ slot[t] # NoItem /\ slot' = [slot EXCEPT ![t] = NoItem]
    /\ Takes(t, slot[t]) /\ UNCHANGED <<queue, runs>>

\* The first n items of the queue are given back.
Expires(n) == runs' = [i \in Items |-> runs[i] + (IF \E k \in 1 .. n : queue[k] = i THEN 1 ELSE 0)]

TakesQueue(t, n) ==
    /\ slot[t] = NoItem /\ n < Len(queue)
    /\ Takes(t, queue[n + 1]) /\ Expires(n)
    /\ queue' = SubSeq(queue, n + 2, Len(queue)) /\ UNCHANGED slot

Sleeps(t) ==
    /\ freelist' = IF t \in Range(freelist) THEN freelist ELSE <<t>> \o freelist
    /\ pc' = [pc EXCEPT ![t] = "wait"]
    /\ ts' \in [Threads -> BOOLEAN] /\ UNCHANGED thdlist

FindsNothing(t) ==
    /\ slot[t] = NoItem /\ Expires(Len(queue)) /\ queue' = <<>>
    /\ Sleeps(t) \/ (leave(t) /\ UNCHANGED ts)
    /\ UNCHANGED <<slot, cur>>

Looks(t) ==
    /\ pc[t] \in {"loop", "woken", "timedout"}
    /\ TakesSlot(t) \/ (\E n \in 0 .. Len(queue) : TakesQueue(t, n)) \/ FindsNothing(t)

LookStep(t) ==
    /\ Looks(t)
    /\ call' \in [Items -> Calls] /\ check_exit' \in [Threads -> BOOLEAN]
    /\ \A i \in Items : call'[i] = call[i] \/ (call[i] = "blocked" /\ call'[i] = "signalled")
    /\ UNCHANGED <<poolVars, mine, waiting_for_thread, nactthd>>

\* get_work is one of these.
LEMMA GetWork ==
    ASSUME TypeOK, PoolAssumption, NEW t \in Threads, NEW e \in BOOLEAN, NEW timed \in BOOLEAN,
           pc[t] \in {"loop", "woken", "timedout"}, get_work(t, e, timed)
    PROVE  Looks(t)
<1>1. ts \in [Threads -> BOOLEAN] /\ queue \in Seq(Items) /\ Len(queue) \in Nat
      /\ lingersecs \in BOOLEAN /\ NThds \in Nat \cup {NThds}
  BY LenProperties DEF TypeOK, PoolAssumption
<1>2. CASE slot[t] # NoItem
  BY <1>2 DEF get_work, Looks, TakesSlot, Takes
<1>3. CASE slot[t] = NoItem
  <2>1. PICK n \in 0 .. Len(queue) :
          /\ Expires(n) /\ UNCHANGED slot
          /\ IF n < Len(queue)
             THEN /\ cur' = [cur EXCEPT ![t] = queue[n + 1]]
                  /\ queue' = SubSeq(queue, n + 2, Len(queue))
                  /\ pc' = [pc EXCEPT ![t] = "run"]
                  /\ UNCHANGED <<thdlist, freelist, ts>>
             ELSE queue' = <<>> /\ UNCHANGED cur /\ no_work(t, e, timed)
    BY Zenon, <1>3 DEF get_work, Expires
  <2>2. CASE n < Len(queue)
    <3>1. TakesQueue(t, n) BY <1>3, <2>1, <2>2 DEF TakesQueue, Takes
    <3> QED BY <3>1 DEF Looks
  <2>3. CASE ~(n < Len(queue))
    <3>1. n = Len(queue) BY <1>1, <2>3
    <3>2. no_work(t, e, timed) => Sleeps(t) \/ (leave(t) /\ UNCHANGED ts)
      <4> DEFINE x == NThds > minnthd /\ ~timed
      <4>1. x \in BOOLEAN /\ (timed \/ x) \in BOOLEAN OBVIOUS
      <4> HIDE DEF x
      <4>2. SUFFICES ASSUME no_work(t, e, timed) PROVE Sleeps(t) \/ (leave(t) /\ UNCHANGED ts) OBVIOUS
      <4>3. \/ leave(t) /\ UNCHANGED ts
            \/ /\ freelist' = IF t \in Range(freelist) THEN freelist ELSE <<t>> \o freelist
               /\ pc' = [pc EXCEPT ![t] = "wait"]
               /\ ts' = [ts EXCEPT ![t] = timed \/ x]
               /\ UNCHANGED thdlist
        BY <4>2, Zenon DEF no_work, x
      <4> QED BY <4>1, <4>3, <1>1 DEF Sleeps
    <3> QED BY <1>3, <2>1, <2>3, <3>1, <3>2 DEF Looks, FindsNothing
  <2> QED BY <2>2, <2>3
<1> QED BY <1>2, <1>3

\* The steps of thdpool_thd that look for work.
LEMMA LookSteps ==
    ASSUME IInv, NEW t \in Threads, thd_loop(t) \/ thd_wakes(t)
    PROVE  LookStep(t)
<1> USE PoolAssumption DEF IInv
<1>1. /\ TypeOK /\ call \in [Items -> Calls] /\ check_exit \in [Threads -> BOOLEAN]
      /\ ts[t] \in BOOLEAN
  BY DEF TypeOK
<1>2. CASE thd_loop(t)
  <2>1. Looks(t) BY Zenon, <1>1, <1>2, GetWork DEF thd_loop
  <2>2. check_exit' \in [Threads -> BOOLEAN]
    <3>1. too_many \in BOOLEAN BY DEF too_many
    <3> HIDE DEF too_many
    <3> QED BY <1>1, <1>2, <3>1 DEF thd_loop
  <2>3. \/ \E i \in {i \in Items : call[i] = "blocked"} : call' = [call EXCEPT ![i] = "signalled"]
        \/ UNCHANGED call
    BY <1>2 DEF thd_loop
  <2>4. /\ call' \in [Items -> Calls]
        /\ \A i \in Items : call'[i] = call[i] \/ (call[i] = "blocked" /\ call'[i] = "signalled")
    BY <1>1, <2>3 DEF Calls
  <2> QED BY <1>2, <2>1, <2>2, <2>4 DEF LookStep, thd_loop
<1>3. CASE thd_wakes(t)
  <2>1. Looks(t) BY Zenon, <1>1, <1>3, GetWork DEF thd_wakes
  <2> QED BY <1>1, <1>3, <2>1 DEF LookStep, thd_wakes, callVars
<1> QED BY <1>2, <1>3
-----------------------------------------------------------------------------
\* The types.

\* A list of threads with one more, one less, or without its top.
LEMMA FreelistType ==
    ASSUME TypeOK, NEW t \in Threads, IsInjective(freelist)
    PROVE  /\ <<t>> \o freelist \in Seq(Threads)
           /\ listc_rfl(freelist, t) \in Seq(Threads)
           /\ freelist # <<>> => Tail(freelist) \in Seq(Threads) /\ Head(freelist) \in Threads
<1>1. freelist \in Seq(Threads) BY DEF TypeOK
<1> QED BY <1>1, AddToTop, RemoveElement, RemoveTop, HeadTailProperties

\* A queue with one more item, at either end, or without its first items.
LEMMA QueueType ==
    ASSUME TypeOK, NEW n \in 0..Len(queue), n < Len(queue)
    PROVE  /\ queue[n + 1] \in Items
           /\ SubSeq(queue, n + 2, Len(queue)) \in Seq(Items)
<1>1. queue \in Seq(Items) /\ Len(queue) \in Nat BY LenProperties DEF TypeOK
<1>2. n + 1 \in 1..Len(queue) /\ n + 1 \in 0..Len(queue) /\ (n + 1) + 1 = n + 2 BY <1>1
<1>3. queue[n + 1] \in Items BY <1>1, <1>2, ElementOfSeq
<1>4. SubSeq(queue, (n + 1) + 1, Len(queue)) \in Seq(Items) BY <1>1, <1>2, TakeOff
<1> QED BY <1>2, <1>3, <1>4

\* A call of thdpool_enqueue keeps the types.
LEMMA TypeCall ==
    ASSUME IInv, NEW i \in Items, CallStep(i)
    PROVE  TypeOK'
<1> USE DEF IInv
<1>1. /\ TypeOK /\ pc \in [Threads -> PC] /\ slot \in [Threads -> Items \cup {NoItem}]
      /\ call \in [Items -> Calls] /\ queue \in Seq(Items) /\ freelist \in Seq(Threads)
      /\ thdlist \subseteq Threads /\ IsInjective(freelist)
  BY DEF TypeOK
<1>2. /\ UNCHANGED <<poolVars, runs, ts, check_exit, cur, nactthd>>
      /\ mine' \in [Items -> Threads \cup {NoThd}] /\ waiting_for_thread' \in BOOLEAN
  BY DEF CallStep
<1>3. /\ pc' \in [Threads -> PC] /\ slot' \in [Threads -> Items \cup {NoItem}]
      /\ call' \in [Items -> Calls] /\ queue' \in Seq(Items) /\ freelist' \in Seq(Threads)
      /\ thdlist' \subseteq Threads
  <2>1. CASE GiveFree(i)
    <3>1. Tail(freelist) \in Seq(Threads) /\ Head(freelist) \in Threads
      BY <1>1, <2>1, HeadTailProperties DEF GiveFree
    <3>2. pc' \in [Threads -> PC] BY <1>1, <2>1, <3>1 DEF GiveFree, Signalled, PC
    <3>3. UNCHANGED <<queue, thdlist>> /\ freelist' = Tail(freelist) BY <2>1 DEF GiveFree
    <3>4. slot' \in [Threads -> Items \cup {NoItem}] /\ call' \in [Items -> Calls]
      BY <1>1, <2>1, <3>1 DEF GiveFree, Calls
    <3> QED BY <1>1, <3>1, <3>2, <3>3, <3>4
  <2>2. CASE \E t \in Threads : GiveNew(i, t)
    BY <1>1, <2>2 DEF GiveNew, PC, Calls
  <2>3. CASE Enqueues(i)
    <3>1. queue' \in Seq(Items)
      <4>1. <<i>> \o queue \in Seq(Items) BY <1>1, AddToTop
      <4>2. Append(queue, i) \in Seq(Items) BY <1>1, AddToBottom
      <4> QED BY Zenon, <2>3, <4>1, <4>2 DEF Enqueues
    <3>2. UNCHANGED <<slot, pc, thdlist, freelist>> /\ call' \in [Items -> Calls]
      BY <1>1, <2>3 DEF Enqueues, Calls
    <3> QED BY <1>1, <3>1, <3>2
  <2>4. CASE Refused(i)
    BY <1>1, <2>4 DEF Refused, Calls
  <2> QED BY <2>1, <2>2, <2>3, <2>4 DEF CallStep
<1> QED BY <1>1, <1>2, <1>3 DEF TypeOK, poolVars

\* Items that are given back are counted.
LEMMA ExpiresType ==
    ASSUME TypeOK, NEW n, Expires(n)
    PROVE  runs' \in [Items -> Nat]
  BY DEF TypeOK, Expires

\* A look for work keeps the types.
LEMMA TypeLook ==
    ASSUME IInv, NEW t \in Threads, LookStep(t)
    PROVE  TypeOK'
<1> USE DEF IInv
<1>1. /\ TypeOK /\ pc \in [Threads -> PC] /\ slot \in [Threads -> Items \cup {NoItem}]
      /\ cur \in [Threads -> Items \cup {NoItem}] /\ runs \in [Items -> Nat]
      /\ queue \in Seq(Items) /\ freelist \in Seq(Threads) /\ ts \in [Threads -> BOOLEAN]
      /\ thdlist \subseteq Threads /\ IsInjective(freelist)
  BY DEF TypeOK
<1>2. /\ UNCHANGED <<poolVars, mine, waiting_for_thread, nactthd>>
      /\ call' \in [Items -> Calls] /\ check_exit' \in [Threads -> BOOLEAN]
  BY DEF LookStep
<1>3. /\ pc' \in [Threads -> PC] /\ slot' \in [Threads -> Items \cup {NoItem}]
      /\ cur' \in [Threads -> Items \cup {NoItem}] /\ runs' \in [Items -> Nat]
      /\ queue' \in Seq(Items) /\ freelist' \in Seq(Threads) /\ ts' \in [Threads -> BOOLEAN]
      /\ thdlist' \subseteq Threads
  <2>1. CASE TakesSlot(t)
    BY <1>1, <2>1 DEF TakesSlot, Takes, PC
  <2>2. ASSUME NEW n \in 0 .. Len(queue), TakesQueue(t, n) PROVE <1>3
    <3>2. queue[n + 1] \in Items /\ queue' \in Seq(Items) BY <1>1, <2>2, QueueType DEF TakesQueue
    <3>3. runs' \in [Items -> Nat] BY <1>1, <2>2, ExpiresType DEF TakesQueue
    <3>4. /\ pc' = [pc EXCEPT ![t] = "run"] /\ cur' = [cur EXCEPT ![t] = queue[n + 1]]
          /\ UNCHANGED <<thdlist, freelist, ts, slot>>
      BY <2>2 DEF TakesQueue, Takes
    <3>5. pc' \in [Threads -> PC] /\ cur' \in [Threads -> Items \cup {NoItem}]
      BY <1>1, <3>2, <3>4 DEF PC
    <3> QED BY <1>1, <3>2, <3>3, <3>4, <3>5
  <2>3. CASE FindsNothing(t)
    <3>1. runs' \in [Items -> Nat] BY <1>1, <2>3, ExpiresType DEF FindsNothing
    <3>2. queue' \in Seq(Items) /\ UNCHANGED <<slot, cur>> BY <2>3, EmptyList DEF FindsNothing
    <3>3. CASE Sleeps(t)
      BY <1>1, <3>1, <3>2, <3>3, FreelistType DEF Sleeps, PC
    <3>4. CASE leave(t) /\ UNCHANGED ts
      BY <1>1, <3>1, <3>2, <3>4, FreelistType DEF leave, PC
    <3> QED BY <2>3, <3>3, <3>4 DEF FindsNothing
  <2> QED BY <2>1, <2>2, <2>3 DEF LookStep, Looks
<1> QED BY Zenon, <1>1, <1>2, <1>3 DEF TypeOK, poolVars

\* The other steps of a thread.
Moves(t) ==
    \/ thd_started(t) \/ thd_timeout(t) \/ thd_spurious(t) \/ thd_work_done(t)
    \/ thd_check_exit(t) \/ thd_exit(t)

\* Those that change the settings of the pool, and no thread's place but that
\* the threads that wait are woken.
Sets ==
    \/ \E t \in Threads : thdpool_add_waitthd(t) \/ thdpool_remove_waitthd(t)
    \/ \E n \in MaxThreads : thdpool_set_maxthds(n)
    \/ thdpool_stop \/ thdpool_resume \/ thdpool_destroy

\* A step is a call, a look for work, another step of a thread, or a setting.
LEMMA Kinds ==
    ASSUME NoQueueOnly, IInv, Next
    PROVE  \/ \E i \in Items : CallStep(i)
           \/ \E t \in Threads : LookStep(t) \/ Moves(t)
           \/ Sets
  BY EnqueueCalls, LookSteps DEF Next, ThdNext, Moves, Sets

\* There are finitely many threads to count.
LEMMA FiniteThreads ==
    ASSUME TypeOK
    PROVE  IsFiniteSet(thdlist) /\ Cardinality(thdlist) \in Nat /\ IsFiniteSet(Running)
<1>1. thdlist \in SUBSET Threads /\ Running \in SUBSET Threads /\ IsFiniteSet(Threads)
  BY PoolAssumption DEF TypeOK, Running
<1> QED BY <1>1, FS_Subset, FS_CardinalityType

\* The other steps of a thread keep the types.
LEMMA TypeMoves ==
    ASSUME IInv, NEW t \in Threads, Moves(t), nactthd' \in Nat
    PROVE  TypeOK'
<1> USE DEF IInv
<1>1. /\ TypeOK /\ pc \in [Threads -> PC] /\ slot \in [Threads -> Items \cup {NoItem}]
      /\ cur \in [Threads -> Items \cup {NoItem}] /\ runs \in [Items -> Nat]
      /\ freelist \in Seq(Threads) /\ thdlist \subseteq Threads /\ IsInjective(freelist)
      /\ Fits(t)
  BY DEF TypeOK
<1>2. UNCHANGED <<poolVars, queue, callVars, ts, check_exit, slot>>
  BY Zenon DEF Moves, thd_started, thd_timeout, thd_spurious, thd_work_done, thd_check_exit, thd_exit,
         listVars
<1>3. /\ pc' \in [Threads -> PC] /\ cur' \in [Threads -> Items \cup {NoItem}]
      /\ runs' \in [Items -> Nat] /\ freelist' \in Seq(Threads) /\ thdlist' \subseteq Threads
  <2>1. CASE thd_started(t) BY <1>1, <2>1 DEF thd_started, PC, listVars
  <2>2. CASE thd_timeout(t) BY <1>1, <2>2 DEF thd_timeout, PC, listVars
  <2>3. CASE thd_spurious(t) BY <1>1, <2>3 DEF thd_spurious, PC, listVars
  <2>4. CASE thd_work_done(t)
    <3>1. cur[t] \in Items BY <1>1, <2>4 DEF thd_work_done, Fits
    <3>2. pc' \in [Threads -> PC] BY <1>1, <2>4 DEF thd_work_done, PC
    <3>3. cur' \in [Threads -> Items \cup {NoItem}] BY <1>1, <2>4 DEF thd_work_done
    <3>4. runs' \in [Items -> Nat] BY <1>1, <2>4, <3>1 DEF thd_work_done
    <3> QED BY <1>1, <2>4, <3>2, <3>3, <3>4 DEF thd_work_done, listVars
  <2>5. CASE thd_check_exit(t)
    <3>1. listc_rfl(freelist, t) \in Seq(Threads) BY <1>1, FreelistType
    <3>2. UNCHANGED <<runs, cur>> BY <2>5 DEF thd_check_exit
    <3>3. CASE leave(t) BY <1>1, <3>1, <3>2, <3>3 DEF leave, PC
    <3>4. CASE ~leave(t) BY <1>1, <2>5, <3>2, <3>4 DEF thd_check_exit, PC
    <3> QED BY <3>3, <3>4
  <2>6. CASE thd_exit(t) BY <1>1, <2>6 DEF thd_exit, PC, listVars
  <2> QED BY <2>1, <2>2, <2>3, <2>4, <2>5, <2>6 DEF Moves
<1> QED BY Zenon, <1>1, <1>2, <1>3 DEF TypeOK, poolVars, callVars

\* The changes of settings keep the types.
LEMMA TypeSets ==
    ASSUME IInv, Sets, nwaitthd' \in Nat
    PROVE  TypeOK'
<1> USE DEF IInv
<1>1. TypeOK OBVIOUS
<1>2. UNCHANGED <<wait, thdlist, freelist, ts, check_exit, slot, cur, nactthd, callVars, runs>>
  BY Zenon DEF Sets, thdpool_add_waitthd, thdpool_remove_waitthd, thdpool_set_maxthds, thdpool_stop,
         thdpool_resume, thdpool_destroy, listVars, thdVars
<1>3. pc' \in [Threads -> PC]
  <2>1. CASE thdpool_stop BY <1>1, <2>1 DEF thdpool_stop, TypeOK, PC
  <2>2. CASE ~thdpool_stop
    <3>1. UNCHANGED pc
      BY Zenon, <2>2 DEF Sets, thdpool_add_waitthd, thdpool_remove_waitthd, thdpool_set_maxthds,
         thdpool_resume, thdpool_destroy, thdVars
    <3> QED BY <1>1, <3>1 DEF TypeOK
  <2> QED BY <2>1, <2>2
<1>4. queue' \in Seq(Items)
  <2>1. queue' = queue \/ queue' = <<>>
    BY Zenon DEF Sets, thdpool_add_waitthd, thdpool_remove_waitthd, thdpool_set_maxthds, thdpool_stop,
           thdpool_resume, thdpool_destroy, listVars
  <2> QED BY Zenon, <1>1, <2>1, EmptyList DEF TypeOK
<1>5. consuming' \subseteq Consumers
  BY Zenon, <1>1 DEF TypeOK, Sets, thdpool_add_waitthd, thdpool_remove_waitthd, thdpool_set_maxthds,
              thdpool_stop, thdpool_resume, thdpool_destroy
<1>6. stopped' \in BOOLEAN /\ destroyed' \in BOOLEAN /\ maxnthd' \in MaxThreads
  BY Zenon, <1>1 DEF TypeOK, Sets, thdpool_add_waitthd, thdpool_remove_waitthd, thdpool_set_maxthds,
              thdpool_stop, thdpool_resume, thdpool_destroy
<1> QED BY <1>1, <1>2, <1>3, <1>4, <1>5, <1>6 DEF TypeOK, callVars

-----------------------------------------------------------------------------
\* The threads.

\* The step is about no thread but t.
Alone(t) ==
    \A u \in Threads \ {t} :
      /\ pc'[u] = pc[u] /\ slot'[u] = slot[u] /\ cur'[u] = cur[u]
      /\ u \in thdlist' <=> u \in thdlist
      /\ u \in Range(freelist') <=> u \in Range(freelist)

\* What its place says about a thread remains true of the others.
LEMMA FitsFrame ==
    ASSUME NEW t \in Threads, Alone(t), \A u \in Threads : Fits(u)
    PROVE  \A u \in Threads \ {t} : Fits(u)'
  BY Zenon DEF Alone, Fits

\* The free list is a list of threads, none of them twice.
LEMMA FreeList ==
    ASSUME IInv
    PROVE  freelist \in Seq(Threads) /\ IsInjective(freelist) /\ Range(freelist) \subseteq Threads
  BY ElementAt DEF IInv, TypeOK

\* A call keeps the threads' places and their lists in step.
LEMMA FitsCall ==
    ASSUME IInv, NEW i \in Items, CallStep(i)
    PROVE  IsInjective(freelist') /\ \A t \in Threads : Fits(t)'
<1>1. /\ freelist \in Seq(Threads) /\ IsInjective(freelist) /\ Range(freelist) \subseteq Threads
      /\ pc \in [Threads -> PC] /\ slot \in [Threads -> Items \cup {NoItem}]
      /\ \A t \in Threads : Fits(t)
  BY FreeList DEF IInv, TypeOK
<1>2. UNCHANGED cur BY DEF CallStep
<1>3. CASE GiveFree(i)
  <2>0. PICK h \in Threads : h = Head(freelist)
    BY <1>1, <1>3, RemoveTop DEF GiveFree
  <2>1. /\ h \in Range(freelist) /\ IsInjective(Tail(freelist))
        /\ Range(Tail(freelist)) = Range(freelist) \ {h}
    BY <1>1, <1>3, <2>0, RemoveTop DEF GiveFree
  <2>2. /\ freelist' = Tail(freelist) /\ slot' = [slot EXCEPT ![h] = i] /\ thdlist' = thdlist
        /\ pc' = Signalled(pc, h)
    BY <1>3, <2>0 DEF GiveFree
  <2>3. pc[h] \in {"wait", "woken", "timedout"} /\ h \in thdlist /\ cur[h] = NoItem
    BY <1>1, <2>1 DEF Fits
  <2>4. /\ pc'[h] \in {"woken", "timedout"}
        /\ \A u \in Threads \ {h} : pc'[u] = pc[u]
    BY <1>1, <2>2, <2>3, PoolAssumption DEF Signalled, PoolAssumption
  <2>5. Range(freelist') = Range(freelist) \ {h} /\ IsInjective(freelist') BY <2>1, <2>2
  <2>6. Alone(h) BY Zenon, <1>1, <1>2, <2>1, <2>2, <2>4, <2>5 DEF Alone
  <2>7. Fits(h)' BY Zenon, <1>1, <1>2, <2>1, <2>2, <2>3, <2>4, <2>5 DEF Fits
  <2> QED BY <2>1, <2>5, <2>6, <2>7, <1>1, FitsFrame
<1>4. ASSUME NEW t \in Threads, GiveNew(i, t) PROVE  IsInjective(freelist') /\ \A u \in Threads : Fits(u)'
  <2>1. /\ pc[t] = "none" /\ pc' = [pc EXCEPT ![t] = "start"] /\ slot' = [slot EXCEPT ![t] = i]
        /\ thdlist' = thdlist \cup {t} /\ UNCHANGED freelist
    BY <1>4 DEF GiveNew
  <2>2. Fits(t) /\ t \notin Range(freelist) /\ cur[t] = NoItem BY Zenon, <1>1, <2>1 DEF Fits
  <2>3. Alone(t) BY <1>1, <1>2, <2>1 DEF Alone
  <2>4. pc'[t] = "start" /\ t \in thdlist' BY <1>1, <2>1
  <2>5. Fits(t)' BY Zenon, <1>2, <2>1, <2>2, <2>4 DEF Fits
  <2> QED BY <1>1, <2>1, <2>3, <2>5, FitsFrame
<1>5. CASE Enqueues(i)
  BY <1>1, <1>2, <1>5 DEF Enqueues, Fits
<1>6. CASE Refused(i)
  BY <1>1, <1>2, <1>6 DEF Refused, Fits
<1> QED BY <1>3, <1>4, <1>5, <1>6 DEF CallStep

\* A thread that leaves is on no list.
LEMMA FitsLeave ==
    ASSUME IInv, NEW t \in Threads, leave(t), slot[t] = NoItem, cur[t] = NoItem,
           UNCHANGED <<slot, cur>>
    PROVE  IsInjective(freelist') /\ \A u \in Threads : Fits(u)'
<1>1. /\ freelist \in Seq(Threads) /\ IsInjective(freelist)
      /\ pc \in [Threads -> PC] /\ \A u \in Threads : Fits(u)
  BY FreeList DEF IInv, TypeOK
<1>2. IsInjective(freelist') /\ Range(freelist') = Range(freelist) \ {t}
  BY Zenon, <1>1, RemoveElement DEF leave
<1>3. thdlist' = thdlist \ {t} /\ pc' = [pc EXCEPT ![t] = "exit"] BY DEF leave
<1>4. Alone(t) BY <1>1, <1>2, <1>3 DEF Alone
<1>5. pc'[t] = "exit" BY <1>1, <1>3
<1>6. Fits(t)' BY <1>2, <1>3, <1>5 DEF Fits
<1> QED BY Zenon, <1>1, <1>2, <1>4, <1>6, FitsFrame

\* A thread that finds work is not on the free list: the comment in
\* thdpool_thd, "we will already have been removed from the free list".
LEMMA NotFree ==
    ASSUME IInv, NEW t \in Threads,
           slot[t] # NoItem \/ queue # <<>> \/ pc[t] \notin {"wait", "woken", "timedout"}
    PROVE  t \notin Range(freelist)
<1>1. Fits(t) /\ Busy BY DEF IInv
<1>2. CASE queue # <<>>
  BY Zenon, <1>1, <1>2, EmptyList DEF Busy
<1> QED BY Zenon, <1>1, <1>2 DEF Fits

\* A thread with work keeps its place and the lists in step.
LEMMA FitsTakes ==
    ASSUME IInv, NEW t \in Threads, pc[t] \in {"loop", "woken", "timedout"}, NEW i \in Items,
           Takes(t, i), slot' = [slot EXCEPT ![t] = NoItem], t \notin Range(freelist)
    PROVE  IsInjective(freelist') /\ \A u \in Threads : Fits(u)'
<1>1. /\ IsInjective(freelist) /\ pc \in [Threads -> PC] /\ slot \in [Threads -> Items \cup {NoItem}]
      /\ cur \in [Threads -> Items \cup {NoItem}] /\ \A u \in Threads : Fits(u)
  BY DEF IInv, TypeOK
<1>2. /\ pc' = [pc EXCEPT ![t] = "run"] /\ cur' = [cur EXCEPT ![t] = i]
      /\ UNCHANGED <<thdlist, freelist>>
  BY DEF Takes
<1>3. Alone(t) BY <1>1, <1>2 DEF Alone
<1>4. pc'[t] = "run" /\ cur'[t] = i /\ slot'[t] = NoItem /\ i # NoItem
  BY <1>1, <1>2, PoolAssumption DEF PoolAssumption
<1>5. t \in thdlist' BY <1>1, <1>2 DEF Fits
<1>6. Fits(t)' BY <1>2, <1>4, <1>5 DEF Fits
<1> QED BY <1>1, <1>2, <1>3, <1>6, FitsFrame

\* A look for work keeps the threads' places and their lists in step.
LEMMA FitsLook ==
    ASSUME IInv, NEW t \in Threads, Looks(t)
    PROVE  IsInjective(freelist') /\ \A u \in Threads : Fits(u)'
<1>1. /\ TypeOK /\ freelist \in Seq(Threads) /\ IsInjective(freelist)
      /\ pc \in [Threads -> PC] /\ slot \in [Threads -> Items \cup {NoItem}]
      /\ pc[t] \in {"loop", "woken", "timedout"}
      /\ \A u \in Threads : Fits(u)
  BY Zenon, FreeList DEF IInv, TypeOK, Looks
<1>2. CASE TakesSlot(t)
  <2>1. slot[t] \in Items /\ t \notin Range(freelist) BY <1>1, <1>2, NotFree DEF TakesSlot
  <2> QED BY Zenon, <1>1, <1>2, <2>1, FitsTakes DEF TakesSlot
<1>3. ASSUME NEW n \in 0..Len(queue), TakesQueue(t, n)
      PROVE  IsInjective(freelist') /\ \A u \in Threads : Fits(u)'
  <2>1. n < Len(queue) /\ slot[t] = NoItem /\ UNCHANGED slot /\ Takes(t, queue[n + 1])
    BY <1>3 DEF TakesQueue
  <2>2. queue # <<>>
    <3>1. queue = <<>> => Len(queue) = 0 BY EmptyList
    <3> QED BY <2>1, <3>1
  <2>3. queue[n + 1] \in Items BY <1>1, <2>1, QueueType
  <2>4. slot' = [slot EXCEPT ![t] = NoItem] BY <1>1, <2>1
  <2> QED BY Zenon, <1>1, <2>1, <2>2, <2>3, <2>4, NotFree, FitsTakes
<1>4. CASE FindsNothing(t)
  <2>1. slot[t] = NoItem /\ cur[t] = NoItem /\ UNCHANGED <<slot, cur>>
    BY <1>1, <1>4 DEF FindsNothing, Fits
  <2>2. CASE leave(t) BY <2>1, <2>2, FitsLeave
  <2>3. CASE Sleeps(t)
    <3>1. IsInjective(freelist') /\ Range(freelist') = Range(freelist) \cup {t}
      BY <1>1, <2>3, AddToTop DEF Sleeps
    <3>2. pc' = [pc EXCEPT ![t] = "wait"] /\ UNCHANGED thdlist BY <2>3 DEF Sleeps
    <3>3. Alone(t) BY <1>1, <2>1, <3>1, <3>2 DEF Alone
    <3>4. pc'[t] = "wait" /\ t \in thdlist' BY <1>1, <3>2 DEF Fits
    <3>5. Fits(t)' BY Zenon, <2>1, <3>1, <3>4 DEF Fits
    <3> QED BY Zenon, <1>1, <3>1, <3>3, <3>5, FitsFrame
  <2> QED BY <1>4, <2>2, <2>3 DEF FindsNothing
<1> QED BY <1>2, <1>3, <1>4 DEF Looks

\* The other steps of a thread do.
LEMMA FitsMoves ==
    ASSUME IInv, NEW t \in Threads, Moves(t)
    PROVE  IsInjective(freelist') /\ \A u \in Threads : Fits(u)'
<1>1. /\ IsInjective(freelist) /\ pc \in [Threads -> PC]
      /\ cur \in [Threads -> Items \cup {NoItem}] /\ \A u \in Threads : Fits(u)
  BY DEF IInv, TypeOK
<1>2. UNCHANGED slot
  BY Zenon DEF Moves, thd_started, thd_timeout, thd_spurious, thd_work_done, thd_check_exit, thd_exit
<1>3. CASE thd_check_exit(t) /\ leave(t)
  <2>1. slot[t] = NoItem /\ cur[t] = NoItem /\ UNCHANGED <<slot, cur>>
    BY <1>1, <1>2, <1>3 DEF thd_check_exit, Fits
  <2> QED BY Zenon, <1>3, <2>1, FitsLeave
<1>4. CASE ~(thd_check_exit(t) /\ leave(t))
  <2>1. UNCHANGED <<thdlist, freelist>>
    BY Zenon, <1>4 DEF Moves, thd_started, thd_timeout, thd_spurious, thd_work_done, thd_check_exit, thd_exit, listVars
  <2>2. \/ pc[t] = "start" /\ pc' = [pc EXCEPT ![t] = "loop"] /\ UNCHANGED cur
        \/ pc[t] = "wait" /\ pc' = [pc EXCEPT ![t] = "woken"] /\ UNCHANGED cur
        \/ pc[t] = "wait" /\ pc' = [pc EXCEPT ![t] = "timedout"] /\ UNCHANGED cur
        \/ pc[t] = "check" /\ pc' = [pc EXCEPT ![t] = "loop"] /\ UNCHANGED cur
        \/ pc[t] = "exit" /\ pc' = [pc EXCEPT ![t] = "none"] /\ UNCHANGED cur
        \/ /\ pc[t] = "run" /\ cur' = [cur EXCEPT ![t] = NoItem]
           /\ \E p \in {"check", "loop"} : pc' = [pc EXCEPT ![t] = p]
    BY Zenon, <1>4 DEF Moves, thd_started, thd_timeout, thd_spurious, thd_work_done, thd_check_exit, thd_exit
  <2>3. Alone(t) BY <1>1, <1>2, <2>1, <2>2 DEF Alone
  <2>4. Fits(t) BY <1>1
  <2>5. Fits(t)' BY <1>1, <1>2, <2>1, <2>2, <2>4 DEF Fits
  <2> QED BY <1>1, <2>1, <2>3, <2>5, FitsFrame
<1> QED BY <1>3, <1>4

\* And so do the changes of settings: those that thdpool_stop wakes are free.
LEMMA FitsSets ==
    ASSUME IInv, Sets
    PROVE  IsInjective(freelist') /\ \A u \in Threads : Fits(u)'
<1>1. /\ IsInjective(freelist) /\ pc \in [Threads -> PC] /\ \A u \in Threads : Fits(u)
  BY DEF IInv, TypeOK
<1>2. UNCHANGED <<thdlist, freelist, slot, cur>>
  BY Zenon DEF Sets, thdpool_add_waitthd, thdpool_remove_waitthd, thdpool_set_maxthds, thdpool_stop,
         thdpool_resume, thdpool_destroy, listVars, thdVars
<1>3. \A u \in Threads : pc'[u] = pc[u] \/ (pc[u] = "wait" /\ pc'[u] = "woken")
  BY Zenon, <1>1 DEF Sets, thdpool_add_waitthd, thdpool_remove_waitthd, thdpool_set_maxthds, thdpool_stop,
         thdpool_resume, thdpool_destroy, thdVars
<1>4. ASSUME NEW u \in Threads PROVE Fits(u)'
  BY Zenon, <1>1, <1>2, <1>3 DEF Fits
<1> QED BY <1>1, <1>2, <1>4

-----------------------------------------------------------------------------
\* Items queue only while no thread is free.
LEMMA BusyStep ==
    ASSUME NoQueueOnly, IInv, Next
    PROVE  Busy'
<1>1. /\ Busy /\ thdlist \subseteq Threads /\ nwaitthd \in Nat /\ maxnthd \in Nat
      /\ IsFiniteSet(thdlist) /\ Cardinality(thdlist) \in Nat
  <2>1. TypeOK /\ thdlist \in SUBSET Threads /\ maxnthd \in MaxThreads /\ Busy /\ nwaitthd \in Nat
    BY DEF IInv, TypeOK
  <2>2. IsFiniteSet(thdlist) /\ Cardinality(thdlist) \in Nat
    BY <2>1, FS_Subset, FS_CardinalityType, PoolAssumption DEF PoolAssumption
  <2> QED BY <2>1, <2>2, PoolAssumption DEF PoolAssumption
<1>2. ASSUME NEW i \in Items, CallStep(i) PROVE Busy'
  <2>1. CASE GiveFree(i) BY <1>1, <2>1 DEF GiveFree, Busy
  <2>2. CASE \E t \in Threads : GiveNew(i, t) BY <1>1, <2>2 DEF GiveNew, Busy
  <2>3. CASE Enqueues(i)
    <3>1. thdlist # {}
      <4>1. maxnthd # 0 /\ ~(Cardinality(thdlist) < maxnthd + nwaitthd)
        BY <2>3 DEF Enqueues, may_create, NThds
      <4>2. Cardinality(thdlist) # 0 BY <1>1, <4>1
      <4> QED BY <4>2, FS_EmptySet
    <3> QED BY <2>3, <3>1 DEF Enqueues, Busy
  <2>4. CASE Refused(i) BY <1>1, <2>4 DEF Refused, Busy
  <2> QED BY <1>2, <2>1, <2>2, <2>3, <2>4 DEF CallStep
<1>3. ASSUME NEW t \in Threads, LookStep(t) PROVE Busy'
  <2>1. CASE TakesSlot(t) BY <1>1, <2>1 DEF TakesSlot, Takes, Busy
  <2>2. ASSUME NEW n \in 0..Len(queue), TakesQueue(t, n) PROVE Busy'
    <3>1. n < Len(queue) /\ UNCHANGED <<thdlist, freelist>> BY <2>2 DEF TakesQueue, Takes
    <3>2. queue # <<>>
      <4>1. queue = <<>> => Len(queue) = 0 BY EmptyList
      <4> QED BY <3>1, <4>1
    <3> QED BY <1>1, <3>1, <3>2 DEF Busy
  <2>3. CASE FindsNothing(t) BY <2>3 DEF FindsNothing, Busy
  <2> QED BY <1>3, <2>1, <2>2, <2>3 DEF LookStep, Looks
<1>4. ASSUME NEW t \in Threads, Moves(t) PROVE Busy'
  <2>1. UNCHANGED queue
    BY Zenon, <1>4 DEF Moves, thd_started, thd_timeout, thd_spurious, thd_work_done, thd_check_exit, thd_exit, listVars
  <2>2. CASE thd_check_exit(t) /\ too_many /\ leave(t)
    <3>1. SUFFICES ASSUME queue # <<>> PROVE freelist' = <<>> /\ thdlist' # {}
      BY <2>1 DEF Busy
    <3>2. freelist = <<>> BY <1>1, <3>1 DEF Busy
    <3>3. freelist' = <<>>
      <4>1. t \notin Range(freelist) BY <3>2, EmptyList
      <4>2. listc_rfl(freelist, t) = freelist BY Zenon, <3>2, <4>1, EmptyList, RemoveAbsent
      <4> QED BY <2>2, <3>2, <4>2 DEF leave
    <3>4. Cardinality(thdlist) > 1 BY <1>1, <2>2 DEF too_many, NThds
    <3>5. thdlist \ {t} # {}
      <4>1. CASE thdlist \ {t} = {}
        <5>1. thdlist = {} \/ thdlist = {t} BY <4>1
        <5>2. Cardinality(thdlist) \in {0, 1} BY Zenon, <5>1, FS_EmptySet, FS_Singleton
        <5> QED BY <3>4, <5>2
      <4> QED BY <4>1
    <3> QED BY <2>2, <3>3, <3>5 DEF leave
  <2>3. CASE ~(thd_check_exit(t) /\ too_many)
    <3>1. UNCHANGED <<thdlist, freelist>>
      BY Zenon, <1>4, <2>3 DEF Moves, thd_started, thd_timeout, thd_spurious, thd_work_done, thd_check_exit, thd_exit, listVars
    <3> QED BY <1>1, <2>1, <3>1 DEF Busy
  <2> QED BY <2>2, <2>3 DEF thd_check_exit
<1>5. CASE Sets
  <2>1. UNCHANGED <<thdlist, freelist>> /\ (queue' = queue \/ queue' = <<>>)
    BY Zenon, <1>5 DEF Sets, thdpool_add_waitthd, thdpool_remove_waitthd, thdpool_set_maxthds, thdpool_stop,
       thdpool_resume, thdpool_destroy, listVars
  <2> QED BY <1>1, <2>1 DEF Busy
<1> QED BY <1>2, <1>3, <1>4, <1>5, Kinds
-----------------------------------------------------------------------------
\* nactthd counts the threads that run, nwaitthd the consumers that wait.
LEMMA CountedStep ==
    ASSUME NoQueueOnly, IInv, Next
    PROVE  Counted' /\ nactthd' \in Nat /\ nwaitthd' \in Nat
<1>1. /\ TypeOK /\ Counted /\ pc \in [Threads -> PC] /\ nactthd \in Nat /\ nwaitthd \in Nat
      /\ IsFiniteSet(Running) /\ IsFiniteSet(Threads)
  BY Zenon, FiniteThreads, PoolAssumption DEF IInv, TypeOK
<1>2. SUFFICES /\ nactthd' = Cardinality(Running') /\ nactthd' \in Nat
               /\ IsFiniteSet(consuming') /\ nwaitthd' = Cardinality(consuming') /\ nwaitthd' \in Nat
  BY DEF Counted
<1>3. ASSUME NEW i \in Items, CallStep(i) PROVE Running' = Running
  <2>1. CASE GiveFree(i)
    <3>1. pc' = Signalled(pc, Head(freelist)) BY <2>1 DEF GiveFree
    <3> QED BY <1>1, <3>1 DEF Signalled, Running
  <2>2. CASE \E t \in Threads : GiveNew(i, t) BY <1>1, <2>2 DEF GiveNew, Running
  <2>3. CASE Enqueues(i) \/ Refused(i) BY <2>3 DEF Enqueues, Refused, Running
  <2> QED BY <1>3, <2>1, <2>2, <2>3 DEF CallStep
<1>4. ASSUME NEW t \in Threads, LookStep(t) PROVE Running' = Running
  <2>1. pc[t] \in {"loop", "woken", "timedout"} /\ \E p \in {"run", "wait", "exit"} : pc' = [pc EXCEPT ![t] = p]
    BY Zenon, <1>4 DEF LookStep, Looks, TakesSlot, TakesQueue, Takes, FindsNothing, Sleeps, leave
  <2> QED BY <1>1, <2>1 DEF Running
<1>5. CASE \/ \E i \in Items : CallStep(i)
           \/ \E t \in Threads : LookStep(t)
  BY Zenon, <1>1, <1>3, <1>4, <1>5 DEF Counted, CallStep, LookStep, poolVars
<1>6. ASSUME NEW t \in Threads, Moves(t)
      PROVE  nactthd' = Cardinality(Running') /\ nactthd' \in Nat /\ UNCHANGED <<consuming, nwaitthd>>
  <2>1. UNCHANGED <<consuming, nwaitthd>>
    BY Zenon, <1>6 DEF Moves, thd_started, thd_timeout, thd_spurious, thd_work_done, thd_check_exit, thd_exit, poolVars
  <2>2. CASE thd_started(t)
    <3>1. t \notin Running /\ Running' = Running \cup {t} /\ nactthd' = nactthd + 1
      BY <1>1, <2>2 DEF thd_started, Running
    <3>2. Cardinality(Running \cup {t}) = Cardinality(Running) + 1 BY Zenon, <1>1, <3>1, FS_AddElement
    <3> QED BY <1>1, <2>1, <3>1, <3>2 DEF Counted
  <2>3. CASE thd_exit(t)
    <3>1. t \in Running /\ Running' = Running \ {t} /\ nactthd' = nactthd - 1
      BY <1>1, <2>3 DEF thd_exit, Running
    <3>2. Cardinality(Running \ {t}) = Cardinality(Running) - 1 /\ IsFiniteSet(Running \ {t})
      BY <1>1, <3>1, FS_RemoveElement
    <3>3. Cardinality(Running \ {t}) \in Nat BY <3>2, FS_CardinalityType
    <3> QED BY <1>1, <2>1, <3>1, <3>2, <3>3 DEF Counted
  <2>4. CASE thd_timeout(t) \/ thd_spurious(t) \/ thd_work_done(t) \/ thd_check_exit(t)
    <3>1. /\ pc[t] \in {"wait", "run", "check"} /\ UNCHANGED nactthd
          /\ \E p \in {"woken", "timedout", "check", "loop", "exit"} : pc' = [pc EXCEPT ![t] = p]
      BY Zenon, <2>4 DEF thd_timeout, thd_spurious, thd_work_done, thd_check_exit, leave
    <3>2. Running' = Running BY <1>1, <3>1 DEF Running
    <3> QED BY <1>1, <2>1, <3>1, <3>2 DEF Counted
  <2> QED BY <1>6, <2>2, <2>3, <2>4 DEF Moves
<1>7. CASE Sets
  <2>1. \A u \in Threads : pc'[u] = pc[u] \/ (pc[u] = "wait" /\ pc'[u] = "woken")
    BY Zenon, <1>1, <1>7 DEF Sets, thdpool_add_waitthd, thdpool_remove_waitthd, thdpool_set_maxthds, thdpool_stop,
         thdpool_resume, thdpool_destroy, thdVars
  <2>2. Running' = Running BY <2>1 DEF Running
  <2>3. UNCHANGED nactthd
    BY Zenon, <1>7 DEF Sets, thdpool_add_waitthd, thdpool_remove_waitthd, thdpool_set_maxthds, thdpool_stop,
         thdpool_resume, thdpool_destroy, thdVars
  <2>4. /\ IsFiniteSet(consuming') /\ nwaitthd' = Cardinality(consuming') /\ nwaitthd' \in Nat
    <3>1. ASSUME NEW t \in Threads, thdpool_add_waitthd(t) PROVE <2>4
      <4>1. /\ cur[t] \notin consuming /\ consuming' = consuming \cup {cur[t]} /\ nwaitthd' = nwaitthd + 1
        BY <3>1 DEF thdpool_add_waitthd
      <4>2. IsFiniteSet(consuming) /\ nwaitthd = Cardinality(consuming) BY <1>1 DEF Counted
      <4>3. IsFiniteSet(consuming') /\ Cardinality(consuming') = Cardinality(consuming) + 1
        BY <4>1, <4>2, FS_AddElement
      <4> QED BY <1>1, <4>1, <4>2, <4>3
    <3>2. ASSUME NEW t \in Threads, thdpool_remove_waitthd(t) PROVE <2>4
      <4>1. /\ cur[t] \in consuming /\ consuming' = consuming \ {cur[t]} /\ nwaitthd' = nwaitthd - 1
        BY <3>2 DEF thdpool_remove_waitthd
      <4>2. IsFiniteSet(consuming) /\ nwaitthd = Cardinality(consuming) BY <1>1 DEF Counted
      <4>3. IsFiniteSet(consuming') /\ Cardinality(consuming') = Cardinality(consuming) - 1
        BY Zenon, <4>1, <4>2, FS_RemoveElement
      <4>4. Cardinality(consuming') \in Nat BY <4>3, FS_CardinalityType
      <4> QED BY <4>1, <4>2, <4>3, <4>4
    <3>3. CASE \A t \in Threads : ~thdpool_add_waitthd(t) /\ ~thdpool_remove_waitthd(t)
      <4>1. UNCHANGED <<consuming, nwaitthd>>
        BY Zenon, <1>7, <3>3 DEF Sets, thdpool_set_maxthds, thdpool_stop, thdpool_resume, thdpool_destroy
      <4> QED BY <1>1, <4>1 DEF Counted
    <3> QED BY <3>1, <3>2, <3>3
  <2> QED BY <1>1, <2>2, <2>3, <2>4 DEF Counted
<1>8. CASE \E t \in Threads : Moves(t)
  BY <1>1, <1>6, <1>8 DEF Counted
<1> QED BY <1>5, <1>7, <1>8, Kinds

-----------------------------------------------------------------------------
\* Where the items are.

Absent(f, i) == \A t \in Threads : f[t] # i
Put(f, g, i) ==
    /\ One(g)
    /\ \A j \in Items : (\E t \in Threads : g[t] = j) <=> (\E t \in Threads : f[t] = j) \/ j = i

\* The first run of an item.
LEMMA OneMore == ASSUME NEW a, NEW b, a = 0, b = a + 1 PROVE b = 1 OBVIOUS

\* An item is put into an empty place.
LEMMA PutIn ==
    ASSUME NEW f \in [Threads -> Items \cup {NoItem}], One(f), NEW h \in Threads, NEW i \in Items,
           f[h] = NoItem, Absent(f, i)
    PROVE  Put(f, [f EXCEPT ![h] = i], i)
<1> DEFINE g == [f EXCEPT ![h] = i]
<1>1. g[h] = i /\ \A t \in Threads : t # h => g[t] = f[t] OBVIOUS
<1>2. NoItem \notin Items BY PoolAssumption DEF PoolAssumption
<1> HIDE DEF g
<1>3. One(g) BY <1>1 DEF One, Absent
<1>4. ASSUME NEW j \in Items
      PROVE  (\E t \in Threads : g[t] = j) <=> (\E t \in Threads : f[t] = j) \/ j = i
  BY Zenon, <1>1, <1>2
<1> QED BY <1>3, <1>4 DEF g, Put

\* An item is taken out of its place.
LEMMA TakeOut ==
    ASSUME NEW f \in [Threads -> Items \cup {NoItem}], One(f), NEW h \in Threads, f[h] # NoItem
    PROVE  LET g == [f EXCEPT ![h] = NoItem] IN
           /\ One(g) /\ \A t \in Threads : g[t] # f[h]
           /\ \A j \in Items : (\E t \in Threads : g[t] = j) <=> (\E t \in Threads : f[t] = j) /\ j # f[h]
<1> DEFINE g == [f EXCEPT ![h] = NoItem]
<1>1. g[h] = NoItem /\ \A t \in Threads : t # h => g[t] = f[t] OBVIOUS
<1>2. NoItem \notin Items BY PoolAssumption DEF PoolAssumption
<1> HIDE DEF g
<1>3. One(g) BY <1>1 DEF One
<1>4. \A t \in Threads : g[t] # f[h] BY <1>1 DEF One
<1>5. ASSUME NEW j \in Items
      PROVE  (\E t \in Threads : g[t] = j) <=> (\E t \in Threads : f[t] = j) /\ j # f[h]
  BY <1>1, <1>2, <1>4
<1> QED BY <1>3, <1>4, <1>5 DEF g

\* An item that thdpool_enqueue has not accepted is nowhere.
LEMMA Nowhere ==
    ASSUME Accounted, NEW i \in Items, call[i] # "ok"
    PROVE  i \notin Range(queue) /\ ~Given(i) /\ ~Held(i) /\ runs[i] = 0
  BY Zenon DEF Accounted, Apart

\* A call puts its item in one place.
LEMMA AccountedCall ==
    ASSUME IInv, NEW i \in Items, CallStep(i)
    PROVE  Accounted'
<1>1. /\ Accounted /\ Single /\ \A j \in Items : Apart(j)
      /\ queue \in Seq(Items) /\ slot \in [Threads -> Items \cup {NoItem}]
      /\ freelist \in Seq(Threads) /\ call \in [Items -> Calls]
      /\ call[i] # "ok" /\ \A t \in Threads : Fits(t)
  BY Zenon DEF IInv, TypeOK, CallStep, Accounted
<1>2. i \notin Range(queue) /\ ~Given(i) /\ ~Held(i) /\ runs[i] = 0 BY <1>1, Nowhere
<1>3. UNCHANGED <<cur, runs>> BY DEF CallStep
<1>4. (\A j \in Items : Held(j)' <=> Held(j)) /\ One(cur') BY <1>1, <1>3 DEF Held, Single
<1>5. ASSUME \A j \in Items : j # i => call'[j] = call[j],
             call'[i] = "ok" \/ call'[i] \in {"blocked", "failed"},
             IsInjective(queue'), One(slot'),
             \A j \in Items : j # i => (Given(j)' <=> Given(j)) /\ (j \in Range(queue') <=> j \in Range(queue)),
             call'[i] = "ok" => (Given(i)' <=> i \notin Range(queue')),
             call'[i] # "ok" => ~Given(i)' /\ i \notin Range(queue')
      PROVE  Accounted'
  <2>1. Apart(i)'
    <3>1. runs'[i] = 0 /\ runs'[i] # 1 /\ ~Held(i)' BY <1>2, <1>3, <1>4
    <3> QED BY Zenon, <1>5, <3>1 DEF Apart
  <2>2. ASSUME NEW j \in Items, j # i PROVE Apart(j)'
    <3>1. Apart(j) BY <1>1
    <3> QED BY Zenon, <1>3, <1>4, <1>5, <2>2, <3>1 DEF Apart
  <2> QED BY Zenon, <1>4, <1>5, <2>1, <2>2 DEF Accounted, Single
<1>6. ASSUME NEW h \in Threads, slot[h] = NoItem, slot' = [slot EXCEPT ![h] = i]
      PROVE  One(slot') /\ \A j \in Items : Given(j)' <=> Given(j) \/ j = i
  <2>1. Absent(slot, i) /\ One(slot) BY <1>1, <1>2 DEF Given, Single, Absent
  <2>2. slot \in [Threads -> Items \cup {NoItem}] /\ slot[h] = NoItem BY <1>1, <1>6
  <2>3. Put(slot, [slot EXCEPT ![h] = i], i) BY Zenon, <2>1, <2>2, PutIn
  <2>4. Put(slot, slot', i) BY <1>6, <2>3
  <2> QED BY <2>4 DEF Given, Put
<1>7. CASE GiveFree(i)
  <2>1. PICK h \in Threads : h = Head(freelist) /\ h \in Range(freelist)
    BY <1>1, <1>7, RemoveTop, FreeList DEF GiveFree, IInv
  <2>2. slot[h] = NoItem BY Zenon, <1>1, <2>1 DEF Fits
  <2>3. slot' = [slot EXCEPT ![h] = i] /\ UNCHANGED queue /\ call' = [call EXCEPT ![i] = "ok"]
    BY <1>7, <2>1 DEF GiveFree
  <2>4. One(slot') /\ \A j \in Items : Given(j)' <=> Given(j) \/ j = i BY Zenon, <1>6, <2>2, <2>3
  <2>5. IsInjective(queue') /\ Range(queue') = Range(queue) BY <1>1, <2>3 DEF Single
  <2>6. call'[i] = "ok" /\ \A j \in Items : j # i => call'[j] = call[j] BY <1>1, <2>3
  <2> QED BY Zenon, <1>2, <1>5, <2>4, <2>5, <2>6
<1>8. ASSUME NEW t \in Threads, GiveNew(i, t) PROVE Accounted'
  <2>1. slot[t] = NoItem BY Zenon, <1>1, <1>8 DEF GiveNew, Fits
  <2>3. slot' = [slot EXCEPT ![t] = i] /\ UNCHANGED queue /\ call' = [call EXCEPT ![i] = "ok"]
    BY <1>8 DEF GiveNew
  <2>4. One(slot') /\ \A j \in Items : Given(j)' <=> Given(j) \/ j = i BY Zenon, <1>6, <2>1, <2>3
  <2>5. IsInjective(queue') /\ Range(queue') = Range(queue) BY <1>1, <2>3 DEF Single
  <2>6. call'[i] = "ok" /\ \A j \in Items : j # i => call'[j] = call[j] BY <1>1, <2>3
  <2> QED BY Zenon, <1>2, <1>5, <2>4, <2>5, <2>6
<1>9. ASSUME UNCHANGED slot
      PROVE  One(slot') /\ \A j \in Items : Given(j)' <=> Given(j)
  BY <1>1, <1>9 DEF Single, Given
<1>10. CASE Enqueues(i)
  <2>1. IsInjective(queue) /\ queue \in Seq(Items) /\ i \notin Range(queue) BY <1>1, <1>2 DEF Single
  <2>2. IsInjective(queue') /\ Range(queue') = Range(queue) \cup {i}
    <3>1. IsInjective(<<i>> \o queue) /\ Range(<<i>> \o queue) = {i} \cup Range(queue)
      BY <2>1, AddToTop
    <3>2. IsInjective(Append(queue, i)) /\ Range(Append(queue, i)) = Range(queue) \cup {i}
      BY <2>1, AddToBottom
    <3> QED BY Zenon, <1>10, <3>1, <3>2 DEF Enqueues
  <2>3. One(slot') /\ \A j \in Items : Given(j)' <=> Given(j) BY <1>9, <1>10 DEF Enqueues
  <2>4. call'[i] = "ok" /\ \A j \in Items : j # i => call'[j] = call[j]
    BY <1>1, <1>10 DEF Enqueues
  <2> QED BY Zenon, <1>2, <1>5, <2>2, <2>3, <2>4
<1>11. CASE Refused(i)
  <2>1. /\ call'[i] \in {"blocked", "failed"} /\ \A j \in Items : j # i => call'[j] = call[j]
        /\ UNCHANGED <<queue, slot>>
    BY <1>1, <1>11 DEF Refused
  <2>2. One(slot') /\ \A j \in Items : Given(j)' <=> Given(j) BY <1>9, <2>1
  <2>3. IsInjective(queue') /\ Range(queue') = Range(queue) BY <1>1, <2>1 DEF Single
  <2> QED BY Zenon, <1>2, <1>5, <2>1, <2>2, <2>3
<1> QED BY <1>7, <1>8, <1>10, <1>11 DEF CallStep

\* The first n items of the queue are given back, and the others stay.
LEMMA Expired ==
    ASSUME TypeOK, IsInjective(queue), NEW n \in 0..Len(queue), Expires(n)
    PROVE  \A i \in Items :
             /\ (\E k \in 1..n : queue[k] = i) => i \in Range(queue) /\ runs'[i] = runs[i] + 1
             /\ ~(\E k \in 1..n : queue[k] = i) => runs'[i] = runs[i]
             /\ (\E k \in n + 1 .. Len(queue) : queue[k] = i) =>
                    i \in Range(queue) /\ runs'[i] = runs[i]
<1>1. /\ queue \in Seq(Items) /\ runs \in [Items -> Nat] /\ Len(queue) \in Nat /\ n \in Nat /\ n <= Len(queue)
      /\ DOMAIN queue = 1..Len(queue)
      /\ \A x : x \in Range(queue) <=> \E k \in 1..Len(queue) : queue[k] = x
  BY ElementAt DEF TypeOK
<1>2. SUFFICES ASSUME NEW i \in Items
      PROVE  /\ (\E k \in 1..n : queue[k] = i) => i \in Range(queue) /\ runs'[i] = runs[i] + 1
             /\ ~(\E k \in 1..n : queue[k] = i) => runs'[i] = runs[i]
             /\ (\E k \in n + 1 .. Len(queue) : queue[k] = i) =>
                    i \in Range(queue) /\ runs'[i] = runs[i]
  BY Zenon
<1>3. runs'[i] = runs[i] + (IF \E k \in 1 .. n : queue[k] = i THEN 1 ELSE 0) /\ runs[i] \in Nat
  BY <1>1 DEF Expires
<1>4. (\E k \in 1..n : queue[k] = i) => i \in Range(queue)
  <2>1. \A k \in 1..n : k \in 1..Len(queue) BY <1>1
  <2> QED BY <1>1, <2>1
<1>5. (\E k \in n + 1 .. Len(queue) : queue[k] = i) => i \in Range(queue) /\ ~(\E k \in 1..n : queue[k] = i)
  <2>1. SUFFICES ASSUME NEW k \in n + 1 .. Len(queue), queue[k] = i
        PROVE i \in Range(queue) /\ ~(\E m \in 1..n : queue[m] = i)
    OBVIOUS
  <2>2. k \in 1..Len(queue) BY <1>1
  <2>3. \A m \in 1..n : m \in 1..Len(queue) /\ m # k BY <1>1
  <2>4. \A m \in 1..n : queue[m] # queue[k] BY Zenon, <1>1, <2>2, <2>3 DEF IsInjective
  <2> QED BY <1>1, <2>1, <2>2, <2>4
<1> QED BY <1>3, <1>4, <1>5

\* A thread that looks for work moves items on, to its hands or out of the pool.
LEMMA AccountedLook ==
    ASSUME IInv, Accounted, NEW t \in Threads, LookStep(t)
    PROVE  Accounted'
<1>1. /\ Single /\ (\A j \in Items : Apart(j)) /\ TypeOK
      /\ queue \in Seq(Items) /\ slot \in [Threads -> Items \cup {NoItem}]
      /\ cur \in [Threads -> Items \cup {NoItem}] /\ call \in [Items -> Calls]
      /\ Fits(t) /\ Looks(t) /\ cur[t] = NoItem
  BY Zenon DEF IInv, TypeOK, LookStep, Looks, Accounted, Fits
<1>2. \A j \in Items : call'[j] = "ok" <=> call[j] = "ok" BY DEF LookStep
<1>3. IsInjective(queue) /\ One(slot) /\ One(cur) BY <1>1 DEF Single
<1>4. ASSUME NEW i \in Items, ~Held(i), Takes(t, i)
      PROVE  One(cur') /\ \A j \in Items : Held(j)' <=> Held(j) \/ j = i
  <2>1. Absent(cur, i) BY <1>4 DEF Held, Absent
  <2>2. cur' = [cur EXCEPT ![t] = i] BY <1>4 DEF Takes
  <2>3. cur \in [Threads -> Items \cup {NoItem}] /\ cur[t] = NoItem /\ One(cur) BY <1>1, <1>3
  <2>4. Put(cur, [cur EXCEPT ![t] = i], i) BY Zenon, <2>1, <2>3, PutIn
  <2>5. Put(cur, cur', i) BY <2>2, <2>4
  <2> QED BY Zenon, <2>5 DEF Held, Put
<1>5. CASE TakesSlot(t)
  <2>1. PICK i \in Items : slot[t] = i BY <1>1, <1>5 DEF TakesSlot
  <2>2. Given(i) /\ ~Held(i) BY <1>1, <2>1 DEF Given, Apart
  <2>3. UNCHANGED <<queue, runs>> /\ Takes(t, i) /\ slot' = [slot EXCEPT ![t] = NoItem] /\ i # NoItem
    BY <1>5, <2>1 DEF TakesSlot
  <2>4. One(slot') /\ \A j \in Items : Given(j)' <=> Given(j) /\ j # i
    <3>1. LET g == [slot EXCEPT ![t] = NoItem] IN
          /\ One(g)
          /\ \A j \in Items : (\E u \in Threads : g[u] = j) <=> (\E u \in Threads : slot[u] = j) /\ j # slot[t]
      BY Zenon, <1>1, <1>3, <2>1, <2>3, TakeOut
    <3>2. /\ One(slot')
          /\ \A j \in Items : (\E u \in Threads : slot'[u] = j) <=> (\E u \in Threads : slot[u] = j) /\ j # i
      BY <2>1, <2>3, <3>1
    <3> QED BY Zenon, <3>2 DEF Given
  <2>5. One(cur') /\ \A j \in Items : Held(j)' <=> Held(j) \/ j = i BY <1>4, <2>2, <2>3
  <2>6. IsInjective(queue') /\ Range(queue') = Range(queue) BY <1>3, <2>3
  <2>7. ASSUME NEW j \in Items PROVE Apart(j)'
    <3>1. Apart(j) BY <1>1
    <3> QED BY Zenon, <1>2, <2>2, <2>3, <2>4, <2>5, <2>6, <3>1 DEF Apart
  <2> QED BY <2>4, <2>5, <2>6, <2>7 DEF Accounted, Single
<1>6. ASSUME UNCHANGED slot
      PROVE  One(slot') /\ \A j \in Items : Given(j)' <=> Given(j)
  BY <1>3, <1>6 DEF Given
<1>7. ASSUME NEW n \in 0..Len(queue), TakesQueue(t, n) PROVE Accounted'
  <2>1. /\ n < Len(queue) /\ Takes(t, queue[n + 1]) /\ Expires(n) /\ UNCHANGED slot
        /\ queue' = SubSeq(queue, n + 2, Len(queue)) /\ Len(queue) \in Nat
        /\ DOMAIN queue = 1..Len(queue)
    BY <1>1, <1>7, ElementAt DEF TakesQueue
  <2>2. PICK i \in Items : queue[n + 1] = i BY <1>1, <2>1, QueueType
  <2>3. /\ IsInjective(queue')
        /\ \A x : x \in Range(queue') <=> \E k \in n + 2 .. Len(queue) : queue[k] = x
    <3>1. PICK m \in 0..Len(queue) : m = n + 1 BY <2>1
    <3>2. m + 1 = n + 2 BY <3>1
    <3>3. SubSeq(queue, m + 1, Len(queue)) = queue' BY <2>1, <3>2
    <3>4. LET v == SubSeq(queue, m + 1, Len(queue))
          IN  /\ \A x : x \in Range(v) <=> \E k \in m + 1 .. Len(queue) : queue[k] = x
              /\ IsInjective(queue) => IsInjective(v)
      BY Zenon, <1>1, TakeOff
    <3> QED BY Zenon, <1>3, <3>2, <3>3, <3>4
  <2>4. \A j \in Items :
          /\ (\E k \in 1..n : queue[k] = j) => j \in Range(queue) /\ runs'[j] = runs[j] + 1
          /\ ~(\E k \in 1..n : queue[k] = j) => runs'[j] = runs[j]
          /\ (\E k \in n + 1 .. Len(queue) : queue[k] = j) => j \in Range(queue) /\ runs'[j] = runs[j]
    BY Zenon, <1>1, <1>3, <2>1, Expired
  <2>5. /\ i \in Range(queue) /\ runs'[i] = runs[i] /\ i \notin Range(queue')
    <3>1. n + 1 \in n + 1 .. Len(queue) BY <2>1
    <3>2. \A k \in n + 2 .. Len(queue) : k \in 1..Len(queue) /\ n + 1 \in 1..Len(queue) /\ k # n + 1 BY <2>1
    <3>3. \A k \in n + 2 .. Len(queue) : queue[k] # queue[n + 1] BY <1>3, <2>1, <3>2 DEF IsInjective
    <3> QED BY Zenon, <2>2, <2>3, <2>4, <3>1, <3>3
  <2>6. \A j \in Range(queue') : j \in Items => j \in Range(queue) /\ runs'[j] = runs[j]
    <3>1. \A k \in n + 2 .. Len(queue) : k \in n + 1 .. Len(queue) BY <2>1
    <3> QED BY Zenon, <2>3, <2>4, <3>1
  <2>7. ~Held(i) BY Zenon, <1>1, <2>5 DEF Apart
  <2>8. One(cur') /\ \A j \in Items : Held(j)' <=> Held(j) \/ j = i BY <1>4, <2>1, <2>2, <2>7
  <2>9. One(slot') /\ \A j \in Items : Given(j)' <=> Given(j) BY <1>6, <2>1
  <2>10. ASSUME NEW j \in Range(queue), j \in Items
         PROVE  j \in Range(queue') \/ j = i \/ \E k \in 1..n : queue[k] = j
    <3>1. PICK k \in 1..Len(queue) : queue[k] = j BY <1>1, <2>10, ElementAt
    <3>2. k \in 1..n \/ k = n + 1 \/ k \in n + 2 .. Len(queue) BY <2>1
    <3> QED BY <2>2, <2>3, <3>1, <3>2
  <2>11. ASSUME NEW j \in Items PROVE Apart(j)'
    <3>1. Apart(j) /\ (call'[j] = "ok" <=> call[j] = "ok") BY <1>1, <1>2
    <3>2. CASE j = i BY Zenon, <2>5, <2>8, <2>9, <3>1, <3>2 DEF Apart
    <3>3. CASE j # i /\ \E k \in 1..n : queue[k] = j
      <4>1. j \in Range(queue) /\ runs'[j] = runs[j] + 1 BY Zenon, <2>4, <3>3
      <4>2. runs[j] = 0 /\ ~Given(j) /\ ~Held(j) /\ call[j] = "ok" BY Zenon, <3>1, <4>1 DEF Apart
      <4>3. runs'[j] = 1 BY Zenon, <4>1, <4>2, OneMore
      <4>4. j \notin Range(queue') BY <2>6, <4>2, <4>3
      <4> QED BY Zenon, <2>8, <2>9, <3>1, <3>3, <4>2, <4>3, <4>4 DEF Apart
    <3>4. CASE j # i /\ ~\E k \in 1..n : queue[k] = j
      <4>1. runs'[j] = runs[j] /\ (j \in Range(queue') <=> j \in Range(queue))
        BY Zenon, <2>4, <2>6, <2>10, <3>4
      <4> QED BY Zenon, <2>8, <2>9, <3>1, <3>4, <4>1 DEF Apart
    <3> QED BY <3>2, <3>3, <3>4
  <2> QED BY <2>3, <2>8, <2>9, <2>11 DEF Accounted, Single
<1>8. CASE FindsNothing(t)
  <2>1. Expires(Len(queue)) /\ queue' = <<>> /\ UNCHANGED <<slot, cur>> /\ Len(queue) \in Nat
    BY <1>1, <1>8, ElementAt DEF FindsNothing
  <2>2. Len(queue) \in 0..Len(queue) BY <2>1
  <2>3. \A j \in Items :
          /\ (\E k \in 1..Len(queue) : queue[k] = j) => j \in Range(queue) /\ runs'[j] = runs[j] + 1
          /\ ~(\E k \in 1..Len(queue) : queue[k] = j) => runs'[j] = runs[j]
    BY Zenon, <1>1, <1>3, <2>1, <2>2, Expired
  <2>4. \A j \in Items : /\ j \in Range(queue) => runs'[j] = runs[j] + 1
                         /\ j \notin Range(queue) => runs'[j] = runs[j]
    <3>1. \A x : x \in Range(queue) <=> \E k \in 1..Len(queue) : queue[k] = x BY <1>1, ElementAt
    <3> QED BY Zenon, <2>3, <3>1
  <2>5. IsInjective(queue') /\ Range(queue') = {} BY <2>1, EmptyList
  <2>6. One(slot') /\ \A j \in Items : Given(j)' <=> Given(j) BY <1>6, <2>1
  <2>7. One(cur') /\ \A j \in Items : Held(j)' <=> Held(j) BY <1>3, <2>1 DEF Held
  <2>8. ASSUME NEW j \in Items PROVE Apart(j)'
    <3>1. Apart(j) /\ (call'[j] = "ok" <=> call[j] = "ok") BY <1>1, <1>2
    <3>2. CASE j \in Range(queue)
      <4>1. runs[j] = 0 /\ ~Given(j) /\ ~Held(j) /\ call[j] = "ok" BY Zenon, <3>1, <3>2 DEF Apart
      <4>2. runs'[j] = runs[j] + 1 BY Zenon, <2>4, <3>2
      <4>3. runs'[j] = 1 BY Zenon, <4>1, <4>2, OneMore
      <4> QED BY Zenon, <2>5, <2>6, <2>7, <3>1, <4>1, <4>3 DEF Apart
    <3>3. CASE j \notin Range(queue)
      <4>1. runs'[j] = runs[j] BY Zenon, <2>4, <3>3
      <4> QED BY Zenon, <2>5, <2>6, <2>7, <3>1, <3>3, <4>1 DEF Apart
    <3> QED BY <3>2, <3>3
  <2> QED BY <2>5, <2>6, <2>7, <2>8 DEF Accounted, Single
<1> QED BY <1>1, <1>5, <1>7, <1>8 DEF Looks

\* The other steps of a thread move an item only from its hands to the finished.
LEMMA AccountedMoves ==
    ASSUME IInv, Accounted, NEW t \in Threads, Moves(t)
    PROVE  Accounted'
<1>1. /\ Single /\ (\A j \in Items : Apart(j)) /\ TypeOK
      /\ cur \in [Threads -> Items \cup {NoItem}] /\ runs \in [Items -> Nat] /\ Fits(t)
  BY DEF IInv, TypeOK, Accounted
<1>2. UNCHANGED <<queue, slot, call>>
  BY Zenon DEF Moves, thd_started, thd_timeout, thd_spurious, thd_work_done, thd_check_exit, thd_exit,
         listVars, callVars
<1>3. /\ IsInjective(queue') /\ Range(queue') = Range(queue)
      /\ One(slot') /\ \A j \in Items : Given(j)' <=> Given(j)
  BY <1>1, <1>2 DEF Single, Given
<1>4. CASE thd_work_done(t)
  <2>1. PICK i \in Items : cur[t] = i BY Zenon, <1>1, <1>4 DEF thd_work_done, Fits
  <2>2. /\ cur' = [cur EXCEPT ![t] = NoItem] /\ runs' = [runs EXCEPT ![i] = @ + 1]
    BY <1>4, <2>1 DEF thd_work_done
  <2>3. Held(i) /\ runs[i] = 0 BY <1>1, <2>1 DEF Held, Apart
  <2>4. runs'[i] = 1 /\ \A j \in Items : j # i => runs'[j] = runs[j] BY <1>1, <2>2, <2>3
  <2>5. One(cur') /\ \A j \in Items : Held(j)' <=> Held(j) /\ j # i
    <3>1. One(cur) /\ i # NoItem BY <1>1, PoolAssumption DEF Single, PoolAssumption
    <3>2. LET g == [cur EXCEPT ![t] = NoItem] IN
          /\ One(g)
          /\ \A j \in Items : (\E u \in Threads : g[u] = j) <=> (\E u \in Threads : cur[u] = j) /\ j # cur[t]
      BY Zenon, <1>1, <2>1, <3>1, TakeOut
    <3>3. /\ One(cur')
          /\ \A j \in Items : (\E u \in Threads : cur'[u] = j) <=> (\E u \in Threads : cur[u] = j) /\ j # i
      BY <2>1, <2>2, <3>2
    <3> QED BY Zenon, <3>3 DEF Held
  <2>6. ASSUME NEW j \in Items PROVE Apart(j)'
    <3>1. Apart(j) BY <1>1
    <3> QED BY Zenon, <1>2, <1>3, <2>3, <2>4, <2>5, <3>1 DEF Apart
  <2> QED BY <1>3, <2>5, <2>6 DEF Accounted, Single
<1>5. CASE ~thd_work_done(t)
  <2>1. UNCHANGED <<cur, runs>>
    BY Zenon, <1>5 DEF Moves, thd_started, thd_timeout, thd_spurious, thd_check_exit, thd_exit
  <2>2. One(cur') /\ \A j \in Items : Held(j)' <=> Held(j) BY <1>1, <2>1 DEF Single, Held
  <2>3. ASSUME NEW j \in Items PROVE Apart(j)'
    <3>1. Apart(j) BY <1>1
    <3> QED BY Zenon, <1>2, <1>3, <2>1, <2>2, <3>1 DEF Apart
  <2> QED BY <1>3, <2>2, <2>3 DEF Accounted, Single
<1> QED BY <1>4, <1>5

\* Nothing happens in a pool that is destroyed.
LEMMA NothingAfter ==
    ASSUME NoQueueOnly, IInv, destroyed, Next
    PROVE  FALSE
<1>1. stopped /\ \A t \in Threads : pc[t] \in {"none", "start"} BY DEF IInv, Over
<1>2. ASSUME NEW i \in Items, CallStep(i) PROVE FALSE BY <1>2 DEF CallStep
<1>3. ASSUME NEW t \in Threads, LookStep(t) PROVE FALSE BY <1>1, <1>3 DEF LookStep, Looks
<1>4. ASSUME NEW t \in Threads, Moves(t) PROVE FALSE
  BY Zenon, <1>1, <1>4 DEF Moves, thd_started, thd_timeout, thd_spurious, thd_work_done, thd_check_exit, thd_exit
<1>5. CASE Sets
  BY Zenon, <1>1, <1>5 DEF Sets, thdpool_add_waitthd, thdpool_remove_waitthd, thdpool_set_maxthds, thdpool_stop,
         thdpool_resume, thdpool_destroy
<1> QED BY <1>2, <1>3, <1>4, <1>5, Kinds

\* When thdpool_destroy goes on, no thread is left but those not yet begun, and
\* what they have not is done.
LEMMA OverDestroy ==
    ASSUME IInv, thdpool_destroy
    PROVE  Over'
<1>1. /\ TypeOK /\ Counted /\ Busy /\ Accounted /\ \A t \in Threads : Fits(t)
      /\ pc \in [Threads -> PC] /\ thdlist \subseteq Threads /\ queue \in Seq(Items)
  BY Zenon DEF IInv, thdpool_destroy, TypeOK
<1>2. /\ stopped /\ nactthd = 0 /\ NobodyInside
      /\ UNCHANGED <<stopped, thdlist, pc, slot, cur, call, runs>>
  BY DEF thdpool_destroy, thdVars, callVars
<1>3. Running = {}
  BY Zenon, <1>1, <1>2, FiniteThreads, FS_EmptySet DEF Counted
<1>4. \A t \in Threads : pc[t] \in {"none", "start"} BY <1>3 DEF Running
<1>5. (\A i \in Items : call[i] = "ok" => runs[i] = 1) \/ \E t \in thdlist : pc[t] = "start"
  <2>1. SUFFICES ASSUME ~\E t \in thdlist : pc[t] = "start", NEW i \in Items, call[i] = "ok"
        PROVE runs[i] = 1
    OBVIOUS
  <2>2. \A t \in Threads : pc[t] = "none" BY Zenon, <1>1, <1>4, <2>1 DEF Fits
  <2>3. thdlist = {} BY Zenon, <1>1, <2>2 DEF Fits
  <2>4. i \notin Range(queue) BY <1>1, <2>3, EmptyList DEF Busy
  <2>5. ~Given(i) /\ ~Held(i)
    BY Zenon, <1>1, <2>2, PoolAssumption DEF Fits, Given, Held, PoolAssumption
  <2> QED BY Zenon, <1>1, <2>1, <2>4, <2>5 DEF Accounted, Apart
<1>6. DestroyedAfterWork' BY <1>2, <1>5 DEF DestroyedAfterWork
<1>7. NobodyInside' BY <1>2 DEF NobodyInside
<1> QED BY <1>2, <1>4, <1>6, <1>7 DEF Over

-----------------------------------------------------------------------------
\* A pool just created has no thread, no queue and no caller: the invariant holds.
LEMMA InitInv == Init => IInv
<1> SUFFICES ASSUME Init PROVE IInv OBVIOUS
<1>1. TypeOK
  BY Zenon, EmptyList, PoolAssumption DEF Init, TypeOK, PC, Calls, PoolAssumption
<1>2. Counted
  <2>1. Running = {} BY DEF Init, Running
  <2> QED BY <2>1, FS_EmptySet DEF Init, Counted
<1>3. Single BY EmptyList DEF Init, Single, One
<1>4. ASSUME NEW i \in Items PROVE Apart(i)
  <2>1. ~Given(i) /\ ~Held(i) BY PoolAssumption DEF Init, Given, Held, PoolAssumption
  <2> QED BY <2>1, EmptyList DEF Init, Apart
<1>5. \A t \in Threads : Fits(t) BY Zenon, EmptyList DEF Init, Fits
<1> QED BY <1>1, <1>2, <1>3, <1>4, <1>5, EmptyList DEF Init, IInv, Busy, Over, Accounted

\* A step that leaves everything as it is.
LEMMA Stutters == IInv /\ UNCHANGED vars => IInv'
<1> SUFFICES ASSUME IInv, UNCHANGED vars PROVE IInv' OBVIOUS
<1> USE DEF vars, poolVars, listVars, thdVars, callVars
<1>1. TypeOK' BY Zenon DEF IInv, TypeOK
<1>2. Counted' /\ Busy' /\ IsInjective(freelist') BY Zenon DEF IInv, Counted, Running, Busy
<1>3. \A t \in Threads : Fits(t)' BY Zenon DEF IInv, Fits
<1>4. destroyed' \/ Accounted'
  <2>1. ASSUME Accounted PROVE Accounted'
    <3>1. Single' BY Zenon, <2>1 DEF Accounted, Single, One
    <3>2. \A j \in Items : Apart(j)' BY Zenon, <2>1 DEF Accounted, Apart, Given, Held
    <3> QED BY <3>1, <3>2 DEF Accounted
  <2> QED BY <2>1 DEF IInv
<1>5. Over' BY Zenon DEF IInv, Over, NobodyInside, DestroyedAfterWork
<1> QED BY Zenon, <1>1, <1>2, <1>3, <1>4, <1>5 DEF IInv

\* Every operation of the pool keeps the invariant, one conjunct after another.
LEMMA Inductive == ASSUME NoQueueOnly PROVE IInv /\ [Next]_vars => IInv'
<1> SUFFICES ASSUME IInv, Next PROVE IInv' BY Stutters
<1>1. Counted' /\ nactthd' \in Nat /\ nwaitthd' \in Nat BY CountedStep
<1>2. Busy' BY BusyStep
<1>3. ~destroyed /\ Accounted BY NothingAfter DEF IInv
<1>4. ASSUME NEW i \in Items, CallStep(i)
      PROVE  TypeOK' /\ IsInjective(freelist') /\ (\A u \in Threads : Fits(u)') /\ (destroyed' \/ Accounted') /\ Over'
  <2>1. ~destroyed' BY <1>3, <1>4 DEF CallStep, poolVars
  <2> QED BY <1>4, <2>1, TypeCall, FitsCall, AccountedCall DEF Over
<1>5. ASSUME NEW t \in Threads, LookStep(t)
      PROVE  TypeOK' /\ IsInjective(freelist') /\ (\A u \in Threads : Fits(u)') /\ (destroyed' \/ Accounted') /\ Over'
  <2>1. ~destroyed' /\ Looks(t) BY <1>3, <1>5 DEF LookStep, poolVars
  <2> QED BY <1>3, <1>5, <2>1, TypeLook, FitsLook, AccountedLook DEF Over
<1>6. ASSUME NEW t \in Threads, Moves(t)
      PROVE  TypeOK' /\ IsInjective(freelist') /\ (\A u \in Threads : Fits(u)') /\ (destroyed' \/ Accounted') /\ Over'
  <2>1. ~destroyed'
    BY Zenon, <1>3, <1>6 DEF Moves, thd_started, thd_timeout, thd_spurious, thd_work_done, thd_check_exit, thd_exit, poolVars
  <2> QED BY <1>1, <1>3, <1>6, <2>1, TypeMoves, FitsMoves, AccountedMoves DEF Over
<1>7. CASE Sets
  <2>1. TypeOK' /\ IsInjective(freelist') /\ \A u \in Threads : Fits(u)'
    BY <1>1, <1>7, TypeSets, FitsSets
  <2>2. CASE thdpool_destroy
    <3>1. destroyed' BY <2>2 DEF thdpool_destroy
    <3> QED BY <1>1, <1>2, <2>1, <2>2, <3>1, OverDestroy DEF IInv
  <2>3. CASE ~thdpool_destroy
    <3>1. UNCHANGED <<destroyed, queue, slot, cur, runs, call>>
      BY Zenon, <1>7, <2>3 DEF Sets, thdpool_add_waitthd, thdpool_remove_waitthd, thdpool_set_maxthds,
         thdpool_stop, thdpool_resume, listVars, thdVars, callVars
    <3>2. Accounted'
      <4>1. Single' BY Zenon, <1>3, <3>1 DEF Accounted, Single, One
      <4>2. \A j \in Items : Apart(j)' BY Zenon, <1>3, <3>1 DEF Accounted, Apart, Given, Held
      <4> QED BY <4>1, <4>2 DEF Accounted
    <3> QED BY Zenon, <1>1, <1>2, <1>3, <2>1, <3>1, <3>2 DEF IInv, Over
  <2> QED BY <2>2, <2>3
<1> QED BY Zenon, <1>1, <1>2, <1>4, <1>5, <1>6, <1>7, Kinds DEF IInv

\* The invariant holds in every state of every run of the pool.
LEMMA Invariance == ASSUME NoQueueOnly PROVE Spec => []IInv
  BY InitInv, Inductive, PTL DEF Spec

\* In each kind of place, the item is counted as often as it is there.
LEMMA CountPlaces ==
    ASSUME IInv, Accounted, NEW i \in Items
    PROVE  /\ Cardinality({k \in DOMAIN queue : queue[k] = i}) = (IF i \in Range(queue) THEN 1 ELSE 0)
           /\ Cardinality({t \in thdlist : slot[t] = i}) = (IF Given(i) THEN 1 ELSE 0)
           /\ Cardinality({t \in thdlist : cur[t] = i}) = (IF Held(i) THEN 1 ELSE 0)
<1>1. /\ IsInjective(queue) /\ One(slot) /\ One(cur) /\ thdlist \subseteq Threads
      /\ (\A t \in Threads : Fits(t)) /\ i # NoItem
  BY Zenon, PoolAssumption DEF IInv, TypeOK, Accounted, Single, PoolAssumption
<1>2. ASSUME NEW S, S = {} \/ \E x : S = {x} PROVE Cardinality(S) = IF S = {} THEN 0 ELSE 1
  <2>1. CASE S = {} BY <2>1, FS_EmptySet
  <2>2. ASSUME NEW x, S = {x} PROVE Cardinality(S) = 1 /\ S # {} BY <2>2, FS_Singleton
  <2> QED BY <1>2, <2>1, <2>2
<1>3. Cardinality({k \in DOMAIN queue : queue[k] = i}) = (IF i \in Range(queue) THEN 1 ELSE 0)
  <2> DEFINE S == {k \in DOMAIN queue : queue[k] = i}
  <2>1. S = {} \/ \E x : S = {x}
    <3>1. ASSUME NEW k \in S PROVE S = {k} BY <1>1 DEF IsInjective
    <3> QED BY <3>1
  <2>2. i \in Range(queue) <=> S # {} BY DEF Range
  <2> HIDE DEF S
  <2>3. Cardinality(S) = IF S = {} THEN 0 ELSE 1 BY <1>2, <2>1
  <2>4. Cardinality(S) = IF i \in Range(queue) THEN 1 ELSE 0 BY <2>2, <2>3
  <2> QED BY <2>4 DEF S
<1>4. Cardinality({t \in thdlist : slot[t] = i}) = (IF Given(i) THEN 1 ELSE 0)
  <2> DEFINE S == {t \in thdlist : slot[t] = i}
  <2>1. S = {} \/ \E x : S = {x}
    <3>1. ASSUME NEW t \in S PROVE S = {t} BY Zenon, <1>1 DEF One
    <3> QED BY <3>1
  <2>2. Given(i) <=> S # {}
    <3>1. \A t \in Threads : slot[t] = i => t \in thdlist BY Zenon, <1>1 DEF Fits
    <3> QED BY <1>1, <3>1 DEF Given
  <2> HIDE DEF S
  <2>3. Cardinality(S) = IF S = {} THEN 0 ELSE 1 BY <1>2, <2>1
  <2>4. Cardinality(S) = IF Given(i) THEN 1 ELSE 0 BY <2>2, <2>3
  <2> QED BY <2>4 DEF S
<1>5. Cardinality({t \in thdlist : cur[t] = i}) = (IF Held(i) THEN 1 ELSE 0)
  <2> DEFINE S == {t \in thdlist : cur[t] = i}
  <2>1. S = {} \/ \E x : S = {x}
    <3>1. ASSUME NEW t \in S PROVE S = {t} BY Zenon, <1>1 DEF One
    <3> QED BY <3>1
  <2>2. Held(i) <=> S # {}
    <3>1. \A t \in Threads : cur[t] = i => t \in thdlist BY Zenon, <1>1 DEF Fits
    <3> QED BY <1>1, <3>1 DEF Held
  <2> HIDE DEF S
  <2>3. Cardinality(S) = IF S = {} THEN 0 ELSE 1 BY <1>2, <2>1
  <2>4. Cardinality(S) = IF Held(i) THEN 1 ELSE 0 BY <2>2, <2>3
  <2> QED BY <2>4 DEF S
<1> QED BY Zenon, <1>3, <1>4, <1>5

\* Items that are each in one place are counted once.
LEMMA ConservedInv == IInv => WorkConserved
<1>1. SUFFICES ASSUME IInv, Accounted, NEW i \in Items
      PROVE Places(i) = IF call[i] = "ok" THEN 1 ELSE 0
  BY DEF IInv, WorkConserved
<1>2. PICK p, q, r \in {0, 1} :
        /\ Cardinality({k \in DOMAIN queue : queue[k] = i}) = p /\ (p = 1 <=> i \in Range(queue))
        /\ Cardinality({t \in thdlist : slot[t] = i}) = q /\ (q = 1 <=> Given(i))
        /\ Cardinality({t \in thdlist : cur[t] = i}) = r /\ (r = 1 <=> Held(i))
  BY <1>1, CountPlaces
<1>3. Apart(i) BY <1>1 DEF Accounted
<1>4. p + q + r + runs[i] = IF call[i] = "ok" THEN 1 ELSE 0 BY <1>2, <1>3 DEF Apart
<1> QED BY Zenon, <1>2, <1>4 DEF Places

\* The free list is what the places say.
LEMMA FreeInv == IInv => FreeThreadsIdle
<1> SUFFICES ASSUME IInv PROVE FreeThreadsIdle OBVIOUS
<1>1. IsInjective(freelist) /\ Range(freelist) \subseteq Threads /\ \A t \in Threads : Fits(t)
  BY FreeList DEF IInv
<1> QED BY Zenon, <1>1 DEF FreeThreadsIdle, Fits

\* A thread that waits is on the free list, so nobody waits while items queue.
LEMMA BusyInv == IInv => QueuedOnlyWhenBusy
<1> SUFFICES ASSUME IInv, queue # <<>> PROVE thdlist # {} /\ \A t \in thdlist : pc[t] # "wait"
  BY DEF QueuedOnlyWhenBusy
<1>1. freelist = <<>> /\ thdlist # {} /\ thdlist \subseteq Threads /\ \A t \in Threads : Fits(t)
  BY DEF IInv, Busy, TypeOK
<1>2. Range(freelist) = {} BY <1>1, EmptyList
<1> QED BY <1>1, <1>2 DEF Fits

-----------------------------------------------------------------------------
\* The type invariant of util/thdpool.c.
THEOREM TypeCorrect == ASSUME NoQueueOnly PROVE Spec => []TypeOK
<1>1. IInv => TypeOK BY DEF IInv
<1> QED BY <1>1, Invariance, PTL

\* thdpool_enqueue and thdpool_thd neither lose an accepted item nor have it
\* done twice, whatever threads time out, exit, or are woken for nothing, and
\* however the limits are changed meanwhile.
THEOREM Conservation == ASSUME NoQueueOnly PROVE Spec => []WorkConserved
  BY ConservedInv, Invariance, PTL

\* thdpool_enqueue may hand its item to the top of the free list without a
\* look: the thread is there once and has no work.
THEOREM FreeAreIdle == ASSUME NoQueueOnly PROVE Spec => []FreeThreadsIdle
  BY FreeInv, Invariance, PTL

\* While an item is on the queue of thdpool_enqueue, no thread sleeps and the
\* pool is not without threads.
THEOREM NoIdleness == ASSUME NoQueueOnly PROVE Spec => []QueuedOnlyWhenBusy
  BY BusyInv, Invariance, PTL

\* thdpool_destroy frees the pool when its work is done, but for threads that
\* have been created and have not begun.
THEOREM DestroyIsLast == ASSUME NoQueueOnly PROVE Spec => []DestroyedAfterWork
<1>1. IInv => DestroyedAfterWork BY DEF IInv, Over, DestroyedAfterWork
<1> QED BY <1>1, Invariance, PTL
=============================================================================
