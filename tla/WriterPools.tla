---------------------------- MODULE WriterPools ----------------------------
(***************************************************************************)
(* Several distributed transactions that compete for the writer threads    *)
(* and the locks of several databases: the request queue of each database  *)
(* (HandleBuf), its lock manager (LockManager), the sessions (OsqlSession) *)
(* and the coordinators (DistTxn), each reduced to what the others wait    *)
(* for.                                                                    *)
(*                                                                         *)
(* A prepared participant keeps its writer thread and its locks until its  *)
(* coordinator decides, and the coordinator keeps its own while it waits   *)
(* for the participants.  Wait-die breaks cycles of lock waits.  A session *)
(* that waits for a writer thread sends no heartbeats (disttxn.c:1842), so *)
(* that its coordinator gives up on it.                                    *)
(*                                                                         *)
(* A transaction is its timestamp: the smaller the older.  Every database  *)
(* has one lock, which all transactions want.                              *)
(***************************************************************************)
EXTENDS Integers, Sequences, FiniteSets

CONSTANTS Txn, Db,
          Worlds,        \* transactions and databases: records with
                         \*   coordinator   of each transaction
                         \*   participants  of each transaction: other databases
                         \*   can_retry     transactions whose verify errors the replicant retries
                         \*   complete      transactions whose rows have reached the participants
                         \*   maxwthreads   gbl_maxwthreads of every database
                         \*   elapses       whether HEARTBEAT_TIMEOUT_MS may elapse in silence
          None

ASSUME PoolsAssumption ==
    /\ Txn \subseteq Nat \ {0} /\ None \notin Txn
    /\ Worlds \subseteq [coordinator : [Txn -> Db], participants : [Txn -> SUBSET Db],
                         can_retry : SUBSET Txn, complete : SUBSET Txn,
                         maxwthreads : Nat \ {0}, elapses : BOOLEAN]
    /\ \A w \in Worlds, t \in Txn : w.coordinator[t] \notin w.participants[t]

VARIABLES world,    \* which of Worlds this is
          queue,    \* of each database: sessions waiting for a writer thread
          holder,   \* of each database: who has its lock
          sess,     \* where each transaction is at each database
          hbeats,   \* the participants that send heartbeats
          dtran,    \* of each transaction: its state at the coordinator
          failrc,   \* of each transaction: why the coordinator aborted it
          status,   \* what the coordinator knows of its participants
          net       \* messages, and decisions kept in participant_hash

vars == <<world, queue, holder, sess, hbeats, dtran, failrc, status, net>>

coordinator == world.coordinator
participants == world.participants
CanRetry == world.can_retry

Dbs(t) == participants[t] \cup {coordinator[t]}
Part == {<<t, d>> \in Txn \X Db : d \in participants[t]}
Msg(type, t, d) == [type |-> type, t |-> t, db |-> d]

Init == /\ world \in Worlds
        /\ queue = [d \in Db |-> <<>>]
        /\ holder = [d \in Db |-> None]
        /\ sess = [j \in Txn \X Db |-> IF j[2] \notin Dbs(j[1]) THEN "ended"
                                      ELSE IF j \in Part /\ j[1] \in world.complete THEN "done"
                                      ELSE "stream"]
        /\ hbeats = {}
        /\ dtran = [t \in Txn |-> "init"]
        /\ failrc = [t \in Txn |-> "none"]
        /\ status = [j \in Part |-> "init"]
        /\ net = {}

-----------------------------------------------------------------------------
\* A complete session waits for a writer thread, without heartbeats.
handle_buf_sorese(t, d, beating) ==
    /\ queue' = [queue EXCEPT ![d] = Append(@, t)]
    /\ sess' = [sess EXCEPT ![t, d] = "queued"]
    /\ hbeats' = beating \ {<<t, d>>}

\* The last row of a session: the coordinator's is dispatched, a participant's
\* if it has been sanctioned.
osql_done(t, d) ==
    /\ \/ /\ d = coordinator[t] /\ sess[t, d] = "stream"
          /\ dtran' = [dtran EXCEPT ![t] = "collected"]
          /\ handle_buf_sorese(t, d, hbeats)
       \/ /\ d \in participants[t] /\ sess[t, d] = "sanctioned"
          /\ handle_buf_sorese(t, d, hbeats)
          /\ UNCHANGED dtran
       \/ /\ d \in participants[t] /\ sess[t, d] = "stream"
          /\ sess' = [sess EXCEPT ![t, d] = "done"]
          /\ UNCHANGED <<queue, hbeats, dtran>>
    /\ UNCHANGED <<world, holder, failrc, status, net>>

\* PREPARE sanctions the session, and starts its heartbeats.
osql_prepare(t, d) ==
    /\ Msg("PREPARE", t, d) \in net
    /\ net' = net \ {Msg("PREPARE", t, d)}
    /\ \/ /\ sess[t, d] = "done"
          /\ handle_buf_sorese(t, d, hbeats \cup {<<t, d>>})
       \/ /\ sess[t, d] = "stream"
          /\ sess' = [sess EXCEPT ![t, d] = "sanctioned"]
          /\ hbeats' = hbeats \cup {<<t, d>>}
          /\ UNCHANGED queue
    /\ UNCHANGED <<world, holder, dtran, failrc, status>>

Writers(d) == {t \in Txn : sess[t, d] \in {"running", "prepared", "forced", "propagate"}}

writer_free(d) == Cardinality(Writers(d)) < world.maxwthreads

\* A faulty variant: the heartbeats stay off.
reenable_faulty(t, d) == hbeats

reenable_participant_heartbeats(t, d) == hbeats \cup {<<t, d>>}

\* A writer thread takes the next session.  A coordinator asks its
\* participants to prepare, a participant sends heartbeats again.
itoblock(d) ==
    /\ queue[d] # <<>> /\ writer_free(d)
    /\ LET t == Head(queue[d])
       IN  /\ sess' = [sess EXCEPT ![t, d] = "running"]
           /\ IF d = coordinator[t]
              THEN /\ dtran' = [dtran EXCEPT ![t] = "preparing"]
                   /\ status' = [j \in Part |-> IF j[1] = t THEN "preparing" ELSE status[j]]
                   /\ net' = net \cup {Msg("PREPARE", t, p) : p \in participants[t]}
                   /\ UNCHANGED hbeats
              ELSE /\ hbeats' = reenable_participant_heartbeats(t, d)
                   /\ UNCHANGED <<dtran, status, net>>
    /\ queue' = [queue EXCEPT ![d] = Tail(@)]
    /\ UNCHANGED <<world, holder, failrc>>

-----------------------------------------------------------------------------
Tell(type, t, ps) == net \cup {Msg(type, t, p) : p \in ps}
In(t, states) == {p \in participants[t] : status[t, p] \in states}

\* The coordinator aborts t, with a code, and tells the participants ps.
abort_transaction_lk(t, rc, ps) ==
    /\ dtran' = [dtran EXCEPT ![t] = "aborted"]
    /\ failrc' = [failrc EXCEPT ![t] = rc]
    /\ net' = Tell("ABORT", t, ps)

\* The block processor gets the database's lock and prepares.
prepare(t, d) ==
    /\ sess[t, d] = "running" /\ holder[d] = None
    /\ holder' = [holder EXCEPT ![d] = t]
    /\ sess' = [sess EXCEPT ![t, d] = "prepared"]
    /\ net' = IF d = coordinator[t] THEN net ELSE net \cup {Msg("PREPARED", t, d)}
    /\ UNCHANGED <<world, queue, hbeats, dtran, failrc, status>>

\* A faulty variant: it waits for whoever has the lock.
dies_faulty(t, d) == FALSE

\* Wait-die: it waits for younger transactions only.
dies(t, d) == sess[t, d] = "running" /\ holder[d] # None /\ holder[d] < t

\* The participant fails with a verify error, and the thread is free.
participant_has_failed(t, d) ==
    /\ d \in participants[t] /\ dies(t, d)
    /\ sess' = [sess EXCEPT ![t, d] = "ended"]
    /\ hbeats' = hbeats \ {<<t, d>>}
    /\ net' = (net \ {Msg("ABORT", t, d)}) \cup {Msg("FAILED", t, d)}
    /\ UNCHANGED <<world, queue, holder, dtran, failrc, status>>

\* The coordinator's own part fails.  When the replicant can retry, it waits
\* for the participants' answers all the same.
coordinator_failed(t) ==
    LET d == coordinator[t]
    IN  /\ dies(t, d)
        /\ IF t \in CanRetry
           THEN /\ sess' = [sess EXCEPT ![t, d] = "forced"]
                /\ UNCHANGED <<dtran, failrc, net>>
           ELSE /\ sess' = [sess EXCEPT ![t, d] = "ended"]
                /\ IF dtran[t] = "preparing"
                   THEN abort_transaction_lk(t, "final", In(t, {"preparing", "prepared"}))
                   ELSE UNCHANGED <<dtran, failrc, net>>
        /\ UNCHANGED <<world, queue, holder, hbeats, status>>

\* An answer reaches the coordinator.  The first failure aborts, a late vote is
\* answered with abort.
participant_result(t, d) ==
    /\ \/ /\ Msg("PREPARED", t, d) \in net /\ dtran[t] = "preparing"
          /\ status' = [status EXCEPT ![t, d] = "prepared"]
          /\ net' = net \ {Msg("PREPARED", t, d)}
          /\ UNCHANGED <<dtran, failrc>>
       \/ /\ Msg("PREPARED", t, d) \in net /\ dtran[t] = "aborted"
          /\ status' = [status EXCEPT ![t, d] = "failed"]
          /\ net' = (net \ {Msg("PREPARED", t, d)}) \cup {Msg("ABORT", t, d)}
          /\ UNCHANGED <<dtran, failrc>>
       \/ /\ Msg("FAILED", t, d) \in net
          /\ status' = [status EXCEPT ![t, d] = "failed"]
          /\ net' = (net \ {Msg("FAILED", t, d)})
                        \cup (IF dtran[t] = "preparing"
                              THEN {Msg("ABORT", t, p) : p \in In(t, {"prepared"})} ELSE {})
          /\ dtran' = [dtran EXCEPT ![t] = "aborted"]
          /\ failrc' = [failrc EXCEPT ![t] = IF dtran[t] = "preparing" THEN "retryable" ELSE @]
    /\ UNCHANGED <<world, queue, holder, sess, hbeats>>

-----------------------------------------------------------------------------
\* The coordinator has not heard of a preparing participant for too long.
check_participant_timeout_lk(t) ==
    world.elapses /\ \E p \in In(t, {"preparing"}) : <<t, p>> \notin hbeats

\* The timer, while the coordinator's own part is still running.
disttxn_timeout(t) ==
    /\ dtran[t] = "preparing" /\ check_participant_timeout_lk(t)
    /\ sess[t, coordinator[t]] = "running"
    /\ abort_transaction_lk(t, "final", In(t, {"preparing", "prepared"}))
    /\ UNCHANGED <<world, queue, holder, sess, hbeats, status>>

AllPrepared(t) == In(t, {"prepared"}) = participants[t]

coordinator_should_wait_lk(t) ==
    /\ ~check_participant_timeout_lk(t)
    /\ \/ dtran[t] = "preparing" /\ ~AllPrepared(t)
       \/ /\ dtran[t] = "aborted" /\ t \in CanRetry /\ failrc[t] # "final"
          /\ In(t, {"preparing"}) # {}

Released(t, d) == [holder EXCEPT ![d] = IF @ = t THEN None ELSE @]

\* coordinator_wait is over: commit when all are prepared, and this one too;
\* otherwise abort those who have not been told.
coordinator_wait(t) ==
    LET d == coordinator[t]
    IN  /\ sess[t, d] \in {"prepared", "forced"} /\ ~coordinator_should_wait_lk(t)
        /\ holder' = Released(t, d)
        /\ IF dtran[t] = "preparing" /\ AllPrepared(t) /\ sess[t, d] = "prepared"
           THEN /\ dtran' = [dtran EXCEPT ![t] = "committed"]
                /\ net' = Tell("COMMIT", t, participants[t])
                /\ sess' = [sess EXCEPT ![t, d] = "propagate"]
                /\ UNCHANGED failrc
           ELSE /\ sess' = [sess EXCEPT ![t, d] = "ended"]
                /\ IF dtran[t] = "preparing"
                   THEN abort_transaction_lk(t, "final", In(t, {"preparing", "prepared"}))
                   ELSE UNCHANGED <<dtran, failrc, net>>
        /\ UNCHANGED <<world, queue, hbeats, status>>

\* A prepared participant learns the decision and leaves its thread.
participant_wait(t, d) ==
    LET told == {Msg("COMMIT", t, d), Msg("ABORT", t, d)}
    IN  /\ d \in participants[t] /\ sess[t, d] = "prepared"
        /\ told \cap net # {}
        /\ net' = net \ told
        /\ sess' = [sess EXCEPT ![t, d] = "ended"]
        /\ hbeats' = hbeats \ {<<t, d>>}
        /\ holder' = Released(t, d)
        /\ UNCHANGED <<world, queue, dtran, failrc, status>>

\* The committed coordinator keeps its thread until everybody has committed.
coordinator_wait_propagate(t) ==
    /\ sess[t, coordinator[t]] = "propagate"
    /\ \A p \in participants[t] : sess[t, p] = "ended"
    /\ sess' = [sess EXCEPT ![t, coordinator[t]] = "ended"]
    /\ UNCHANGED <<world, queue, holder, hbeats, dtran, failrc, status, net>>

Next == \/ \E t \in Txn : \/ coordinator_failed(t) \/ disttxn_timeout(t)
                          \/ coordinator_wait(t) \/ coordinator_wait_propagate(t)
        \/ \E t \in Txn, d \in Db : osql_done(t, d) \/ prepare(t, d)
        \/ \E j \in Part : \/ osql_prepare(j[1], j[2]) \/ participant_has_failed(j[1], j[2])
                           \/ participant_result(j[1], j[2]) \/ participant_wait(j[1], j[2])
        \/ \E d \in Db : itoblock(d)

\* Threads run, messages arrive and timers fire.  No step can be repeated, so
\* this makes every step that stays possible happen.
Spec == Init /\ [][Next]_vars /\ WF_vars(Next)

-----------------------------------------------------------------------------
\* Every variable keeps its type, and the threads of a database are within
\* their limit.
TypeOK ==
    /\ world \in Worlds
    /\ \A d \in Db : /\ queue[d] \in Seq(Txn) /\ holder[d] \in Txn \cup {None}
                     /\ Cardinality(Writers(d)) <= world.maxwthreads
    /\ sess \in [Txn \X Db -> {"stream", "done", "sanctioned", "queued", "running",
                               "prepared", "forced", "propagate", "ended"}]
    /\ hbeats \subseteq Part
    /\ dtran \in [Txn -> {"init", "collected", "preparing", "committed", "aborted"}]
    /\ failrc \in [Txn -> {"none", "retryable", "final"}]
    /\ status \in [Part -> {"init", "preparing", "prepared", "failed"}]
    /\ net \subseteq [type : {"PREPARE", "PREPARED", "FAILED", "COMMIT", "ABORT"}, t : Txn, db : Db]

\* Whatever the transactions wait for, threads or locks, everybody ends and
\* every thread is free again: no cycle through threads, locks and
\* coordinators of several databases is left standing (the deadlock of
\* disable_heartbeats_before_dispatch's comment, and wait-die).
AllEnd == <>(\A j \in Txn \X Db : sess[j] = "ended")

\* A coordinator never gives up on a participant that has a writer thread: the
\* one it waits for sends heartbeats whenever it has one, and none while it
\* waits for one (disable_heartbeats_before_dispatch,
\* reenable_participant_heartbeats).
SilentWhenQueued ==
    \A j \in Part : /\ sess[j] \in {"running", "prepared"} => j \in hbeats
                    /\ sess[j] = "queued" => j \notin hbeats
=============================================================================
