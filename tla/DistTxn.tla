------------------------------ MODULE DistTxn ------------------------------
(***************************************************************************)
(* Two-phase commit of one distributed transaction (db/disttxn.c, driven   *)
(* by db/toblock.c).  A dist-txnid is used for one attempt only, so one    *)
(* transaction is modelled; what the databases do for others does not      *)
(* touch its state.                                                        *)
(*                                                                         *)
(* Every database is a replicated cluster with one master.  The            *)
(* coordinator database tracks the transaction in active_transactions_hash *)
(* (state, status, ...), is itself a participant (coordinator_local), and  *)
(* commits by adding a record to comdb2_distributed_transactions.  Each    *)
(* other participant logs a prepare record, announces it, and waits.       *)
(***************************************************************************)
EXTENDS Naturals, FiniteSets

CONSTANTS
    Participants,       \* the participant databases
    Coordinator,        \* the coordinator database
    Hosts,              \* the machines that can be a master
    FirstHost,          \* the master of every database at the start
    None,               \* no host, no participant_hash entry
    CanRetry,           \* can_retry of the coordinator's block processor
    Failing,            \* the databases whose master changes
    MaxFailovers,       \* bound on the changes of master
    StableGenerations   \* a participant database's generation reaches a quorum
                        \* before its next change of master

ASSUME ConstantsAssumption ==
    /\ Coordinator \notin Participants
    /\ IsFiniteSet(Participants) /\ Participants # {}
    /\ FirstHost \in Hosts /\ None \notin Hosts
    /\ CanRetry \in BOOLEAN /\ StableGenerations \in BOOLEAN
    /\ Failing \subseteq Participants \cup {Coordinator} /\ MaxFailovers \in Nat
    /\ None \notin {"PREPARED", "ABORTED", "COMMITTED"}

VARIABLES
    log,            \* the last of this transaction's records in the master's log
    cand,           \* the values log has on the nodes that may be elected
    durableGen,     \* the master's generation has a durable commit
    host,           \* the master
    lockDesired,    \* bdb_lock_desired: the master is asked to downgrade
    failovers,      \* number of changes of master so far
    cpc,            \* where the coordinator's block processor is
    state,          \* dtran->state, "none" when dtran is not in the hash
    status,         \* part->status of each participant
    partMaster,     \* part->participant_master
    local,          \* dtran->coordinator_local->status
    failrc,         \* dtran->failrc and outrc: "ok" is zero
    rcode,          \* the rcode coordinator_wait gave toblock, None before
    timer,          \* the timer thread sends aborts with dtran->lk released
    ppc,            \* where each participant's block processor is
    participant_hash,   \* each participant's entry, on each host
    coordMaster,    \* coordinator_master, learned from the PREPARE message
    msgs            \* messages sent; one stays until the model consumes it

repl  == <<log, cand, durableGen, host, lockDesired, failovers>>
coord == <<cpc, state, status, partMaster, local, failrc, rcode, timer>>
parts == <<ppc, participant_hash, coordMaster>>
vars  == <<repl, coord, parts, msgs>>

Databases == Participants \cup {Coordinator}

-----------------------------------------------------------------------------
(* Replication, as this protocol uses it.                                  *)

\* The records a log holds, given the last one.  "dist" is the row added to
\* comdb2_distributed_transactions; the others are the dist_prepare,
\* dist_commit and dist_abort log records.
Records == [none   |-> {},
            prep   |-> {"prep"},
            dist   |-> {"prep", "dist"},
            commit |-> {"prep", "dist", "commit"},
            abort  |-> {"prep", "abort"}]

\* A record is durable when no node that can become master is without it.
IsDurable(d, r) == \A c \in cand[d] : r \in Records[c]

\* The master writes record r: the other nodes may or may not receive it.
LogRecord(d, r) ==
    /\ log' = [log EXCEPT ![d] = r]
    /\ cand' = [cand EXCEPT ![d] = @ \cup {r}]
    /\ UNCHANGED <<durableGen, host, lockDesired, failovers>>

\* A quorum acknowledges the whole log of the master's generation.
Replicate(d) ==
    /\ cand' = [cand EXCEPT ![d] = {log[d]}]
    /\ durableGen' = [durableGen EXCEPT ![d] = TRUE]
    /\ UNCHANGED <<log, host, lockDesired, failovers, coord, parts, msgs>>

\* The master answers 2pc messages unless it is about to downgrade.
process_disttxn(d, m) ==
    /\ m \in msgs
    /\ m.to = host[d]
    /\ ~lockDesired[d]

-----------------------------------------------------------------------------
(* Messages.                                                               *)

PreparedMsg(p, to)   == [type |-> "PREPARED", part |-> p, to |-> to, from |-> host[p]]
FailedMsg(p, rc)     == [type |-> "FAILED_PREPARE", part |-> p, to |-> coordMaster[p], rc |-> rc]
PropagatedMsg(p)     == [type |-> "PROPAGATED", part |-> p, to |-> coordMaster[p]]
CommitMsg(p, to)     == [type |-> "COMMIT", part |-> p, to |-> to]
AbortMsg(p, to)      == [type |-> "ABORT", part |-> p, to |-> to]

-----------------------------------------------------------------------------
(* The coordinator.                                                        *)

is_committed == state \in {"COMMITTED", "PROPAGATED", "PROPAGATE_TIMEOUT"}

\* A faulty variant: a transaction whose propagation timed out counts as aborted.
is_aborted_faulty ==
    state \in {"ABORTED", "ABORT_RESOLVED", "FAILED_DISPATCH", "PROPAGATE_TIMEOUT"}

is_aborted == state \in {"ABORTED", "ABORT_RESOLVED", "FAILED_DISPATCH"}

coordinator_waiting == cpc \in {"wait", "fwait", "write", "written"}

\* What abort_transaction_lk sends when the participants' statuses are st.
AbortMsgs(st, abort_only_prepared) ==
    {AbortMsg(p, partMaster[p]) : p \in
        {q \in Participants : \/ st[q] = "PREPARED"
                              \/ st[q] = "PREPARING" /\ ~abort_only_prepared}}

\* A faulty variant, to test the properties: one participant is not counted.
check_commitable_faulty(st, loc) ==
    IF /\ state = "PREPARING"
       /\ \A p, q \in Participants : p # q => "PREPARED" \in {st[p], st[q]}
       /\ loc = "PREPARED"
    THEN "PREPARED" ELSE state

\* disttxn_check_commitable_lk with statuses st and coordinator_local's loc.
disttxn_check_commitable_lk(st, loc) ==
    IF /\ state = "PREPARING"
       /\ \A p \in Participants : st[p] = "PREPARED"
       /\ loc = "PREPARED"
    THEN "PREPARED" ELSE state

\* The answer to a transaction that is no longer in the hash.
transaction_has_committed ==
    IF ~durableGen[Coordinator] THEN "IS_NOT_DURABLE"
    ELSE IF "dist" \in Records[log[Coordinator]] THEN "HAS_COMMITTED"
    ELSE "HAS_ABORTED"

\* Some participant is preparing, so its heartbeats may be late.
check_participant_timeout_lk == \E p \in Participants : status[p] = "PREPARING"

collect_participants ==
    /\ cpc = "start"
    /\ \/ state' = "COLLECTED" /\ cpc' = "dispatch"
       \/ cpc' = "done" /\ UNCHANGED state          \* 2pc disabled, or no table
    /\ UNCHANGED <<repl, parts, msgs, status, partMaster, local, failrc, rcode, timer>>

dispatch_participants ==
    /\ cpc = "dispatch" /\ state = "COLLECTED"
    /\ state' = "PREPARING" /\ cpc' = "sending"
    /\ UNCHANGED <<repl, parts, msgs, status, partMaster, local, failrc, rcode, timer>>

\* osql_prepare at the participant's master: its session may now run.
osql_prepare(p) ==
    /\ ~lockDesired[p]
    /\ ppc' = [ppc EXCEPT ![p] = IF @ = "session" THEN "running" ELSE @]
    /\ coordMaster' = [coordMaster EXCEPT ![p] = host[Coordinator]]
    /\ UNCHANGED participant_hash

\* One round of prepare_participants_lk's loop that succeeds.
send_prepare_message(p) ==
    /\ cpc = "sending" /\ status[p] = "INIT"
    /\ osql_prepare(p)
    /\ status' = [status EXCEPT ![p] = "PREPARING"]
    /\ partMaster' = [partMaster EXCEPT ![p] = host[p]]
    /\ UNCHANGED <<repl, msgs, cpc, state, local, failrc, rcode, timer>>

\* One that fails, whether or not the participant got the message.
prepare_participants_fail(p) ==
    /\ cpc = "sending" /\ status[p] = "INIT"
    /\ osql_prepare(p) \/ UNCHANGED parts
    /\ status' = [status EXCEPT ![p] = "FAILED_PREPARE"]
    /\ msgs' = msgs \cup AbortMsgs(status, FALSE)
    /\ state' = "FAILED_DISPATCH" /\ failrc' = "fatal"
    /\ cpc' = "running"
    /\ UNCHANGED <<repl, partMaster, local, rcode, timer>>

prepare_participants_done ==
    /\ cpc = "sending" /\ \A p \in Participants : status[p] # "INIT"
    /\ cpc' = "running"
    /\ UNCHANGED <<repl, parts, msgs, state, status, partMaster, local, failrc, rcode, timer>>

\* coordinator_failed: the coordinator's own schedule or prepare failed.
coordinator_failed ==
    /\ local' = "FAILED"
    /\ msgs' = IF state = "PREPARING" THEN msgs \cup AbortMsgs(status, FALSE) ELSE msgs
    /\ state' = "ABORT_RESOLVED"
    /\ cpc' = "cleanup"

\* toblock has executed the coordinator's schedule.
coordinator_toblock ==
    /\ cpc = "running"
    /\ \/ /\ LogRecord(Coordinator, "prep") /\ cpc' = "logged"
          /\ UNCHANGED <<msgs, state, local>>
       \/ /\ coordinator_failed /\ UNCHANGED repl
       \/ /\ CanRetry /\ cpc' = "fprepared"         \* retryable: wait, then fail
          /\ UNCHANGED <<repl, msgs, state, local>>
    /\ UNCHANGED <<parts, status, partMaster, failrc, rcode, timer>>

\* bdb_tran_prepare returns: the record reached a quorum, or did not in time.
coordinator_prepare ==
    /\ cpc = "logged"
    /\ \/ /\ IsDurable(Coordinator, "prep") /\ cpc' = "prepared"
          /\ UNCHANGED <<msgs, state, local>>
       \/ coordinator_failed
    /\ UNCHANGED <<repl, parts, status, partMaster, failrc, rcode, timer>>

coordinator_wait ==
    /\ cpc \in {"prepared", "fprepared"}
    /\ local' = "PREPARED"
    /\ state' = disttxn_check_commitable_lk(status, local')
    /\ cpc' = IF cpc = "prepared" THEN "wait" ELSE "fwait"
    /\ UNCHANGED <<repl, parts, msgs, status, partMaster, failrc, rcode, timer>>

\* coordinator_should_wait_lk does not keep the coordinator waiting.
StopsWaiting ==
    \/ lockDesired[Coordinator]
    \/ check_participant_timeout_lk
    \/ /\ state # "PREPARING"
       /\ ~ /\ state = "ABORTED" /\ CanRetry /\ failrc # "fatal"
            /\ \E p \in Participants : status[p] \notin {"PREPARED", "FAILED"}

\* What follows the wait, for each state the wait ends in.
coordinator_wait_end ==
    /\ cpc \in {"wait", "fwait"} /\ StopsWaiting
    /\ \/ /\ state \in {"ABORTED", "FAILED_DISPATCH"}
          /\ rcode' = failrc /\ state' = "ABORT_RESOLVED" /\ cpc' = "cleanup"
          /\ UNCHANGED msgs
       \/ /\ \/ state = "PREPARING"
             \/ state = "PREPARED" /\ (lockDesired[Coordinator] \/ cpc = "fwait")
          /\ rcode' = "fatal" /\ state' = "ABORT_RESOLVED" /\ cpc' = "cleanup"
          /\ msgs' = msgs \cup AbortMsgs(status, FALSE)
       \/ /\ state = "PREPARED" /\ ~lockDesired[Coordinator] /\ cpc = "wait"
          /\ cpc' = "write" /\ UNCHANGED <<rcode, state, msgs>>
    /\ UNCHANGED <<repl, parts, status, partMaster, local, failrc, timer>>

\* commit_distributed_transaction: add the row, or fail to.
commit_distributed_transaction ==
    /\ cpc = "write"
    /\ \/ /\ LogRecord(Coordinator, "dist") /\ cpc' = "written"
          /\ UNCHANGED <<msgs, state, rcode>>
       \/ /\ state' = "ABORTED" /\ rcode' = "fatal" /\ cpc' = "abort"
          /\ msgs' = msgs \cup AbortMsgs(status, FALSE)
          /\ UNCHANGED repl
    /\ UNCHANGED <<parts, status, partMaster, local, failrc, timer>>

\* bdb_block_durable returns: the row is durable, or the lock is desired.
commit_participants ==
    /\ cpc = "written"
    /\ \/ /\ IsDurable(Coordinator, "dist")
          /\ state' = "COMMITTED" /\ cpc' = "commit"
          /\ msgs' = msgs \cup {CommitMsg(p, partMaster[p]) : p \in Participants}
       \/ /\ lockDesired[Coordinator]
          /\ state' = "LOCK_DESIRED" /\ cpc' = "discard"
          /\ UNCHANGED msgs
    /\ UNCHANGED <<repl, parts, status, partMaster, local, failrc, rcode, timer>>

\* trans_commit_adaptive of the coordinator's own transaction.
coordinator_commit ==
    /\ cpc = "commit"
    /\ LogRecord(Coordinator, "commit") /\ cpc' = "propagate"
    /\ UNCHANGED <<parts, msgs, state, status, partMaster, local, failrc, rcode, timer>>

\* coordinator_wait_propagate gives up on a participant's heartbeats ...
check_participant_propagate_timeout_lk(p) ==
    /\ cpc = "propagate" /\ status[p] = "PREPARED"
    /\ status' = [status EXCEPT ![p] = "FAILED_PROPAGATE"]
    /\ UNCHANGED <<repl, parts, msgs, cpc, state, partMaster, local, failrc, rcode, timer>>

\* ... and returns when all are accounted for; coordinator_resolve does not wait.
coordinator_wait_propagate ==
    /\ cpc = "propagate"
    /\ \/ /\ \A p \in Participants : status[p] \in {"PROPAGATED", "FAILED_PROPAGATE"}
          /\ state' = "PROPAGATED"
       \/ state' = "PROPAGATE_TIMEOUT"
    /\ cpc' = "cleanup"
    /\ UNCHANGED <<repl, parts, msgs, status, partMaster, local, failrc, rcode, timer>>

\* cleanup_dtran takes the transaction out of the hash ...
cleanup_dtran ==
    /\ cpc = "cleanup"
    /\ state' = "none"
    /\ cpc' = IF is_aborted THEN "abort" ELSE "done"
    /\ UNCHANGED <<repl, parts, msgs, status, partMaster, local, failrc, rcode, timer>>

\* ... and returns when no thread is sending; then trans_abort: a prepared
\* transaction logs its abort.
coordinator_abort ==
    /\ cpc = "abort" /\ timer = "idle"
    /\ IF log[Coordinator] = "prep" THEN LogRecord(Coordinator, "abort") ELSE UNCHANGED repl
    /\ cpc' = "done"
    /\ UNCHANGED <<parts, msgs, state, status, partMaster, local, failrc, rcode, timer>>

\* The timer thread aborts a transaction whose coordinator is still executing.
\* abort_transaction_lk releases dtran->lk to send unless prepare_participants_lk
\* is sending; failrc is set once it holds the lock again.
disttxn_timeout ==
    /\ \/ /\ timer = "idle" /\ state = "PREPARING" /\ ~coordinator_waiting
          /\ check_participant_timeout_lk
          /\ state' = "ABORTED" /\ msgs' = msgs \cup AbortMsgs(status, FALSE)
          /\ IF cpc = "sending" THEN failrc' = "fatal" /\ UNCHANGED timer
                                ELSE timer' = "sending" /\ UNCHANGED failrc
       \/ /\ timer = "sending"
          /\ failrc' = "fatal" /\ timer' = "idle"
          /\ UNCHANGED <<state, msgs>>
    /\ UNCHANGED <<repl, parts, cpc, status, partMaster, local, rcode>>

\* participant_result(success): participant p, at m.from, has prepared.
participant_prepared(p, m) ==
    /\ m.type = "PREPARED" /\ m.part = p /\ process_disttxn(Coordinator, m)
    /\ \/ /\ state = "PREPARING"
          /\ status' = [status EXCEPT ![p] = IF @ = "PREPARING" THEN "PREPARED" ELSE @]
          /\ state' = disttxn_check_commitable_lk(status', local)
          /\ UNCHANGED msgs
       \/ /\ is_aborted
          /\ status' = [status EXCEPT ![p] = IF @ = "PREPARING" THEN "FAILED" ELSE @]
          /\ msgs' = msgs \cup {AbortMsg(p, m.from)}
          /\ UNCHANGED state
       \/ /\ \/ is_committed
             \/ state = "none" /\ transaction_has_committed = "HAS_COMMITTED"
          /\ msgs' = msgs \cup {CommitMsg(p, m.from)}
          /\ UNCHANGED <<state, status>>
       \/ /\ state = "none" /\ transaction_has_committed = "HAS_ABORTED"
          /\ msgs' = msgs \cup {AbortMsg(p, m.from)}
          /\ UNCHANGED <<state, status>>
    /\ UNCHANGED <<repl, parts, cpc, partMaster, local, failrc, rcode, timer>>

\* participant_result(failure): participant p could not prepare.
participant_failed(p, m) ==
    /\ m.type = "FAILED_PREPARE" /\ m.part = p /\ process_disttxn(Coordinator, m)
    /\ IF state = "none" THEN UNCHANGED status
       ELSE status' = [status EXCEPT ![p] = IF @ = "PREPARING" THEN "FAILED" ELSE @]
    /\ IF state = "PREPARING"
       THEN /\ failrc' = m.rc /\ state' = "ABORTED"
            /\ msgs' = (msgs \ {m}) \cup AbortMsgs(status', m.rc = "retry")
       ELSE /\ failrc' = IF state # "none" /\ failrc = "retry" THEN m.rc ELSE failrc
            /\ msgs' = msgs \ {m}
            /\ UNCHANGED state
    /\ UNCHANGED <<repl, parts, cpc, partMaster, local, rcode, timer>>

participant_propagated(p, m) ==
    /\ m.type = "PROPAGATED" /\ m.part = p /\ process_disttxn(Coordinator, m)
    /\ msgs' = msgs \ {m}
    /\ status' = [status EXCEPT ![p] =
                     IF state # "none" /\ @ = "PREPARED" THEN "PROPAGATED" ELSE @]
    /\ UNCHANGED <<repl, parts, cpc, state, partMaster, local, failrc, rcode, timer>>

\* A new master resolves coordinator_local by its own distributed transactions table.
recover_prepared_coordinator ==
    /\ cpc = "recovered"
    /\ \/ transaction_has_committed = "HAS_COMMITTED" /\ LogRecord(Coordinator, "commit")
       \/ transaction_has_committed = "HAS_ABORTED" /\ LogRecord(Coordinator, "abort")
    /\ cpc' = "done"
    /\ UNCHANGED <<parts, msgs, state, status, partMaster, local, failrc, rcode, timer>>

-----------------------------------------------------------------------------
(* A participant.                                                          *)

Entry(p) == participant_hash[p][host[p]]

SetEntry(p, v) == participant_hash' = [participant_hash EXCEPT ![p][host[p]] = v]

\* participant_has_failed, called by toblock: drop the entry, tell the coordinator.
participant_has_failed(p, rc) ==
    /\ SetEntry(p, None)
    /\ msgs' = msgs \cup {FailedMsg(p, rc)}

participant_toblock(p) ==
    /\ ppc[p] = "running"
    /\ \/ /\ LogRecord(p, "prep") /\ ppc' = [ppc EXCEPT ![p] = "logged"]
          /\ UNCHANGED <<participant_hash, msgs>>
       \/ /\ \E rc \in {"retry", "fatal"} : participant_has_failed(p, rc)
          /\ ppc' = [ppc EXCEPT ![p] = "done"]
          /\ UNCHANGED repl
    /\ UNCHANGED <<coord, coordMaster>>

\* bdb_tran_prepare returns: the record reached a quorum, or did not in time.
participant_prepare(p) ==
    /\ ppc[p] = "logged"
    /\ \/ /\ IsDurable(p, "prep")
          /\ ppc' = [ppc EXCEPT ![p] = "prepared"]
          /\ UNCHANGED <<participant_hash, msgs>>
       \/ /\ participant_has_failed(p, "fatal")
          /\ ppc' = [ppc EXCEPT ![p] = "abort"]
    /\ UNCHANGED <<repl, coord, coordMaster>>

\* participant_wait_int announces the prepare before it takes part_lk.
send_coordinator_prepared(p) ==
    /\ ppc[p] = "prepared"
    /\ msgs' = msgs \cup {PreparedMsg(p, coordMaster[p])}
    /\ ppc' = [ppc EXCEPT ![p] = "announced"]
    /\ UNCHANGED <<repl, coord, participant_hash, coordMaster>>

participant_wait(p) ==
    /\ ppc[p] = "announced"
    /\ SetEntry(p, IF Entry(p) = None THEN "PREPARED" ELSE Entry(p))
    /\ ppc' = [ppc EXCEPT ![p] = "wait"]
    /\ UNCHANGED <<repl, coord, coordMaster, msgs>>

\* A faulty variant: nobody speaks for a recovered prepare.
find_master_faulty(p) ==
    /\ ppc[p] = "wait" /\ Entry(p) = "PREPARED" /\ ~lockDesired[p]
    /\ msgs' = msgs \cup {PreparedMsg(p, host[Coordinator])}
    /\ UNCHANGED <<repl, coord, parts>>

\* The prepare is announced again, by the waiting thread every second or by
\* disttxn_recover_prepared, to whoever is now the coordinator's master.
send_coordinator_prepared_find_master(p) ==
    /\ \/ ppc[p] = "wait" /\ Entry(p) = "PREPARED" /\ ~lockDesired[p]
       \/ ppc[p] = "recovered"
    /\ msgs' = msgs \cup {PreparedMsg(p, host[Coordinator])}
    /\ UNCHANGED <<repl, coord, parts>>

\* A faulty variant: a downgrade aborts the prepared transaction.
participant_wait_end_faulty(p) ==
    /\ ppc[p] = "wait" /\ (Entry(p) # "PREPARED" \/ lockDesired[p])
    /\ ppc' = [ppc EXCEPT ![p] = IF Entry(p) = "COMMITTED" THEN "commit" ELSE "abort"]
    /\ SetEntry(p, None)
    /\ UNCHANGED <<repl, coord, coordMaster, msgs>>

\* A faulty variant: a downgrade lets the prepared transaction commit.
participant_wait_end_commits(p) ==
    /\ ppc[p] = "wait" /\ (Entry(p) # "PREPARED" \/ lockDesired[p])
    /\ ppc' = [ppc EXCEPT ![p] = IF Entry(p) = "ABORTED" THEN "abort" ELSE "commit"]
    /\ SetEntry(p, None)
    /\ UNCHANGED <<repl, coord, coordMaster, msgs>>

participant_wait_end(p) ==
    /\ ppc[p] = "wait" /\ (Entry(p) # "PREPARED" \/ lockDesired[p])
    /\ ppc' = [ppc EXCEPT ![p] = CASE Entry(p) = "COMMITTED" -> "commit"
                                   [] Entry(p) = "ABORTED"   -> "abort"
                                   [] Entry(p) = "PREPARED"  -> "discard"]
    /\ SetEntry(p, None)
    /\ UNCHANGED <<repl, coord, coordMaster, msgs>>

participant_commit(p) ==
    /\ ppc[p] = "commit"
    /\ LogRecord(p, "commit")
    /\ ppc' = [ppc EXCEPT ![p] = "committed"]
    /\ UNCHANGED <<coord, participant_hash, coordMaster, msgs>>

participant_has_propagated(p) ==
    /\ ppc[p] = "committed"
    /\ msgs' = msgs \cup {PropagatedMsg(p)}
    /\ ppc' = [ppc EXCEPT ![p] = "done"]
    /\ UNCHANGED <<repl, coord, participant_hash, coordMaster>>

participant_abort(p) ==
    /\ ppc[p] = "abort"
    /\ LogRecord(p, "abort")
    /\ ppc' = [ppc EXCEPT ![p] = "done"]
    /\ UNCHANGED <<coord, participant_hash, coordMaster, msgs>>

\* A decision for a recovered prepare is applied at once if there is no entry;
\* otherwise it is left in the entry for the block processor.
coordinator_committed(p, m) ==
    /\ m.type = "COMMIT" /\ m.part = p /\ process_disttxn(p, m)
    /\ IF Entry(p) = None /\ ppc[p] = "recovered"
       THEN /\ LogRecord(p, "commit") /\ ppc' = [ppc EXCEPT ![p] = "done"]
            /\ UNCHANGED participant_hash
       ELSE SetEntry(p, "COMMITTED") /\ UNCHANGED <<repl, ppc>>
    /\ UNCHANGED <<coord, coordMaster, msgs>>

coordinator_aborted(p, m) ==
    /\ m.type = "ABORT" /\ m.part = p /\ process_disttxn(p, m)
    /\ IF Entry(p) = None /\ ppc[p] = "recovered"
       THEN /\ LogRecord(p, "abort") /\ ppc' = [ppc EXCEPT ![p] = "done"]
            /\ UNCHANGED participant_hash
       ELSE /\ SetEntry(p, IF Entry(p) = "COMMITTED" THEN "COMMITTED" ELSE "ABORTED")
            /\ UNCHANGED <<repl, ppc>>
    /\ UNCHANGED <<coord, coordMaster, msgs>>

-----------------------------------------------------------------------------
(* Changes of master.                                                      *)

\* Somebody wants the bdb lock for writing: an election was lost, or an
\* operator asked for a new master.
LockDesired(d) ==
    /\ failovers < MaxFailovers /\ ~lockDesired[d]
    /\ lockDesired' = [lockDesired EXCEPT ![d] = TRUE]
    /\ failovers' = failovers + 1
    /\ UNCHANGED <<log, cand, durableGen, host, coord, parts, msgs>>

\* The new master h has the log c of one of the candidates.
NewMaster(d, h, c) ==
    /\ failovers < MaxFailovers \/ lockDesired[d]
    /\ StableGenerations /\ d # Coordinator => durableGen[d]
    /\ log' = [log EXCEPT ![d] = c]
    /\ durableGen' = [durableGen EXCEPT ![d] = FALSE]
    /\ host' = [host EXCEPT ![d] = h]
    /\ lockDesired' = [lockDesired EXCEPT ![d] = FALSE]
    /\ failovers' = IF lockDesired[d] THEN failovers ELSE failovers + 1
    /\ UNCHANGED <<cand, msgs>>

\* A prepare that is still in the log is recovered; every other trace of the
\* transaction in the old master's memory is gone (disttxn_cleanup).
NewCoordinator(h, c) ==
    /\ NewMaster(Coordinator, h, c)
    /\ cpc' = IF c \in {"prep", "dist"} THEN "recovered" ELSE "done"
    /\ state' = "none"
    /\ failrc' = "ok" /\ rcode' = None /\ timer' = "idle"
    /\ status' = [p \in Participants |-> "INIT"]
    /\ partMaster' = [p \in Participants |-> None]
    /\ local' = "PREPARING"
    /\ UNCHANGED parts

\* participant_hash outlives a downgrade, and not a crash.
NewParticipantMaster(p, h, c) ==
    /\ NewMaster(p, h, c)
    /\ ppc' = [ppc EXCEPT ![p] = IF c = "prep" THEN "recovered" ELSE "done"]
    /\ \/ /\ lockDesired[p] /\ ppc[p] \in {"session", "discard", "recovered", "done"}
          /\ h = host[p] => c = log[p]
          /\ UNCHANGED participant_hash
       \/ SetEntry(p, None)
    /\ UNCHANGED <<coord, coordMaster>>

Failover(d) ==
    \E h \in Hosts, c \in cand[d] :
        \/ d = Coordinator /\ NewCoordinator(h, c)
        \/ d \in Participants /\ NewParticipantMaster(d, h, c)

-----------------------------------------------------------------------------
Init ==
    /\ log = [d \in Databases |-> "none"]
    /\ cand = [d \in Databases |-> {"none"}]
    /\ durableGen = [d \in Databases |-> TRUE]
    /\ host = [d \in Databases |-> FirstHost]
    /\ lockDesired = [d \in Databases |-> FALSE]
    /\ failovers = 0
    /\ cpc = "start" /\ state = "none" /\ local = "PREPARING"
    /\ status = [p \in Participants |-> "INIT"]
    /\ partMaster = [p \in Participants |-> None]
    /\ failrc = "ok" /\ rcode = None /\ timer = "idle"
    /\ ppc = [p \in Participants |-> "session"]
    /\ participant_hash = [p \in Participants |-> [h \in Hosts |-> None]]
    /\ coordMaster = [p \in Participants |-> None]
    /\ msgs = {}

\* The coordinator's block processor and its own recovery.
CoordinatorStep ==
    \/ collect_participants \/ dispatch_participants \/ prepare_participants_done
    \/ \E p \in Participants : send_prepare_message(p) \/ prepare_participants_fail(p)
    \/ coordinator_toblock \/ coordinator_prepare
    \/ coordinator_wait \/ coordinator_wait_end
    \/ commit_distributed_transaction \/ commit_participants
    \/ coordinator_commit \/ coordinator_wait_propagate
    \/ \E p \in Participants : check_participant_propagate_timeout_lk(p)
    \/ cleanup_dtran \/ coordinator_abort
    \/ recover_prepared_coordinator

\* A participant's block processor and its recovery.
ParticipantStep(p) ==
    \/ participant_toblock(p) \/ participant_prepare(p)
    \/ send_coordinator_prepared(p) \/ participant_wait(p)
    \/ send_coordinator_prepared_find_master(p) \/ participant_wait_end(p)
    \/ participant_commit(p) \/ participant_abort(p)
    \/ participant_has_propagated(p)

\* A message is handled.
Receive(p) ==
    \E m \in msgs :
        \/ participant_prepared(p, m) \/ participant_failed(p, m)
        \/ participant_propagated(p, m)
        \/ coordinator_committed(p, m) \/ coordinator_aborted(p, m)

Next ==
    \/ CoordinatorStep \/ disttxn_timeout
    \/ \E p \in Participants : ParticipantStep(p) \/ Receive(p)
    \/ \E d \in Databases : Replicate(d)
    \/ \E d \in Failing : LockDesired(d) \/ Failover(d)

Spec == Init /\ [][Next]_vars

(* Block processors, message handlers and timers keep running; a message   *)
(* that keeps being sent arrives; logs replicate; a master that is asked   *)
(* to downgrade does.  Nothing is assumed of the outcomes they meet.       *)
Fairness ==
    /\ WF_vars(CoordinatorStep) /\ WF_vars(timer = "sending" /\ disttxn_timeout)
    /\ \A p \in Participants : WF_vars(ParticipantStep(p)) /\ WF_vars(Receive(p))
    /\ \A d \in Databases : WF_vars(Replicate(d))
    /\ \A d \in Failing : WF_vars(lockDesired[d] /\ Failover(d))

FairSpec == Spec /\ Fairness

-----------------------------------------------------------------------------
(* Properties.                                                             *)

Message ==
    [type : {"PREPARED"}, part : Participants, to : Hosts, from : Hosts]
      \cup [type : {"FAILED_PREPARE"}, part : Participants, to : Hosts, rc : {"retry", "fatal"}]
      \cup [type : {"PROPAGATED", "COMMIT", "ABORT"}, part : Participants, to : Hosts]

CoordinatorPcs ==
    {"start", "dispatch", "sending", "running", "logged", "prepared", "fprepared",
     "wait", "fwait", "write", "written", "commit", "propagate", "cleanup", "abort",
     "discard", "recovered", "done"}

TxnStates ==
    {"none", "COLLECTED", "PREPARING", "ABORTED", "PREPARED", "COMMITTED", "PROPAGATED",
     "PROPAGATE_TIMEOUT", "ABORT_RESOLVED", "LOCK_DESIRED", "FAILED_DISPATCH"}

PartStatuses ==
    {"INIT", "FAILED_PREPARE", "PREPARING", "PREPARED", "PROPAGATED", "FAILED_PROPAGATE", "FAILED"}

ParticipantPcs ==
    {"session", "running", "logged", "prepared", "announced", "wait", "commit",
     "committed", "abort", "discard", "recovered", "done"}

\* Types; a message is never addressed to an unknown master, which is what
\* abort_transaction_lk asserts of participant_master.
TypeOK ==
    /\ log \in [Databases -> DOMAIN Records]
    /\ cand \in [Databases -> SUBSET DOMAIN Records]
    /\ durableGen \in [Databases -> BOOLEAN]
    /\ host \in [Databases -> Hosts]
    /\ lockDesired \in [Databases -> BOOLEAN]
    /\ failovers \in 0..MaxFailovers
    /\ cpc \in CoordinatorPcs
    /\ state \in TxnStates
    /\ status \in [Participants -> PartStatuses]
    /\ partMaster \in [Participants -> Hosts \cup {None}]
    /\ local \in {"PREPARING", "PREPARED", "FAILED"}
    /\ failrc \in {"ok", "retry", "fatal"}
    /\ rcode \in {"ok", "retry", "fatal", None}
    /\ timer \in {"idle", "sending"}
    /\ ppc \in [Participants -> ParticipantPcs]
    /\ participant_hash \in [Participants -> [Hosts -> {"PREPARED", "ABORTED", "COMMITTED", None}]]
    /\ coordMaster \in [Participants -> Hosts \cup {None}]
    /\ msgs \subseteq Message

Sent(type) == \E m \in msgs : m.type = type

\* No master the coordinator database ever has answers COMMIT to one participant
\* when one of its masters answered ABORT to any, whatever was lost in between
\* (participant_result's slow path, abort_transaction_lk, commit_participants_lk).
OneDecision == ~ (Sent("COMMIT") /\ Sent("ABORT"))

\* Once COMMIT is sent, every node that can become the coordinator's master has
\* the row in comdb2_distributed_transactions; once ABORT is sent, none has it
\* (bdb_block_durable, bdb_committed_durable).
DecisionIsDurable ==
    /\ Sent("COMMIT") => IsDurable(Coordinator, "dist")
    /\ Sent("ABORT") => \A c \in cand[Coordinator] : "dist" \notin Records[c]

\* When one database has committed no other has aborted, or is without a prepare
\* (trans_commit_adaptive and trans_abort in toblock, txn_commit_recovered).
Unanimous ==
    \A d, e \in Databases : log[d] = "commit" => log[e] \notin {"none", "abort"}

\* A prepare that has been announced to the coordinator is only ever undone or
\* committed by the decision the coordinator sent (participant_wait_int).
PreparedIsPromise ==
    [][\A p \in Participants, m \in msgs :
          m.type = "PREPARED" /\ m.part = p /\ log[p] = "prep" =>
              /\ log'[p] = "abort" => Sent("ABORT")
              /\ log'[p] = "commit" => Sent("COMMIT")
              /\ log'[p] # "none"]_vars

\* The row that commits the transaction is written when every participant's
\* prepare is durable (bdb_tran_prepare waits for a quorum).
DurablePrepares ==
    log[Coordinator] \in {"dist", "commit"} =>
        \A p \in Participants : IsDurable(p, "prep")

\* Every prepared transaction is in the end committed or aborted, unless its
\* master's process holds an entry that an earlier decision left in
\* participant_hash (coordinator_aborted, coordinator_committed).
ResolvedUnlessStale ==
    \A d \in Databases :
        <>[](log[d] \in {"prep", "dist"} =>
                 d \in Participants /\ Entry(d) \in {"ABORTED", "COMMITTED"})

-----------------------------------------------------------------------------
(* What the protocol promises: the abstract atomic commitment.  The vote   *)
(* is the announced prepare, the decision the durable row or the first     *)
(* ABORT, and a database's outcome its durable commit or abort record.     *)

Outcome(d) ==
    CASE IsDurable(d, "commit") -> "committed"
      [] IsDurable(d, "abort")  -> "aborted"
      [] OTHER                  -> "active"

Decision ==
    CASE IsDurable(Coordinator, "dist") -> "commit"
      [] Sent("ABORT")                  -> "abort"
      [] OTHER                          -> "undecided"

Atomic == INSTANCE AtomicCommit
            WITH votes    <- {p \in Participants : \E m \in msgs : m.type = "PREPARED" /\ m.part = p},
                 decision <- Decision,
                 outcome  <- [d \in Databases |-> Outcome(d)]

\* The two-phase commit implements atomic commitment.
ImplementsAtomicCommit == Atomic!Spec
=============================================================================
