--------------------------- MODULE DistTxnProofs ---------------------------
(***************************************************************************)
(* Proofs about DistTxn, for any number of participants, hosts and changes *)
(* of master.                                                              *)
(*                                                                         *)
(* Masters is what makes TypeOK inductive.  Decided relates what the       *)
(* coordinator database has said to the logs of every node that may be     *)
(* elected; it needs no assumption on the environment.                     *)
(***************************************************************************)
EXTENDS DistTxn, TLAPS

\* Whoever is sent a message has a master the sender knows.
Masters ==
    /\ \A p \in Participants :
           status[p] \notin {"INIT", "FAILED_PREPARE"} => partMaster[p] \in Hosts
    /\ \A p \in Participants :
           ppc[p] \notin {"session", "discard", "recovered", "done"} => coordMaster[p] \in Hosts
    /\ \A p \in Participants : ppc[p] = "wait" => Entry(p) # None

\* The coordinator's block processor and dtran->state go together.
Phases ==
    /\ state \in {"COLLECTED", "PREPARING"} =>
           cpc \in {"dispatch", "sending", "running", "logged", "prepared", "fprepared", "wait", "fwait"}
    /\ cpc \in {"start", "dispatch", "sending", "running", "logged", "prepared", "fprepared"} =>
           local = "PREPARING"
    /\ state = "PREPARED" => cpc \in {"wait", "fwait", "write", "written"}
    /\ state = "PREPARED" => \A p \in Participants : status[p] \in {"PREPARED", "PROPAGATED"}
    /\ cpc \in {"write", "written"} => state = "PREPARED"

-----------------------------------------------------------------------------
HasDist(c) == c \in {"dist", "commit"}
AllDist == \A c \in cand[Coordinator] : HasDist(c)
NoDist  == \A c \in cand[Coordinator] : ~HasDist(c)

\* The program counters before the commit row is written.
Undecided == {"start", "dispatch", "sending", "running", "logged", "prepared", "fprepared",
              "wait", "fwait", "write"}

\* Where the coordinator is determines what can be in the logs and in msgs.
CoordinatorAt ==
    /\ cpc \in {"start", "dispatch"} =>
           /\ msgs = {}
           /\ state = IF cpc = "start" THEN "none" ELSE "COLLECTED"
           /\ \A p \in Participants : ppc[p] \in {"session", "done"} /\ cand[p] = {"none"}
    /\ cpc = "written" => log[Coordinator] = "dist"
    /\ cpc = "cleanup" => is_aborted \/ is_committed
    /\ cpc = "recovered" => state = "none"

\* What the coordinator database has said agrees with every log that can win.
Decided ==
    /\ \A d \in Databases : log[d] \in cand[d]
    /\ Sent("COMMIT") => AllDist
    /\ Sent("ABORT") => NoDist
    /\ state \in {"COLLECTED", "PREPARING", "PREPARED"} => ~Sent("ABORT")
    /\ cpc \in Undecided \cup {"abort"} \/ is_aborted => NoDist
    /\ cpc \in {"commit", "propagate"} \/ is_committed => AllDist
    /\ durableGen[Coordinator] /\ state = "none" =>
           IF HasDist(log[Coordinator]) THEN AllDist ELSE NoDist

-----------------------------------------------------------------------------
(* Types.                                                                  *)

\* The logs' values, which Records is indexed by.
LEMMA RecordNames == DOMAIN Records = {"none", "prep", "dist", "commit", "abort"}
BY DEF Records

\* A message to a known master is a message.
LEMMA MessageTypes ==
    ASSUME NEW p \in Participants, NEW to \in Hosts
    PROVE  /\ AbortMsg(p, to) \in Message
           /\ CommitMsg(p, to) \in Message
           /\ host[p] \in Hosts => PreparedMsg(p, to) \in Message
           /\ coordMaster[p] \in Hosts => PropagatedMsg(p) \in Message
BY DEF AbortMsg, CommitMsg, PreparedMsg, PropagatedMsg, Message

\* So is a participant's report of a failure.
LEMMA FailedMsgType ==
    ASSUME NEW p \in Participants, NEW rc \in {"retry", "fatal"}, coordMaster[p] \in Hosts
    PROVE  FailedMsg(p, rc) \in Message
BY DEF FailedMsg, Message

\* The type and the sender a message was built with are what is read back.
LEMMA MessageFields ==
    ASSUME NEW m \in Message
    PROVE  /\ m.part \in Participants
           /\ m.type = "PREPARED" => m.from \in Hosts
           /\ m.type = "FAILED_PREPARE" => m.rc \in {"retry", "fatal"}
BY DEF Message

\* abort_transaction_lk's assertion that participant_master is known.
LEMMA AbortMsgsType ==
    ASSUME NEW st, NEW b \in BOOLEAN,
           \A p \in Participants : st[p] \in {"PREPARED", "PREPARING"} => partMaster[p] \in Hosts
    PROVE  AbortMsgs(st, b) \subseteq Message
BY MessageTypes DEF AbortMsgs

\* The first state.
LEMMA TypeInit == Init => TypeOK /\ Masters /\ Phases
BY ConstantsAssumption, RecordNames DEF Init, TypeOK, Masters, Phases, Databases, Message,
   CoordinatorPcs, TxnStates, PartStatuses, ParticipantPcs

\* The parts of TypeOK that one action changes.
ReplOK  == /\ log \in [Databases -> DOMAIN Records]
           /\ cand \in [Databases -> SUBSET DOMAIN Records]
           /\ durableGen \in [Databases -> BOOLEAN]
           /\ host \in [Databases -> Hosts]
           /\ lockDesired \in [Databases -> BOOLEAN]
           /\ failovers \in 0..MaxFailovers
CoordOK == /\ cpc \in CoordinatorPcs
           /\ state \in TxnStates
           /\ status \in [Participants -> PartStatuses]
           /\ partMaster \in [Participants -> Hosts \cup {None}]
           /\ local \in {"PREPARING", "PREPARED", "FAILED"}
           /\ failrc \in {"ok", "retry", "fatal"}
           /\ rcode \in {"ok", "retry", "fatal", None}
           /\ timer \in {"idle", "sending"}
PartsOK == /\ ppc \in [Participants -> ParticipantPcs]
           /\ participant_hash \in [Participants -> [Hosts -> {"PREPARED", "ABORTED", "COMMITTED", None}]]
           /\ coordMaster \in [Participants -> Hosts \cup {None}]


\* The invariant of the coordinator's variables, and of the participants'.
CoordInv ==
    /\ CoordOK
    /\ Phases
    /\ \A p \in Participants :
           status[p] \notin {"INIT", "FAILED_PREPARE"} => partMaster[p] \in Hosts
PartsInv ==
    /\ PartsOK
    /\ \A p \in Participants :
           ppc[p] \notin {"session", "discard", "recovered", "done"} => coordMaster[p] \in Hosts
    /\ \A p \in Participants : ppc[p] = "wait" => Entry(p) # None

\* The invariant is the conjunction of its parts, over disjoint state ...
LEMMA TypeParts ==
    TypeOK /\ Masters /\ Phases <=> ReplOK /\ CoordInv /\ PartsInv /\ msgs \subseteq Message
BY DEF TypeOK, Masters, CoordInv, PartsInv, ReplOK, CoordOK, PartsOK

\* ... and so is its value after a step.
LEMMA TypePartsPrime ==
    ReplOK' /\ CoordInv' /\ PartsInv' /\ msgs' \subseteq Message => TypeOK' /\ Masters' /\ Phases'
BY DEF TypeOK, Masters, CoordInv, PartsInv, ReplOK, CoordOK, PartsOK, Message

\* A step that writes at most one record keeps the types and the masters.
Logs == UNCHANGED repl \/ \E d \in Databases, r \in DOMAIN Records : LogRecord(d, r)

\* Writing a record, or leaving the logs alone, keeps their types.
LEMMA LogsType == ASSUME ReplOK, Logs PROVE ReplOK' /\ UNCHANGED host
BY DEF ReplOK, Logs, LogRecord, repl

\* Only the coordinator's variables matter to its part ...
LEMMA CoordFrame == ASSUME CoordInv, UNCHANGED coord PROVE CoordInv'
BY DEF CoordInv, CoordOK, Phases, coord

\* ... and the participants' to theirs.
LEMMA PartsFrame == ASSUME PartsInv, UNCHANGED <<parts, host>> PROVE PartsInv'
BY DEF PartsInv, PartsOK, parts, Entry

\* Only participant p's own entries and program counter change.
LEMMA PartsOne ==
    ASSUME PartsInv, UNCHANGED coordMaster, NEW p \in Participants, NEW pc \in ParticipantPcs,
           ppc' = [ppc EXCEPT ![p] = pc],
           participant_hash' \in [Participants -> [Hosts -> {"PREPARED", "ABORTED", "COMMITTED", None}]],
           \A q \in Participants : q # p => host'[q] = host[q] /\ participant_hash'[q][host[q]] = participant_hash[q][host[q]],
           pc \notin {"session", "discard", "recovered", "done"} => coordMaster[p] \in Hosts,
           pc = "wait" => participant_hash'[p][host'[p]] # None
    PROVE  PartsInv'
<1>1. PartsOK' BY DEF PartsInv, PartsOK
<1>2. \A q \in Participants : ppc'[q] = IF q = p THEN pc ELSE ppc[q] BY DEF PartsInv, PartsOK
<1> QED BY <1>1, <1>2 DEF PartsInv, Entry

\* add_participant_lk and rem_participant_lk keep participant_hash's type ...
LEMMA SetEntryType ==
    ASSUME ReplOK, PartsInv, NEW p \in Participants,
           NEW v \in {"PREPARED", "ABORTED", "COMMITTED", None}, SetEntry(p, v)
    PROVE  /\ participant_hash' \in [Participants -> [Hosts -> {"PREPARED", "ABORTED", "COMMITTED", None}]]
           /\ participant_hash'[p][host[p]] = v
           /\ \A q \in Participants, h \in Hosts :
                 q # p \/ h # host[p] => participant_hash'[q][h] = participant_hash[q][h]
BY DEF ReplOK, PartsInv, PartsOK, SetEntry, Databases

\* ... and change one participant's entries.
LEMMA SetEntryOne ==
    ASSUME ReplOK, PartsInv, NEW p \in Participants,
           NEW v \in {"PREPARED", "ABORTED", "COMMITTED", None}, SetEntry(p, v)
    PROVE  /\ participant_hash' \in [Participants -> [Hosts -> {"PREPARED", "ABORTED", "COMMITTED", None}]]
           /\ participant_hash'[p][host[p]] = v
           /\ \A q \in Participants : q # p => participant_hash'[q][host[q]] = participant_hash[q][host[q]]
<1>1. \A q \in Participants : host[q] \in Hosts BY DEF ReplOK, Databases
<1> QED BY <1>1, SetEntryType

\* The entry that is looked up is one of participant_hash's values.
LEMMA EntryType ==
    ASSUME ReplOK, PartsInv, NEW p \in Participants
    PROVE  host[p] \in Hosts /\ Entry(p) \in {"PREPARED", "ABORTED", "COMMITTED", None}
BY DEF ReplOK, PartsInv, PartsOK, Entry, Databases

\* A PREPARE call keeps the participants' part.
LEMMA OsqlPrepareType ==
    ASSUME ReplOK, PartsInv, NEW p \in Participants, osql_prepare(p) \/ UNCHANGED parts, UNCHANGED host
    PROVE  PartsInv'
<1>1. CASE osql_prepare(p)
  <2>1. /\ ppc'[p] = IF ppc[p] = "session" THEN "running" ELSE ppc[p]
        /\ \A q \in Participants : q # p => ppc'[q] = ppc[q]
        /\ ppc' \in [Participants -> ParticipantPcs]
    BY <1>1 DEF osql_prepare, PartsInv, PartsOK, ParticipantPcs
  <2>2. /\ coordMaster' \in [Participants -> Hosts \cup {None}]
        /\ coordMaster'[p] \in Hosts
        /\ \A q \in Participants : q # p => coordMaster'[q] = coordMaster[q]
    BY <1>1 DEF osql_prepare, PartsInv, PartsOK, ReplOK, Databases
  <2>3. UNCHANGED participant_hash BY <1>1 DEF osql_prepare
  <2> QED BY <2>1, <2>2, <2>3 DEF PartsInv, PartsOK, Entry
<1>2. CASE UNCHANGED parts BY <1>2, PartsFrame
<1> QED BY <1>1, <1>2

\* participant_has_failed drops the entry and sends one message.
LEMMA FailedType ==
    ASSUME ReplOK, PartsInv, NEW p \in Participants, NEW rc \in {"retry", "fatal"},
           msgs \subseteq Message, participant_has_failed(p, rc), coordMaster[p] \in Hosts
    PROVE  /\ participant_hash' \in [Participants -> [Hosts -> {"PREPARED", "ABORTED", "COMMITTED", None}]]
           /\ msgs' \subseteq Message
           /\ \A q \in Participants, h \in Hosts : q # p => participant_hash'[q][h] = participant_hash[q][h]
<1>1. SetEntry(p, None) BY DEF participant_has_failed
<1>2. msgs' = msgs \cup {FailedMsg(p, rc)} BY DEF participant_has_failed
<1> QED BY <1>1, <1>2, SetEntryType, FailedMsgType

-----------------------------------------------------------------------------
\* The coordinator's steps.
LEMMA TypeCoordinator ==
    ASSUME ReplOK, CoordInv, PartsInv, msgs \subseteq Message, CoordinatorStep \/ disttxn_timeout
    PROVE  ReplOK' /\ CoordInv' /\ PartsInv' /\ msgs' \subseteq Message
<1> DEFINE G == ReplOK' /\ CoordInv' /\ PartsInv' /\ msgs' \subseteq Message
<1> USE RecordNames DEF Databases, repl
<1>1. ASSUME collect_participants PROVE G
  <2>1. Logs BY <1>1 DEF collect_participants, Logs
  <2>2. ReplOK' /\ UNCHANGED host BY <2>1, LogsType
  <2>3. PartsInv' BY <1>1, <2>2, PartsFrame DEF collect_participants
  <2>5. CoordInv' BY <1>1 DEF collect_participants, CoordInv, CoordOK, Phases, CoordinatorPcs, TxnStates, PartStatuses
  <2>7. msgs' \subseteq Message BY <1>1 DEF collect_participants
  <2> QED BY <2>2, <2>3, <2>5, <2>7
<1>2. ASSUME dispatch_participants PROVE G
  <2>1. Logs BY <1>2 DEF dispatch_participants, Logs
  <2>2. ReplOK' /\ UNCHANGED host BY <2>1, LogsType
  <2>3. PartsInv' BY <1>2, <2>2, PartsFrame DEF dispatch_participants
  <2>5. CoordInv' BY <1>2 DEF dispatch_participants, CoordInv, CoordOK, Phases, CoordinatorPcs, TxnStates, PartStatuses
  <2>7. msgs' \subseteq Message BY <1>2 DEF dispatch_participants
  <2> QED BY <2>2, <2>3, <2>5, <2>7
<1>3. ASSUME prepare_participants_done PROVE G
  <2>1. Logs BY <1>3 DEF prepare_participants_done, Logs
  <2>2. ReplOK' /\ UNCHANGED host BY <2>1, LogsType
  <2>3. PartsInv' BY <1>3, <2>2, PartsFrame DEF prepare_participants_done
  <2>5. CoordInv' BY <1>3 DEF prepare_participants_done, CoordInv, CoordOK, Phases, CoordinatorPcs, TxnStates, PartStatuses
  <2>7. msgs' \subseteq Message BY <1>3 DEF prepare_participants_done
  <2> QED BY <2>2, <2>3, <2>5, <2>7
<1>4. ASSUME coordinator_toblock PROVE G
  <2>1. Logs BY <1>4 DEF coordinator_toblock, Logs
  <2>2. ReplOK' /\ UNCHANGED host BY <2>1, LogsType
  <2>3. PartsInv' BY <1>4, <2>2, PartsFrame DEF coordinator_toblock
  <2>5. CoordInv'
    <3>1. UNCHANGED <<status, partMaster>> BY <1>4 DEF coordinator_toblock
    <3>2. /\ cpc' \in {"logged", "cleanup", "fprepared"} /\ state' \in {state, "ABORT_RESOLVED"}
          /\ local' \in {local, "FAILED"} /\ UNCHANGED <<failrc, rcode, timer>>
      BY <1>4 DEF coordinator_toblock, coordinator_failed
    <3>3. CoordOK' BY <3>1, <3>2 DEF CoordInv, CoordOK, CoordinatorPcs, TxnStates
    <3>4. Phases' BY <1>4, <3>1 DEF coordinator_toblock, coordinator_failed, CoordInv, Phases
    <3> QED BY <3>1, <3>3, <3>4 DEF CoordInv
  <2>6. AbortMsgs(status, FALSE) \subseteq Message BY AbortMsgsType DEF CoordInv
  <2>7. msgs' \subseteq Message BY <1>4, <2>6 DEF coordinator_toblock, coordinator_failed
  <2> QED BY <2>2, <2>3, <2>5, <2>7
<1>5. ASSUME coordinator_prepare PROVE G
  <2>1. Logs BY <1>5 DEF coordinator_prepare, Logs
  <2>2. ReplOK' /\ UNCHANGED host BY <2>1, LogsType
  <2>3. PartsInv' BY <1>5, <2>2, PartsFrame DEF coordinator_prepare
  <2>5. CoordInv'
    <3>1. UNCHANGED <<status, partMaster>> BY <1>5 DEF coordinator_prepare
    <3>2. /\ cpc' \in {"prepared", "cleanup"} /\ state' \in {state, "ABORT_RESOLVED"}
          /\ local' \in {local, "FAILED"} /\ UNCHANGED <<failrc, rcode, timer>>
      BY <1>5 DEF coordinator_prepare, coordinator_failed
    <3>3. CoordOK' BY <3>1, <3>2 DEF CoordInv, CoordOK, CoordinatorPcs, TxnStates
    <3>4. Phases' BY <1>5, <3>1 DEF coordinator_prepare, coordinator_failed, CoordInv, Phases
    <3> QED BY <3>1, <3>3, <3>4 DEF CoordInv
  <2>6. AbortMsgs(status, FALSE) \subseteq Message BY AbortMsgsType DEF CoordInv
  <2>7. msgs' \subseteq Message BY <1>5, <2>6 DEF coordinator_prepare, coordinator_failed
  <2> QED BY <2>2, <2>3, <2>5, <2>7
<1>6. ASSUME coordinator_wait PROVE G
  <2>1. Logs BY <1>6 DEF coordinator_wait, Logs
  <2>2. ReplOK' /\ UNCHANGED host BY <2>1, LogsType
  <2>3. PartsInv' BY <1>6, <2>2, PartsFrame DEF coordinator_wait
  <2>5. CoordInv' BY <1>6 DEF coordinator_wait, disttxn_check_commitable_lk, CoordInv, CoordOK, Phases, CoordinatorPcs, TxnStates, PartStatuses
  <2>7. msgs' \subseteq Message BY <1>6 DEF coordinator_wait
  <2> QED BY <2>2, <2>3, <2>5, <2>7
<1>7. ASSUME coordinator_wait_end PROVE G
  <2>1. Logs BY <1>7 DEF coordinator_wait_end, Logs
  <2>2. ReplOK' /\ UNCHANGED host BY <2>1, LogsType
  <2>3. PartsInv' BY <1>7, <2>2, PartsFrame DEF coordinator_wait_end
  <2>5. CoordInv' BY <1>7 DEF coordinator_wait_end, CoordInv, CoordOK, Phases, CoordinatorPcs, TxnStates, PartStatuses
  <2>6. AbortMsgs(status, FALSE) \subseteq Message BY AbortMsgsType DEF CoordInv
  <2>7. msgs' \subseteq Message BY <1>7, <2>6 DEF coordinator_wait_end
  <2> QED BY <2>2, <2>3, <2>5, <2>7
<1>8. ASSUME commit_distributed_transaction PROVE G
  <2>1. Logs BY <1>8 DEF commit_distributed_transaction, Logs
  <2>2. ReplOK' /\ UNCHANGED host BY <2>1, LogsType
  <2>3. PartsInv' BY <1>8, <2>2, PartsFrame DEF commit_distributed_transaction
  <2>5. CoordInv' BY <1>8 DEF commit_distributed_transaction, CoordInv, CoordOK, Phases, CoordinatorPcs, TxnStates, PartStatuses
  <2>6. AbortMsgs(status, FALSE) \subseteq Message BY AbortMsgsType DEF CoordInv
  <2>7. msgs' \subseteq Message BY <1>8, <2>6 DEF commit_distributed_transaction
  <2> QED BY <2>2, <2>3, <2>5, <2>7
<1>9. ASSUME commit_participants PROVE G
  <2>1. Logs BY <1>9 DEF commit_participants, Logs
  <2>2. ReplOK' /\ UNCHANGED host BY <2>1, LogsType
  <2>3. PartsInv' BY <1>9, <2>2, PartsFrame DEF commit_participants
  <2>5. CoordInv' BY <1>9 DEF commit_participants, CoordInv, CoordOK, Phases, CoordinatorPcs, TxnStates, PartStatuses
  <2>6. state' = "COMMITTED" => \A p \in Participants : partMaster[p] \in Hosts
    BY <1>9 DEF commit_participants, CoordInv, Phases
  <2>7. msgs' \subseteq Message
    BY <1>9, <2>6, MessageTypes DEF commit_participants
  <2> QED BY <2>2, <2>3, <2>5, <2>7
<1>10. ASSUME coordinator_commit PROVE G
  <2>1. Logs BY <1>10 DEF coordinator_commit, Logs
  <2>2. ReplOK' /\ UNCHANGED host BY <2>1, LogsType
  <2>3. PartsInv' BY <1>10, <2>2, PartsFrame DEF coordinator_commit
  <2>5. CoordInv' BY <1>10 DEF coordinator_commit, CoordInv, CoordOK, Phases, CoordinatorPcs, TxnStates, PartStatuses
  <2>7. msgs' \subseteq Message BY <1>10 DEF coordinator_commit
  <2> QED BY <2>2, <2>3, <2>5, <2>7
<1>11. ASSUME coordinator_wait_propagate PROVE G
  <2>1. Logs BY <1>11 DEF coordinator_wait_propagate, Logs
  <2>2. ReplOK' /\ UNCHANGED host BY <2>1, LogsType
  <2>3. PartsInv' BY <1>11, <2>2, PartsFrame DEF coordinator_wait_propagate
  <2>5. CoordInv' BY <1>11 DEF coordinator_wait_propagate, CoordInv, CoordOK, Phases, CoordinatorPcs, TxnStates, PartStatuses
  <2>7. msgs' \subseteq Message BY <1>11 DEF coordinator_wait_propagate
  <2> QED BY <2>2, <2>3, <2>5, <2>7
<1>12. ASSUME cleanup_dtran PROVE G
  <2>1. Logs BY <1>12 DEF cleanup_dtran, Logs
  <2>2. ReplOK' /\ UNCHANGED host BY <2>1, LogsType
  <2>3. PartsInv' BY <1>12, <2>2, PartsFrame DEF cleanup_dtran
  <2>5. CoordInv' BY <1>12 DEF cleanup_dtran, is_aborted, CoordInv, CoordOK, Phases, CoordinatorPcs, TxnStates, PartStatuses
  <2>7. msgs' \subseteq Message BY <1>12 DEF cleanup_dtran
  <2> QED BY <2>2, <2>3, <2>5, <2>7
<1>13. ASSUME coordinator_abort PROVE G
  <2>1. Logs BY <1>13 DEF coordinator_abort, Logs
  <2>2. ReplOK' /\ UNCHANGED host BY <2>1, LogsType
  <2>3. PartsInv' BY <1>13, <2>2, PartsFrame DEF coordinator_abort
  <2>5. CoordInv' BY <1>13 DEF coordinator_abort, CoordInv, CoordOK, Phases, CoordinatorPcs, TxnStates, PartStatuses
  <2>7. msgs' \subseteq Message BY <1>13 DEF coordinator_abort
  <2> QED BY <2>2, <2>3, <2>5, <2>7
<1>14. ASSUME recover_prepared_coordinator PROVE G
  <2>1. Logs BY <1>14 DEF recover_prepared_coordinator, Logs
  <2>2. ReplOK' /\ UNCHANGED host BY <2>1, LogsType
  <2>3. PartsInv' BY <1>14, <2>2, PartsFrame DEF recover_prepared_coordinator
  <2>5. CoordInv' BY <1>14 DEF recover_prepared_coordinator, CoordInv, CoordOK, Phases, CoordinatorPcs, TxnStates, PartStatuses
  <2>7. msgs' \subseteq Message BY <1>14 DEF recover_prepared_coordinator
  <2> QED BY <2>2, <2>3, <2>5, <2>7
<1>15. ASSUME NEW p \in Participants, send_prepare_message(p) PROVE G
  <2>1. Logs BY <1>15 DEF send_prepare_message, Logs
  <2>2. ReplOK' /\ UNCHANGED host BY <2>1, LogsType
  <2>3. PartsInv' BY <1>15, <2>2, OsqlPrepareType DEF send_prepare_message
  <2>4. host[p] \in Hosts BY DEF ReplOK
  <2>5. CoordInv' BY <1>15, <2>4 DEF send_prepare_message, CoordInv, CoordOK, Phases, CoordinatorPcs, TxnStates, PartStatuses
  <2>7. msgs' \subseteq Message BY <1>15 DEF send_prepare_message
  <2> QED BY <2>2, <2>3, <2>5, <2>7
<1>16. ASSUME NEW p \in Participants, prepare_participants_fail(p) PROVE G
  <2>1. Logs BY <1>16 DEF prepare_participants_fail, Logs
  <2>2. ReplOK' /\ UNCHANGED host BY <2>1, LogsType
  <2>3. PartsInv' BY <1>16, <2>2, OsqlPrepareType DEF prepare_participants_fail
  <2>4. host[p] \in Hosts BY DEF ReplOK
  <2>5. CoordInv' BY <1>16, <2>4 DEF prepare_participants_fail, CoordInv, CoordOK, Phases, CoordinatorPcs, TxnStates, PartStatuses
  <2>6. AbortMsgs(status, FALSE) \subseteq Message BY AbortMsgsType DEF CoordInv
  <2>7. msgs' \subseteq Message BY <1>16, <2>6 DEF prepare_participants_fail
  <2> QED BY <2>2, <2>3, <2>5, <2>7
<1>17. ASSUME NEW p \in Participants, check_participant_propagate_timeout_lk(p) PROVE G
  <2>1. Logs BY <1>17 DEF check_participant_propagate_timeout_lk, Logs
  <2>2. ReplOK' /\ UNCHANGED host BY <2>1, LogsType
  <2>3. PartsInv' BY <1>17, <2>2, PartsFrame DEF check_participant_propagate_timeout_lk
  <2>5. CoordInv' BY <1>17 DEF check_participant_propagate_timeout_lk, CoordInv, CoordOK, Phases, CoordinatorPcs, TxnStates, PartStatuses
  <2>7. msgs' \subseteq Message BY <1>17 DEF check_participant_propagate_timeout_lk
  <2> QED BY <2>2, <2>3, <2>5, <2>7
<1>18. ASSUME disttxn_timeout PROVE G
  <2>1. Logs BY <1>18 DEF disttxn_timeout, Logs
  <2>2. ReplOK' /\ UNCHANGED host BY <2>1, LogsType
  <2>3. PartsInv' BY <1>18, <2>2, PartsFrame DEF disttxn_timeout
  <2>5. CoordInv'
    <3>1. UNCHANGED <<status, partMaster>> BY <1>18 DEF disttxn_timeout
    <3>2. /\ state' \in {state, "ABORTED"} /\ failrc' \in {failrc, "fatal"}
          /\ timer' \in {"idle", "sending"} /\ UNCHANGED <<cpc, local, rcode>>
      BY <1>18 DEF disttxn_timeout, CoordInv, CoordOK
    <3>3. CoordOK' BY <3>1, <3>2 DEF CoordInv, CoordOK, CoordinatorPcs, TxnStates
    <3>4. Phases' BY <1>18, <3>1 DEF disttxn_timeout, CoordInv, Phases
    <3> QED BY <3>1, <3>3, <3>4 DEF CoordInv
  <2>6. AbortMsgs(status, FALSE) \subseteq Message BY AbortMsgsType DEF CoordInv
  <2>7. msgs' \subseteq Message BY <1>18, <2>6 DEF disttxn_timeout
  <2> QED BY <2>2, <2>3, <2>5, <2>7
<1> QED BY <1>1, <1>2, <1>3, <1>4, <1>5, <1>6, <1>7, <1>8, <1>9, <1>10, <1>11, <1>12, <1>13, <1>14, <1>15, <1>16, <1>17, <1>18 DEF CoordinatorStep

\* A participant's steps.
LEMMA TypeParticipant ==
    ASSUME ReplOK, CoordInv, PartsInv, msgs \subseteq Message, NEW p \in Participants, ParticipantStep(p)
    PROVE  ReplOK' /\ CoordInv' /\ PartsInv' /\ msgs' \subseteq Message
<1> DEFINE G == ReplOK' /\ CoordInv' /\ PartsInv' /\ msgs' \subseteq Message
<1> USE RecordNames DEF Databases, repl
<1>1. host[p] \in Hosts /\ participant_hash \in [Participants -> [Hosts -> {"PREPARED", "ABORTED", "COMMITTED", None}]]
  BY DEF ReplOK, PartsInv, PartsOK
<1>2. ppc[p] \notin {"session", "discard", "recovered", "done"} => coordMaster[p] \in Hosts
  BY DEF PartsInv
<1>3. \A q \in Participants : host[q] \in Hosts BY DEF ReplOK
<1>4. ASSUME participant_toblock(p) PROVE G
  <2>1. Logs BY <1>4 DEF participant_toblock, Logs
  <2>2. ReplOK' /\ UNCHANGED host BY <2>1, LogsType
  <2>3. CoordInv' BY <1>4, CoordFrame DEF participant_toblock
  <2>4. PartsInv'
    <3>1. CASE UNCHANGED participant_hash /\ ppc' = [ppc EXCEPT ![p] = "logged"]
      BY <1>1, <1>2, <1>4, <2>2, <3>1, PartsOne DEF participant_toblock, ParticipantPcs
    <3>2. ASSUME NEW rc \in {"retry", "fatal"}, participant_has_failed(p, rc), ppc' = [ppc EXCEPT ![p] = "done"]
          PROVE  PartsInv'
      <4>1. UNCHANGED coordMaster /\ coordMaster[p] \in Hosts BY <1>2, <1>4 DEF participant_toblock
      <4> QED BY <1>3, <2>2, <3>2, <4>1, FailedType, PartsOne DEF ParticipantPcs
    <3> QED BY <1>4, <3>1, <3>2 DEF participant_toblock
  <2>5. msgs' \subseteq Message BY <1>2, <1>4, FailedType DEF participant_toblock
  <2> QED BY <2>2, <2>3, <2>4, <2>5
<1>5. ASSUME participant_prepare(p) PROVE G
  <2>1. Logs BY <1>5 DEF participant_prepare, Logs
  <2>2. ReplOK' /\ UNCHANGED host BY <2>1, LogsType
  <2>3. CoordInv' BY <1>5, CoordFrame DEF participant_prepare
  <2>4. PartsInv'
    <3>0. UNCHANGED coordMaster /\ coordMaster[p] \in Hosts BY <1>2, <1>5 DEF participant_prepare
    <3>1. CASE UNCHANGED participant_hash /\ ppc' = [ppc EXCEPT ![p] = "prepared"]
      BY <1>1, <2>2, <3>0, <3>1, PartsOne DEF ParticipantPcs
    <3>2. CASE participant_has_failed(p, "fatal") /\ ppc' = [ppc EXCEPT ![p] = "abort"]
      BY <1>3, <2>2, <3>0, <3>2, FailedType, PartsOne DEF ParticipantPcs
    <3> QED BY <1>5, <3>1, <3>2 DEF participant_prepare
  <2>5. msgs' \subseteq Message BY <1>2, <1>5, FailedType DEF participant_prepare
  <2> QED BY <2>2, <2>3, <2>4, <2>5
<1>6. ASSUME send_coordinator_prepared(p) PROVE G
  <2>1. Logs BY <1>6 DEF send_coordinator_prepared, Logs
  <2>2. ReplOK' /\ UNCHANGED host BY <2>1, LogsType
  <2>3. CoordInv' BY <1>6, CoordFrame DEF send_coordinator_prepared
  <2>4. PartsInv'
    BY <1>6, <1>1, <1>2, <2>2, PartsOne DEF send_coordinator_prepared, ParticipantPcs
  <2>5. msgs' \subseteq Message BY <1>6, <1>1, <1>2, MessageTypes DEF send_coordinator_prepared
  <2> QED BY <2>2, <2>3, <2>4, <2>5
<1>7. ASSUME participant_wait(p) PROVE G
  <2>1. Logs BY <1>7 DEF participant_wait, Logs
  <2>2. ReplOK' /\ UNCHANGED host BY <2>1, LogsType
  <2>3. CoordInv' BY <1>7, CoordFrame DEF participant_wait
  <2>4. PartsInv'
    <3>1. PICK v \in {"PREPARED", "ABORTED", "COMMITTED"} : SetEntry(p, v)
      BY <1>7, EntryType DEF participant_wait
    <3>2. None \notin {"PREPARED", "ABORTED", "COMMITTED"} BY ConstantsAssumption
    <3>3. UNCHANGED coordMaster /\ coordMaster[p] \in Hosts /\ ppc' = [ppc EXCEPT ![p] = "wait"]
      BY <1>2, <1>7 DEF participant_wait
    <3>4. /\ participant_hash' \in [Participants -> [Hosts -> {"PREPARED", "ABORTED", "COMMITTED", None}]]
          /\ participant_hash'[p][host'[p]] = v
          /\ \A q \in Participants : q # p => participant_hash'[q][host[q]] = participant_hash[q][host[q]]
      BY <2>2, <3>1, SetEntryOne
    <3> QED BY <2>2, <3>2, <3>3, <3>4, PartsOne DEF ParticipantPcs
  <2>5. msgs' \subseteq Message BY <1>7 DEF participant_wait
  <2> QED BY <2>2, <2>3, <2>4, <2>5
<1>8. ASSUME send_coordinator_prepared_find_master(p) PROVE G
  <2>1. Logs BY <1>8 DEF send_coordinator_prepared_find_master, Logs
  <2>2. ReplOK' /\ UNCHANGED host BY <2>1, LogsType
  <2>3. CoordInv' BY <1>8, CoordFrame DEF send_coordinator_prepared_find_master
  <2>4. PartsInv' BY <1>8, <2>2, PartsFrame DEF send_coordinator_prepared_find_master
  <2>5. msgs' \subseteq Message
    <3>1. host[Coordinator] \in Hosts BY DEF ReplOK
    <3> QED BY <1>8, <1>1, <3>1, MessageTypes DEF send_coordinator_prepared_find_master
  <2> QED BY <2>2, <2>3, <2>4, <2>5
<1>9. ASSUME participant_wait_end(p) PROVE G
  <2>1. Logs BY <1>9 DEF participant_wait_end, Logs
  <2>2. ReplOK' /\ UNCHANGED host BY <2>1, LogsType
  <2>3. CoordInv' BY <1>9, CoordFrame DEF participant_wait_end
  <2>4. PartsInv'
    <3>1. Entry(p) \in {"PREPARED", "ABORTED", "COMMITTED"}
      BY <1>9, EntryType DEF participant_wait_end, PartsInv
    <3>2. PICK pc \in {"commit", "abort", "discard"} : ppc' = [ppc EXCEPT ![p] = pc]
      BY <1>9, <3>1 DEF participant_wait_end
    <3>3. UNCHANGED coordMaster /\ coordMaster[p] \in Hosts
      BY <1>2, <1>9 DEF participant_wait_end
    <3>5. SetEntry(p, None) BY <1>9 DEF participant_wait_end
    <3>4. /\ participant_hash' \in [Participants -> [Hosts -> {"PREPARED", "ABORTED", "COMMITTED", None}]]
          /\ \A q \in Participants : q # p => participant_hash'[q][host[q]] = participant_hash[q][host[q]]
      BY <3>5, SetEntryOne
    <3> QED BY <2>2, <3>2, <3>3, <3>4, PartsOne DEF ParticipantPcs
  <2>5. msgs' \subseteq Message BY <1>9 DEF participant_wait_end
  <2> QED BY <2>2, <2>3, <2>4, <2>5
<1>10. ASSUME participant_commit(p) PROVE G
  <2>1. Logs BY <1>10 DEF participant_commit, Logs
  <2>2. ReplOK' /\ UNCHANGED host BY <2>1, LogsType
  <2>3. CoordInv' BY <1>10, CoordFrame DEF participant_commit
  <2>4. PartsInv'
    BY <1>10, <1>1, <1>2, <2>2, PartsOne DEF participant_commit, ParticipantPcs
  <2>5. msgs' \subseteq Message BY <1>10 DEF participant_commit
  <2> QED BY <2>2, <2>3, <2>4, <2>5
<1>11. ASSUME participant_has_propagated(p) PROVE G
  <2>1. Logs BY <1>11 DEF participant_has_propagated, Logs
  <2>2. ReplOK' /\ UNCHANGED host BY <2>1, LogsType
  <2>3. CoordInv' BY <1>11, CoordFrame DEF participant_has_propagated
  <2>4. PartsInv'
    BY <1>11, <1>1, <1>2, <2>2, PartsOne DEF participant_has_propagated, ParticipantPcs
  <2>5. msgs' \subseteq Message BY <1>11, <1>1, <1>2, MessageTypes DEF participant_has_propagated
  <2> QED BY <2>2, <2>3, <2>4, <2>5
<1>12. ASSUME participant_abort(p) PROVE G
  <2>1. Logs BY <1>12 DEF participant_abort, Logs
  <2>2. ReplOK' /\ UNCHANGED host BY <2>1, LogsType
  <2>3. CoordInv' BY <1>12, CoordFrame DEF participant_abort
  <2>4. PartsInv'
    BY <1>12, <1>1, <1>2, <2>2, PartsOne DEF participant_abort, ParticipantPcs
  <2>5. msgs' \subseteq Message BY <1>12 DEF participant_abort
  <2> QED BY <2>2, <2>3, <2>4, <2>5
<1> QED BY <1>4, <1>5, <1>6, <1>7, <1>8, <1>9, <1>10, <1>11, <1>12 DEF ParticipantStep

\* A message is handled.
LEMMA TypeReceive ==
    ASSUME ReplOK, CoordInv, PartsInv, msgs \subseteq Message, NEW p \in Participants, Receive(p)
    PROVE  ReplOK' /\ CoordInv' /\ PartsInv' /\ msgs' \subseteq Message
<1> DEFINE G == ReplOK' /\ CoordInv' /\ PartsInv' /\ msgs' \subseteq Message
<1> USE RecordNames DEF Databases, repl
<1>1. ASSUME NEW m \in msgs, participant_prepared(p, m) PROVE G
  <2>1. Logs BY <1>1 DEF participant_prepared, Logs
  <2>2. ReplOK' /\ UNCHANGED host BY <2>1, LogsType
  <2>3. PartsInv' BY <1>1, <2>2, PartsFrame DEF participant_prepared
  <2>4. CoordInv'
    <3>1. /\ \/ status' = [status EXCEPT ![p] = IF @ = "PREPARING" THEN "PREPARED" ELSE @]
             \/ state # "PREPARED" /\ status' = [status EXCEPT ![p] = IF @ = "PREPARING" THEN "FAILED" ELSE @]
             \/ UNCHANGED status
          /\ UNCHANGED <<cpc, partMaster, local, failrc, rcode, timer>>
      BY <1>1 DEF participant_prepared, is_aborted
    <3>2. /\ status' \in [Participants -> PartStatuses]
          /\ \A q \in Participants : status'[q] # status[q] => status[q] = "PREPARING" /\ state # "PREPARED"
      BY <1>1, <3>1 DEF CoordInv, CoordOK, Phases, PartStatuses
    <3>3. \/ UNCHANGED state
          \/ /\ state = "PREPARING" /\ state' = "PREPARED" /\ local = "PREPARED"
             /\ \A q \in Participants : status'[q] = "PREPARED"
      BY <1>1 DEF participant_prepared, disttxn_check_commitable_lk
    <3>4. CoordOK' BY <3>1, <3>2, <3>3 DEF CoordInv, CoordOK, TxnStates
    <3>5. Phases' BY <3>1, <3>2, <3>3 DEF CoordInv, Phases
    <3> QED BY <3>1, <3>2, <3>4, <3>5 DEF CoordInv
  <2>5. msgs' \subseteq Message
    <3>1. AbortMsg(p, m.from) \in Message /\ CommitMsg(p, m.from) \in Message
      BY <1>1, MessageFields, MessageTypes DEF participant_prepared
    <3> QED BY <1>1, <3>1 DEF participant_prepared
  <2> QED BY <2>2, <2>3, <2>4, <2>5
<1>2. ASSUME NEW m \in msgs, participant_failed(p, m) PROVE G
  <2>1. Logs BY <1>2 DEF participant_failed, Logs
  <2>2. ReplOK' /\ UNCHANGED host BY <2>1, LogsType
  <2>3. PartsInv' BY <1>2, <2>2, PartsFrame DEF participant_failed
  <2>4. m.rc \in {"retry", "fatal"} BY <1>2, MessageFields DEF participant_failed
  <2>5. /\ status' \in [Participants -> PartStatuses]
        /\ \A q \in Participants : status'[q] # status[q] => status[q] = "PREPARING"
    BY <1>2 DEF participant_failed, CoordInv, CoordOK, PartStatuses
  <2>6. UNCHANGED <<cpc, partMaster, local, rcode, timer>> BY <1>2 DEF participant_failed
  <2>7. CoordInv'
    <3>1. state' \in {state, "ABORTED"} /\ failrc' \in {failrc, "retry", "fatal"}
      BY <1>2, <2>4 DEF participant_failed
    <3>2. CoordOK' BY <2>5, <2>6, <3>1 DEF CoordInv, CoordOK, TxnStates
    <3>3. state' = state \/ state = "PREPARING" BY <1>2 DEF participant_failed
    <3>4. Phases' BY <2>5, <2>6, <3>1, <3>3 DEF CoordInv, Phases
    <3> QED BY <2>5, <2>6, <3>2, <3>4 DEF CoordInv
  <2>8. msgs' \subseteq Message
    <3>1. \A q \in Participants : status'[q] \in {"PREPARED", "PREPARING"} => partMaster[q] \in Hosts
      BY <2>5 DEF CoordInv
    <3>2. AbortMsgs(status', m.rc = "retry") \subseteq Message BY <3>1, AbortMsgsType
    <3> QED BY <1>2, <3>2 DEF participant_failed
  <2> QED BY <2>2, <2>3, <2>7, <2>8
<1>3. ASSUME NEW m \in msgs, participant_propagated(p, m) PROVE G
  <2>1. Logs BY <1>3 DEF participant_propagated, Logs
  <2>2. ReplOK' /\ UNCHANGED host BY <2>1, LogsType
  <2>3. PartsInv' BY <1>3, <2>2, PartsFrame DEF participant_propagated
  <2>4. CoordInv'
    <3>1. /\ status' \in [Participants -> PartStatuses]
          /\ \A q \in Participants :
                 status'[q] # status[q] => status[q] = "PREPARED" /\ status'[q] = "PROPAGATED"
      BY <1>3 DEF participant_propagated, CoordInv, CoordOK, PartStatuses
    <3>2. UNCHANGED <<cpc, state, partMaster, local, failrc, rcode, timer>> BY <1>3 DEF participant_propagated
    <3> QED BY <3>1, <3>2 DEF CoordInv, CoordOK, Phases
  <2>5. msgs' \subseteq Message BY <1>3 DEF participant_propagated
  <2> QED BY <2>2, <2>3, <2>4, <2>5
<1>4. ASSUME NEW m \in msgs, coordinator_committed(p, m) \/ coordinator_aborted(p, m) PROVE G
  <2>1. UNCHANGED <<coord, coordMaster, msgs>> BY <1>4 DEF coordinator_committed, coordinator_aborted
  <2>2. CoordInv' /\ msgs' \subseteq Message BY <2>1, CoordFrame
  <2>3. \/ /\ \E r \in DOMAIN Records : LogRecord(p, r)
           /\ ppc' = [ppc EXCEPT ![p] = "done"] /\ UNCHANGED participant_hash
        \/ /\ \E v \in {"ABORTED", "COMMITTED"} : SetEntry(p, v)
           /\ UNCHANGED <<repl, ppc>>
    BY <1>4 DEF coordinator_committed, coordinator_aborted
  <2>4. Logs BY <2>3 DEF Logs
  <2>5. ReplOK' /\ UNCHANGED host BY <2>4, LogsType
  <2>6. PartsInv'
    <3>1. CASE ppc' = [ppc EXCEPT ![p] = "done"] /\ UNCHANGED participant_hash
      <4>1. participant_hash' \in [Participants -> [Hosts -> {"PREPARED", "ABORTED", "COMMITTED", None}]]
        BY <3>1 DEF PartsInv, PartsOK
      <4> QED BY <2>1, <2>5, <3>1, <4>1, PartsOne DEF ParticipantPcs
    <3>2. ASSUME NEW v \in {"ABORTED", "COMMITTED"}, SetEntry(p, v), UNCHANGED ppc PROVE PartsInv'
      <4>1. /\ participant_hash' \in [Participants -> [Hosts -> {"PREPARED", "ABORTED", "COMMITTED", None}]]
            /\ participant_hash'[p][host[p]] = v
            /\ \A q \in Participants : q # p => participant_hash'[q][host[q]] = participant_hash[q][host[q]]
        BY <3>2, SetEntryOne
      <4>2. participant_hash'[p][host[p]] # None BY <4>1, ConstantsAssumption
      <4> QED BY <2>1, <2>5, <3>2, <4>1, <4>2 DEF PartsInv, PartsOK, Entry
    <3> QED BY <2>3, <3>1, <3>2
  <2> QED BY <2>2, <2>5, <2>6
<1> QED BY <1>1, <1>2, <1>3, <1>4 DEF Receive

\* A change of master keeps the types of the logs.
LEMMA NewMasterType ==
    ASSUME ReplOK, msgs \subseteq Message,
           NEW d \in Databases, NEW h \in Hosts, NEW c \in cand[d], NewMaster(d, h, c)
    PROVE  ReplOK' /\ msgs' \subseteq Message /\ \A e \in Databases : e # d => host'[e] = host[e]
<1>1. failovers' \in 0..MaxFailovers BY ConstantsAssumption DEF NewMaster, ReplOK
<1>2. c \in DOMAIN Records BY DEF ReplOK
<1>3. /\ log' \in [Databases -> DOMAIN Records] /\ durableGen' \in [Databases -> BOOLEAN]
      /\ host' \in [Databases -> Hosts] /\ lockDesired' \in [Databases -> BOOLEAN]
      /\ \A e \in Databases : e # d => host'[e] = host[e]
  BY <1>2 DEF NewMaster, ReplOK
<1> QED BY <1>1, <1>3 DEF NewMaster, ReplOK

\* Replication and changes of master.
LEMMA TypeEnvironment ==
    ASSUME ReplOK, CoordInv, PartsInv, msgs \subseteq Message,
           \/ \E d \in Databases : Replicate(d)
           \/ \E d \in Failing : LockDesired(d) \/ Failover(d)
    PROVE  ReplOK' /\ CoordInv' /\ PartsInv' /\ msgs' \subseteq Message
<1> DEFINE G == ReplOK' /\ CoordInv' /\ PartsInv' /\ msgs' \subseteq Message
<1> USE RecordNames, ConstantsAssumption DEF Databases
<1>1. ASSUME NEW d \in Databases, Replicate(d) \/ LockDesired(d) PROVE G
  <2>1. UNCHANGED <<coord, parts, msgs, host>> BY <1>1 DEF Replicate, LockDesired
  <2>2. ASSUME Replicate(d) PROVE ReplOK' BY <2>2 DEF Replicate, ReplOK
  <2>3. ASSUME LockDesired(d) PROVE ReplOK' BY <2>3 DEF LockDesired, ReplOK
  <2>4. ReplOK' BY <1>1, <2>2, <2>3
  <2> QED BY <2>1, <2>4, CoordFrame, PartsFrame
<1>3. ASSUME NEW h \in Hosts, NEW c \in cand[Coordinator], NewCoordinator(h, c) PROVE G
  <2>1. ReplOK' /\ msgs' \subseteq Message /\ \A p \in Participants : host'[p] = host[p]
    BY <1>3, NewMasterType DEF NewCoordinator
  <2>2. UNCHANGED parts BY <1>3 DEF NewCoordinator
  <2>3. PartsInv' BY <2>1, <2>2 DEF PartsInv, PartsOK, parts, Entry
  <2>4. CoordInv'
    <3>1. /\ cpc' \in {"recovered", "done"} /\ state' = "none" /\ local' = "PREPARING"
          /\ failrc' = "ok" /\ rcode' = None /\ timer' = "idle"
          /\ status' = [p \in Participants |-> "INIT"] /\ partMaster' = [p \in Participants |-> None]
      BY <1>3 DEF NewCoordinator
    <3> QED BY <3>1 DEF CoordInv, CoordOK, Phases, CoordinatorPcs, TxnStates, PartStatuses
  <2> QED BY <2>1, <2>3, <2>4
<1>4. ASSUME NEW p \in Participants, NEW h \in Hosts, NEW c \in cand[p], NewParticipantMaster(p, h, c) PROVE G
  <2>1. ReplOK' /\ msgs' \subseteq Message /\ \A q \in Participants : q # p => host'[q] = host[q]
    <3>1. NewMaster(p, h, c) BY <1>4 DEF NewParticipantMaster
    <3>2. p \in Databases OBVIOUS
    <3> QED BY <3>1, <3>2, NewMasterType
  <2>2. CoordInv' BY <1>4, CoordFrame DEF NewParticipantMaster
  <2>3. PICK pc \in {"recovered", "done"} : ppc' = [ppc EXCEPT ![p] = pc]
    BY <1>4 DEF NewParticipantMaster
  <2>4. UNCHANGED coordMaster BY <1>4 DEF NewParticipantMaster
  <2>6. UNCHANGED participant_hash \/ SetEntry(p, None) BY <1>4 DEF NewParticipantMaster
  <2>7. /\ participant_hash' \in [Participants -> [Hosts -> {"PREPARED", "ABORTED", "COMMITTED", None}]]
        /\ \A q \in Participants : q # p => participant_hash'[q][host[q]] = participant_hash[q][host[q]]
    <3>1. CASE UNCHANGED participant_hash BY <3>1 DEF PartsInv, PartsOK
    <3>2. CASE SetEntry(p, None) BY <3>2, SetEntryOne
    <3> QED BY <2>6, <3>1, <3>2
  <2>8. PartsInv' BY <2>1, <2>3, <2>4, <2>7, PartsOne DEF ParticipantPcs
  <2> QED BY <2>1, <2>2, <2>8
<1> QED BY <1>1, <1>3, <1>4 DEF Failover

\* Every step keeps them.
LEMMA TypeStep ==
    ASSUME TypeOK, Masters, Phases, [Next]_vars
    PROVE  TypeOK' /\ Masters' /\ Phases'
<1>1. ReplOK /\ CoordInv /\ PartsInv /\ msgs \subseteq Message BY TypeParts
<1>2. CASE UNCHANGED vars
  <2>1. UNCHANGED <<coord, parts, host, msgs>> /\ Logs BY <1>2 DEF vars, repl, Logs
  <2> QED BY <1>1, <2>1, LogsType, CoordFrame, PartsFrame, TypePartsPrime
<1>3. CASE Next
  BY <1>1, <1>3, TypeCoordinator, TypeParticipant, TypeReceive, TypeEnvironment, TypePartsPrime DEF Next
<1> QED BY <1>2, <1>3

\* Every state has the types of TypeOK; in particular abort_transaction_lk and
\* commit_participants_lk only address masters they know.
THEOREM TypeCorrect == Spec => []TypeOK
<1>1. TypeOK /\ Masters /\ Phases /\ [Next]_vars => (TypeOK /\ Masters /\ Phases)'
  BY TypeStep
<1> QED BY <1>1, TypeInit, PTL DEF Spec

-----------------------------------------------------------------------------
(* Decisions.                                                              *)

\* The logs that hold the commit row.
LEMMA RecordsWithDist ==
    \A c \in DOMAIN Records : "dist" \in Records[c] <=> HasDist(c)
BY RecordNames DEF Records, HasDist

\* The commit row is durable when every electable log has it.
LEMMA DurableDist ==
    ASSUME TypeOK PROVE IsDurable(Coordinator, "dist") <=> AllDist
BY RecordsWithDist DEF IsDurable, AllDist, TypeOK, Databases

\* What transaction_has_committed answers is true of the coordinator's log.
LEMMA HasCommitted ==
    ASSUME TypeOK
    PROVE  /\ transaction_has_committed = "HAS_COMMITTED" =>
                  durableGen[Coordinator] /\ HasDist(log[Coordinator])
           /\ transaction_has_committed = "HAS_ABORTED" =>
                  durableGen[Coordinator] /\ ~HasDist(log[Coordinator])
BY RecordsWithDist DEF transaction_has_committed, TypeOK, Databases

\* abort_transaction_lk sends nothing but ABORT.
LEMMA AbortMsgsAre ==
    ASSUME NEW st, NEW b PROVE \A m \in AbortMsgs(st, b) : m.type = "ABORT"
<1>1. \A p, to : AbortMsg(p, to).type = "ABORT" BY DEF AbortMsg
<1> QED BY <1>1 DEF AbortMsgs

\* Writing a record changes the log of one database.
LEMMA LogRecordEffect ==
    ASSUME TypeOK, NEW d \in Databases, NEW r, LogRecord(d, r)
    PROVE  /\ log'[d] = r /\ cand'[d] = cand[d] \cup {r}
           /\ \A e \in Databases : e # d => log'[e] = log[e] /\ cand'[e] = cand[e]
           /\ UNCHANGED <<durableGen, host, lockDesired, failovers>>
BY DEF TypeOK, LogRecord

\* Nothing is decided in the first state.
LEMMA DecidedInit == Init => CoordinatorAt /\ Decided
BY ConstantsAssumption DEF Init, CoordinatorAt, Decided, Databases, Sent, AllDist, NoDist, HasDist,
   is_aborted, is_committed, Undecided

\* What the safety properties need of a state in which Decided holds.
LEMMA DecidedImplies == TypeOK /\ Decided => OneDecision /\ DecisionIsDurable
BY DurableDist, RecordsWithDist DEF Decided, OneDecision, DecisionIsDurable, AllDist, NoDist, TypeOK, Databases

\* Steps that leave the coordinator database and its decision alone.
LeavesDecision ==
    /\ UNCHANGED <<cpc, state>>
    /\ log'[Coordinator] = log[Coordinator]
    /\ cand'[Coordinator] = cand[Coordinator]
    /\ durableGen'[Coordinator] = durableGen[Coordinator]
    /\ \A d \in Databases : log'[d] \in cand'[d]
    /\ \A m \in msgs' : m.type \in {"COMMIT", "ABORT"} => m \in msgs
    /\ \/ cpc \notin {"start", "dispatch"}
       \/ UNCHANGED <<msgs, cand>> /\ \A p \in Participants : ppc'[p] \in {"session", "done"}

\* Such a step keeps the invariant.
LEMMA DecidedFrame ==
    ASSUME TypeOK, CoordinatorAt, Decided, LeavesDecision
    PROVE  CoordinatorAt' /\ Decided'
BY DEF CoordinatorAt, Decided, LeavesDecision, Sent, AllDist, NoDist, is_aborted, is_committed,
   Databases, Undecided

\* A participant's record does not concern the coordinator database.
LEMMA LogsLeave ==
    ASSUME TypeOK, Decided, NEW p \in Participants, NEW r, UNCHANGED repl \/ LogRecord(p, r),
           UNCHANGED coord, cpc \notin {"start", "dispatch"},
           \A m \in msgs' : m.type \in {"COMMIT", "ABORT"} => m \in msgs
    PROVE  LeavesDecision
<1>1. CASE UNCHANGED repl BY <1>1 DEF repl, coord, LeavesDecision, Decided
<1>2. CASE LogRecord(p, r)
  <2>1. p \in Databases /\ Coordinator \in Databases /\ p # Coordinator
    BY ConstantsAssumption DEF Databases
  <2>2. /\ log'[p] = r /\ cand'[p] = cand[p] \cup {r}
        /\ \A e \in Databases : e # p => log'[e] = log[e] /\ cand'[e] = cand[e]
        /\ UNCHANGED <<durableGen, host, lockDesired, failovers>>
    BY <1>2, <2>1, LogRecordEffect
  <2>3. \A d \in Databases : log'[d] \in cand'[d]
    <3>1. r \in cand'[p] BY <2>2
    <3> QED BY <2>2, <3>1 DEF Decided
  <2> QED BY <2>1, <2>2, <2>3 DEF coord, LeavesDecision
<1> QED BY <1>1, <1>2

\* Every step keeps what has been decided.
LEMMA DecidedStep ==
    ASSUME TypeOK, Masters, Phases, CoordinatorAt, Decided, [Next]_vars
    PROVE  CoordinatorAt' /\ Decided'
<1> USE ConstantsAssumption DEF repl, coord, parts
<1> DEFINE G == CoordinatorAt' /\ Decided'
<1>1. ASSUME collect_participants PROVE G
  BY <1>1 DEF collect_participants, TypeOK, Databases, Phases, CoordinatorAt, Decided, Sent, AllDist, NoDist, HasDist, is_aborted, is_committed, Undecided
<1>2. ASSUME dispatch_participants PROVE G
  BY <1>2 DEF dispatch_participants, TypeOK, Databases, Phases, CoordinatorAt, Decided, Sent, AllDist, NoDist, HasDist, is_aborted, is_committed, Undecided
<1>3. ASSUME prepare_participants_done PROVE G
  BY <1>3 DEF prepare_participants_done, TypeOK, Databases, Phases, CoordinatorAt, Decided, Sent, AllDist, NoDist, HasDist, is_aborted, is_committed, Undecided
<1>4. ASSUME coordinator_toblock PROVE G
  <2>1. CASE LogRecord(Coordinator, "prep") /\ cpc' = "logged" /\ UNCHANGED <<msgs, state, local>>
    <3>1. /\ log'[Coordinator] = "prep" /\ cand'[Coordinator] = cand[Coordinator] \cup {"prep"}
          /\ \A e \in Databases : e # Coordinator => log'[e] = log[e] /\ cand'[e] = cand[e]
          /\ UNCHANGED durableGen
      BY <2>1, LogRecordEffect DEF Databases
    <3>2. cpc = "running" BY <1>4 DEF coordinator_toblock
    <3>3. CoordinatorAt' BY <2>1, <3>2 DEF CoordinatorAt, is_aborted, is_committed
    <3> QED BY <2>1, <3>1, <3>2, <3>3 DEF Phases, CoordinatorAt, Decided, Sent, AllDist, NoDist, HasDist, is_aborted, is_committed, Undecided, Databases
  <2>2. CASE coordinator_failed /\ UNCHANGED repl
    BY <1>4, <2>2, AbortMsgsAre DEF coordinator_toblock, coordinator_failed, Phases, CoordinatorAt, Decided, Sent, AllDist, NoDist, HasDist, is_aborted, is_committed, Undecided
  <2>3. CASE cpc' = "fprepared" /\ UNCHANGED <<repl, msgs, state, local>>
    BY <1>4, <2>3 DEF coordinator_toblock, Phases, CoordinatorAt, Decided, Sent, AllDist, NoDist, HasDist, is_aborted, is_committed, Undecided
  <2> QED BY <1>4, <2>1, <2>2, <2>3 DEF coordinator_toblock
<1>5. ASSUME coordinator_prepare PROVE G
  BY <1>5, AbortMsgsAre DEF coordinator_prepare, coordinator_failed, TypeOK, Databases, Phases, CoordinatorAt, Decided, Sent, AllDist, NoDist, HasDist, is_aborted, is_committed, Undecided
<1>6. ASSUME coordinator_wait PROVE G
  BY <1>6 DEF coordinator_wait, disttxn_check_commitable_lk, TypeOK, Databases, Phases, CoordinatorAt, Decided, Sent, AllDist, NoDist, HasDist, is_aborted, is_committed, Undecided
<1>7. ASSUME coordinator_wait_end PROVE G
  BY <1>7, AbortMsgsAre DEF coordinator_wait_end, TypeOK, Databases, Phases, CoordinatorAt, Decided, Sent, AllDist, NoDist, HasDist, is_aborted, is_committed, Undecided
<1>8. ASSUME commit_distributed_transaction PROVE G
  <2>1. CASE LogRecord(Coordinator, "dist") /\ cpc' = "written" /\ UNCHANGED <<msgs, state, rcode>>
    <3>1. /\ log'[Coordinator] = "dist" /\ cand'[Coordinator] = cand[Coordinator] \cup {"dist"}
          /\ \A e \in Databases : e # Coordinator => log'[e] = log[e] /\ cand'[e] = cand[e]
          /\ UNCHANGED durableGen
      BY <2>1, LogRecordEffect DEF Databases
    <3>2. cpc = "write" /\ state = "PREPARED" BY <1>8 DEF commit_distributed_transaction, Phases
    <3>3. CoordinatorAt' BY <2>1, <3>1, <3>2 DEF CoordinatorAt, is_aborted, is_committed
    <3>4. ~Sent("ABORT") /\ ~Sent("COMMIT")
      BY <3>2 DEF Decided, AllDist, NoDist, Undecided, Databases
    <3> QED BY <2>1, <3>1, <3>2, <3>3, <3>4 DEF Phases, CoordinatorAt, Decided, Sent, AllDist, NoDist, HasDist, is_aborted, is_committed, Undecided, Databases
  <2>2. CASE cpc' = "abort" /\ UNCHANGED repl
    BY <1>8, <2>2, AbortMsgsAre DEF commit_distributed_transaction, LogRecord, Phases, CoordinatorAt, Decided, Sent, AllDist, NoDist, HasDist, is_aborted, is_committed, Undecided
  <2> QED BY <1>8, <2>1, <2>2 DEF commit_distributed_transaction
<1>9. ASSUME commit_participants PROVE G
  <2>1. UNCHANGED <<log, cand, durableGen>> /\ cpc = "written" /\ state = "PREPARED" /\ cpc' # "cleanup"
    BY <1>9 DEF commit_participants, Phases
  <2>2. CASE AllDist /\ state' = "COMMITTED" /\ cpc' = "commit" /\ \A m \in msgs' : m \in msgs \/ m.type = "COMMIT"
    BY <2>1, <2>2 DEF CoordinatorAt, Decided, Sent, AllDist, NoDist, is_aborted, is_committed, Undecided
  <2>3. CASE state' = "LOCK_DESIRED" /\ cpc' = "discard" /\ UNCHANGED msgs
    BY <2>1, <2>3 DEF CoordinatorAt, Decided, Sent, AllDist, NoDist, is_aborted, is_committed, Undecided
  <2>4. \A p, to : CommitMsg(p, to).type = "COMMIT" BY DEF CommitMsg
  <2> QED BY <1>9, <2>2, <2>3, <2>4, DurableDist DEF commit_participants
<1>10. ASSUME coordinator_commit PROVE G
  BY <1>10 DEF coordinator_commit, LogRecord, TypeOK, Databases, Phases, CoordinatorAt, Decided, Sent, AllDist, NoDist, HasDist, is_aborted, is_committed, Undecided
<1>11. ASSUME coordinator_wait_propagate PROVE G
  BY <1>11 DEF coordinator_wait_propagate, TypeOK, Databases, Phases, CoordinatorAt, Decided, Sent, AllDist, NoDist, HasDist, is_aborted, is_committed, Undecided
<1>12. ASSUME cleanup_dtran PROVE G
  BY <1>12 DEF cleanup_dtran, TypeOK, Databases, Phases, CoordinatorAt, Decided, Sent, AllDist, NoDist, HasDist, is_aborted, is_committed, Undecided
<1>13. ASSUME coordinator_abort PROVE G
  <2>1. cpc = "abort" /\ cpc' = "done" /\ UNCHANGED <<state, msgs>> BY <1>13 DEF coordinator_abort
  <2>2. CASE LogRecord(Coordinator, "abort")
    <3>1. NoDist BY <2>1 DEF Decided
    <3>2. ~is_committed BY <2>1, <3>1 DEF Decided, AllDist, NoDist, Databases
    <3>3. /\ log'[Coordinator] = "abort" /\ cand'[Coordinator] = cand[Coordinator] \cup {"abort"}
          /\ \A e \in Databases : e # Coordinator => log'[e] = log[e] /\ cand'[e] = cand[e]
          /\ UNCHANGED durableGen
      BY <2>2, LogRecordEffect DEF Databases
    <3>4. \A d \in Databases : log'[d] \in cand'[d] BY <3>3 DEF Decided
    <3>5. NoDist' BY <3>1, <3>3 DEF NoDist, HasDist
    <3>6. CoordinatorAt' BY <2>1 DEF CoordinatorAt
    <3>7. ~Sent("COMMIT") BY <3>1 DEF Decided, AllDist, NoDist, Databases
    <3> QED BY <2>1, <3>2, <3>3, <3>4, <3>5, <3>6, <3>7 DEF Decided, Sent, HasDist, is_aborted, is_committed, Undecided
  <2>3. CASE UNCHANGED repl
    BY <2>1, <2>3 DEF CoordinatorAt, Decided, Sent, AllDist, NoDist, is_aborted, is_committed, Undecided
  <2> QED BY <1>13, <2>2, <2>3 DEF coordinator_abort
<1>14. ASSUME recover_prepared_coordinator PROVE G
  <2>1. cpc = "recovered" /\ cpc' = "done" /\ UNCHANGED <<state, msgs>> /\ state = "none"
    BY <1>14 DEF recover_prepared_coordinator, CoordinatorAt
  <2>2. CASE transaction_has_committed = "HAS_COMMITTED" /\ LogRecord(Coordinator, "commit")
    <3>1. AllDist BY <2>1, <2>2, HasCommitted DEF Decided
    <3>2. /\ log'[Coordinator] = "commit" /\ cand'[Coordinator] = cand[Coordinator] \cup {"commit"}
          /\ \A e \in Databases : e # Coordinator => log'[e] = log[e] /\ cand'[e] = cand[e]
          /\ UNCHANGED durableGen
      BY <2>2, LogRecordEffect DEF Databases
    <3>3. \A d \in Databases : log'[d] \in cand'[d] BY <3>2 DEF Decided
    <3>4. AllDist' BY <3>1, <3>2 DEF AllDist, HasDist
    <3>5. CoordinatorAt' BY <2>1 DEF CoordinatorAt
    <3>6. ~Sent("ABORT") BY <3>1 DEF Decided, AllDist, NoDist, Databases
    <3> QED BY <2>1, <3>2, <3>3, <3>4, <3>5, <3>6 DEF Decided, Sent, HasDist, is_aborted, is_committed, Undecided
  <2>3. CASE transaction_has_committed = "HAS_ABORTED" /\ LogRecord(Coordinator, "abort")
    <3>1. NoDist BY <2>1, <2>3, HasCommitted DEF Decided
    <3>2. /\ log'[Coordinator] = "abort" /\ cand'[Coordinator] = cand[Coordinator] \cup {"abort"}
          /\ \A e \in Databases : e # Coordinator => log'[e] = log[e] /\ cand'[e] = cand[e]
          /\ UNCHANGED durableGen
      BY <2>3, LogRecordEffect DEF Databases
    <3>3. \A d \in Databases : log'[d] \in cand'[d] BY <3>2 DEF Decided
    <3>4. NoDist' BY <3>1, <3>2 DEF NoDist, HasDist
    <3>5. CoordinatorAt' BY <2>1 DEF CoordinatorAt
    <3>6. ~Sent("COMMIT") BY <3>1 DEF Decided, AllDist, NoDist, Databases
    <3> QED BY <2>1, <3>2, <3>3, <3>4, <3>5, <3>6 DEF Decided, Sent, HasDist, is_aborted, is_committed, Undecided
  <2> QED BY <1>14, <2>2, <2>3 DEF recover_prepared_coordinator
<1>15. ASSUME NEW p \in Participants, send_prepare_message(p) PROVE G
  <2>1. LeavesDecision
    BY <1>15 DEF send_prepare_message, osql_prepare, LeavesDecision, TypeOK, Databases, CoordinatorAt, Decided, Phases
  <2> QED BY <2>1, DecidedFrame
<1>16. ASSUME NEW p \in Participants, prepare_participants_fail(p) PROVE G
  BY <1>16, AbortMsgsAre DEF prepare_participants_fail, TypeOK, Databases, Phases, CoordinatorAt, Decided, Sent, AllDist, NoDist, HasDist, is_aborted, is_committed, Undecided
<1>17. ASSUME NEW p \in Participants, check_participant_propagate_timeout_lk(p) PROVE G
  <2>1. LeavesDecision
    BY <1>17 DEF check_participant_propagate_timeout_lk, LeavesDecision, TypeOK, Databases, CoordinatorAt, Decided, Phases
  <2> QED BY <2>1, DecidedFrame
<1>18. ASSUME disttxn_timeout PROVE G
  BY <1>18, AbortMsgsAre DEF disttxn_timeout, TypeOK, Databases, Phases, CoordinatorAt, Decided, Sent, AllDist, NoDist, HasDist, is_aborted, is_committed, Undecided
<1>19. ASSUME NEW p \in Participants, participant_toblock(p) PROVE G
  <2>1. cpc \notin {"start", "dispatch"} BY <1>19 DEF participant_toblock, CoordinatorAt
  <2>2. \A m \in msgs' : m.type \in {"COMMIT", "ABORT"} => m \in msgs
    BY <1>19 DEF participant_toblock, participant_has_failed, FailedMsg
  <2>3. UNCHANGED repl \/ LogRecord(p, "prep") BY <1>19 DEF participant_toblock
  <2>4. UNCHANGED coord BY <1>19 DEF participant_toblock
  <2>5. LeavesDecision BY <2>1, <2>2, <2>3, <2>4, LogsLeave
  <2> QED BY <2>5, DecidedFrame
<1>20. ASSUME NEW p \in Participants, participant_prepare(p) PROVE G
  <2>1. cpc \notin {"start", "dispatch"} BY <1>20 DEF participant_prepare, CoordinatorAt
  <2>2. \A m \in msgs' : m.type \in {"COMMIT", "ABORT"} => m \in msgs
    BY <1>20 DEF participant_prepare, participant_has_failed, FailedMsg
  <2>3. LeavesDecision
    BY <1>20, <2>1, <2>2 DEF participant_prepare, LeavesDecision, Decided
  <2> QED BY <2>3, DecidedFrame
<1>21. ASSUME NEW p \in Participants, send_coordinator_prepared(p) PROVE G
  <2>1. cpc \notin {"start", "dispatch"} BY <1>21 DEF send_coordinator_prepared, CoordinatorAt
  <2>2. \A m \in msgs' : m.type \in {"COMMIT", "ABORT"} => m \in msgs
    <3>1. PreparedMsg(p, coordMaster[p]).type = "PREPARED" BY DEF PreparedMsg
    <3> QED BY <1>21, <3>1 DEF send_coordinator_prepared
  <2>3. LeavesDecision
    BY <1>21, <2>1, <2>2 DEF send_coordinator_prepared, LeavesDecision, Decided
  <2> QED BY <2>3, DecidedFrame
<1>22. ASSUME NEW p \in Participants, participant_wait(p) PROVE G
  <2>1. LeavesDecision
    BY <1>22 DEF participant_wait, LeavesDecision, TypeOK, Databases, CoordinatorAt, Decided, Phases
  <2> QED BY <2>1, DecidedFrame
<1>23. ASSUME NEW p \in Participants, send_coordinator_prepared_find_master(p) PROVE G
  <2>1. LeavesDecision
    <3>1. PreparedMsg(p, host[Coordinator]).type = "PREPARED" BY DEF PreparedMsg
    <3>2. cpc \notin {"start", "dispatch"} BY <1>23 DEF send_coordinator_prepared_find_master, CoordinatorAt
    <3> QED BY <1>23, <3>1, <3>2 DEF send_coordinator_prepared_find_master, LeavesDecision, Decided
  <2> QED BY <2>1, DecidedFrame
<1>24. ASSUME NEW p \in Participants, participant_wait_end(p) PROVE G
  <2>1. LeavesDecision
    BY <1>24 DEF participant_wait_end, LeavesDecision, TypeOK, Databases, CoordinatorAt, Decided, Phases
  <2> QED BY <2>1, DecidedFrame
<1>25. ASSUME NEW p \in Participants, participant_commit(p) PROVE G
  <2>1. LeavesDecision
    BY <1>25 DEF participant_commit, LogRecord, LeavesDecision, TypeOK, Databases, CoordinatorAt, Decided, Phases
  <2> QED BY <2>1, DecidedFrame
<1>26. ASSUME NEW p \in Participants, participant_has_propagated(p) PROVE G
  <2>1. LeavesDecision
    <3>1. PropagatedMsg(p).type = "PROPAGATED" BY DEF PropagatedMsg
    <3>2. cpc \notin {"start", "dispatch"} BY <1>26 DEF participant_has_propagated, CoordinatorAt
    <3> QED BY <1>26, <3>1, <3>2 DEF participant_has_propagated, LeavesDecision, Decided
  <2> QED BY <2>1, DecidedFrame
<1>27. ASSUME NEW p \in Participants, participant_abort(p) PROVE G
  <2>1. LeavesDecision
    BY <1>27 DEF participant_abort, LogRecord, LeavesDecision, TypeOK, Databases, CoordinatorAt, Decided, Phases
  <2> QED BY <2>1, DecidedFrame
<1>28. ASSUME NEW p \in Participants, NEW m \in msgs, participant_prepared(p, m) PROVE G
  <2>1. UNCHANGED <<log, cand, durableGen, cpc, parts>> /\ cpc \notin {"start", "dispatch"}
    BY <1>28 DEF participant_prepared, CoordinatorAt
  <2>2. CASE state = "PREPARING" /\ state' \in {"PREPARING", "PREPARED"} /\ UNCHANGED msgs
    BY <2>1, <2>2 DEF Phases, CoordinatorAt, Decided, Sent, AllDist, NoDist, is_aborted, is_committed, Undecided
  <2>3. CASE NoDist /\ state \notin {"COLLECTED", "PREPARING", "PREPARED"} /\ UNCHANGED state
             /\ msgs' = msgs \cup {AbortMsg(p, m.from)}
    <3>1. AbortMsg(p, m.from).type = "ABORT" BY DEF AbortMsg
    <3> QED BY <2>1, <2>3, <3>1 DEF CoordinatorAt, Decided, Sent, AllDist, NoDist, is_aborted, is_committed, Undecided
  <2>4. CASE AllDist /\ UNCHANGED state /\ msgs' = msgs \cup {CommitMsg(p, m.from)}
    <3>1. CommitMsg(p, m.from).type = "COMMIT" BY DEF CommitMsg
    <3> QED BY <2>1, <2>4, <3>1 DEF CoordinatorAt, Decided, Sent, AllDist, NoDist, is_aborted, is_committed, Undecided
  <2>5. is_aborted => NoDist /\ state \notin {"COLLECTED", "PREPARING", "PREPARED"} BY DEF Decided, is_aborted
  <2>6. is_committed => AllDist BY DEF Decided
  <2>7. /\ state = "none" /\ transaction_has_committed = "HAS_COMMITTED" => AllDist
        /\ state = "none" /\ transaction_has_committed = "HAS_ABORTED" => NoDist
    BY HasCommitted DEF Decided
  <2> QED BY <1>28, <2>2, <2>3, <2>4, <2>5, <2>6, <2>7 DEF participant_prepared, disttxn_check_commitable_lk
<1>29. ASSUME NEW p \in Participants, NEW m \in msgs, participant_failed(p, m) PROVE G
  <2>1. UNCHANGED <<log, cand, durableGen, cpc, parts>> /\ cpc \notin {"start", "dispatch"}
    BY <1>29 DEF participant_failed, CoordinatorAt
  <2>2. CASE /\ state = "PREPARING" /\ state' = "ABORTED"
             /\ \A n \in msgs' : n \in msgs \/ n.type = "ABORT"
    BY <2>1, <2>2 DEF Phases, CoordinatorAt, Decided, Sent, AllDist, NoDist, is_aborted, is_committed, Undecided
  <2>3. CASE UNCHANGED state /\ msgs' \subseteq msgs
    BY <2>1, <2>3 DEF CoordinatorAt, Decided, Sent, AllDist, NoDist, is_aborted, is_committed, Undecided
  <2> QED BY <1>29, <2>2, <2>3, AbortMsgsAre DEF participant_failed
<1>30. ASSUME NEW p \in Participants, NEW m \in msgs, participant_propagated(p, m) PROVE G
  <2>1. LeavesDecision
    BY <1>30 DEF participant_propagated, LeavesDecision, TypeOK, Databases, CoordinatorAt, Decided, Phases
  <2> QED BY <2>1, DecidedFrame
<1>31. ASSUME NEW p \in Participants, NEW m \in msgs, coordinator_committed(p, m) PROVE G
  <2>1. cpc \notin {"start", "dispatch"} BY <1>31 DEF coordinator_committed, CoordinatorAt
  <2>2. UNCHANGED repl \/ LogRecord(p, "commit") BY <1>31 DEF coordinator_committed
  <2>3. UNCHANGED <<coord, msgs>> BY <1>31 DEF coordinator_committed
  <2>4. LeavesDecision BY <2>1, <2>2, <2>3, LogsLeave
  <2> QED BY <2>4, DecidedFrame
<1>32. ASSUME NEW p \in Participants, NEW m \in msgs, coordinator_aborted(p, m) PROVE G
  <2>1. cpc \notin {"start", "dispatch"} BY <1>32 DEF coordinator_aborted, CoordinatorAt
  <2>2. UNCHANGED repl \/ LogRecord(p, "abort") BY <1>32 DEF coordinator_aborted
  <2>3. UNCHANGED <<coord, msgs>> BY <1>32 DEF coordinator_aborted
  <2>4. LeavesDecision BY <2>1, <2>2, <2>3, LogsLeave
  <2> QED BY <2>4, DecidedFrame
<1>33. ASSUME NEW d \in Databases, Replicate(d) PROVE G
  <2>1. /\ UNCHANGED <<log, cpc, state, msgs, ppc>>
        /\ cand'[d] = {log[d]} /\ \A e \in Databases : e # d => cand'[e] = cand[e] /\ durableGen'[e] = durableGen[e]
    BY <1>33 DEF Replicate, TypeOK
  <2>2. \A e \in Databases : cand'[e] \subseteq cand[e] /\ log'[e] \in cand'[e] BY <2>1 DEF Decided
  <2>3. CASE d # Coordinator
    BY <2>1, <2>2, <2>3 DEF Databases, CoordinatorAt, Decided, Sent, AllDist, NoDist, is_aborted, is_committed, Undecided
  <2>4. CASE d = Coordinator
    BY <2>1, <2>2, <2>4 DEF Databases, CoordinatorAt, Decided, Sent, AllDist, NoDist, is_aborted, is_committed, Undecided
  <2> QED BY <2>3, <2>4
<1>34. ASSUME NEW d \in Databases, LockDesired(d) PROVE G
  BY <1>34 DEF LockDesired, TypeOK, Databases, Phases, CoordinatorAt, Decided, Sent, AllDist, NoDist, HasDist, is_aborted, is_committed, Undecided
<1>35. ASSUME NEW h \in Hosts, NEW c \in cand[Coordinator], NewCoordinator(h, c) PROVE G
  BY <1>35 DEF NewCoordinator, NewMaster, TypeOK, Databases, Phases, CoordinatorAt, Decided, Sent, AllDist, NoDist, HasDist, is_aborted, is_committed, Undecided
<1>36. ASSUME NEW p \in Participants, NEW h \in Hosts, NEW c \in cand[p], NewParticipantMaster(p, h, c) PROVE G
  <2>1. LeavesDecision
    <3>1. p \in Databases /\ Coordinator \in Databases /\ p # Coordinator BY DEF Databases
    <3>2. /\ UNCHANGED <<cpc, state, cand, msgs>>
          /\ log'[p] = c /\ \A e \in Databases : e # p => log'[e] = log[e] /\ durableGen'[e] = durableGen[e]
      BY <1>36, <3>1 DEF NewParticipantMaster, NewMaster, TypeOK
    <3>3. cpc \in {"start", "dispatch"} => \A q \in Participants : ppc'[q] \in {"session", "done"}
      <4>1. cpc \in {"start", "dispatch"} => c = "none" BY DEF CoordinatorAt
      <4>2. \A q \in Participants : ppc'[q] = IF q = p THEN IF c = "prep" THEN "recovered" ELSE "done" ELSE ppc[q]
        BY <1>36 DEF NewParticipantMaster, TypeOK
      <4> QED BY <4>1, <4>2 DEF CoordinatorAt
    <3> QED BY <3>1, <3>2, <3>3 DEF LeavesDecision, Decided
  <2> QED BY <2>1, DecidedFrame
<1>37. ASSUME UNCHANGED vars PROVE G
  BY <1>37 DEF vars, TypeOK, Databases, Phases, CoordinatorAt, Decided, Sent, AllDist, NoDist, HasDist, is_aborted, is_committed, Undecided
<1> QED
  BY <1>1, <1>2, <1>3, <1>4, <1>5, <1>6, <1>7, <1>8, <1>9, <1>10, <1>11, <1>12, <1>13, <1>14, <1>15, <1>16, <1>17, <1>18, <1>19, <1>20, <1>21, <1>22, <1>23, <1>24, <1>25, <1>26, <1>27, <1>28, <1>29, <1>30, <1>31, <1>32, <1>33, <1>34, <1>35, <1>36, <1>37 DEF Next, CoordinatorStep, ParticipantStep, Receive, Failover, Databases

\* The masters the coordinator database has, one after another, never answer both
\* COMMIT and ABORT (participant_result, abort_transaction_lk, commit_participants_lk).
THEOREM Agreement == Spec => []OneDecision
<1>1. TypeOK /\ Masters /\ Phases /\ CoordinatorAt /\ Decided /\ [Next]_vars
        => (TypeOK /\ Masters /\ Phases /\ CoordinatorAt /\ Decided)'
  BY TypeStep, DecidedStep
<1> QED BY <1>1, TypeInit, DecidedInit, DecidedImplies, PTL DEF Spec

\* ... and a decision that has been sent is in the log of every node that can
\* become master (bdb_block_durable, bdb_committed_durable).
THEOREM Durability == Spec => []DecisionIsDurable
<1>1. TypeOK /\ Masters /\ Phases /\ CoordinatorAt /\ Decided /\ [Next]_vars
        => (TypeOK /\ Masters /\ Phases /\ CoordinatorAt /\ Decided)'
  BY TypeStep, DecidedStep
<1> QED BY <1>1, TypeInit, DecidedInit, DecidedImplies, PTL DEF Spec
=============================================================================
