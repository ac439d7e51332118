-------------------------- MODULE DistTxnUnanimity --------------------------
(***************************************************************************)
(* Proof that the databases of a distributed transaction agree on its      *)
(* outcome.  Promises adds to Decided what a participant's log, block      *)
(* processor and participant_hash owe to its vote.  It is inductive under  *)
(* StableGenerations: without it a second change of master can take a      *)
(* recovered, announced and not yet durable prepare away.                  *)
(***************************************************************************)
EXTENDS DistTxnProofs

Voted(p) == \E m \in msgs : m.type = "PREPARED" /\ m.part = p

\* No change of master takes p's prepare away, or undoes it.
Kept(p)  == log[p] # "none" /\ (durableGen[p] => "none" \notin cand[p])
Holds(p) == log[p] \in {"prep", "commit"} /\ (durableGen[p] => cand[p] \subseteq {"prep", "commit"})

ParticipantAt(p) ==
    /\ cand[p] \subseteq {"none", "prep", "commit", "abort"}
    /\ ppc[p] \in {"session", "running"} => log[p] = "none" /\ cand[p] = {"none"}
    /\ ppc[p] = "logged" => log[p] = "prep" /\ cand[p] \subseteq {"none", "prep"}
    /\ ppc[p] \in {"session", "running", "logged"} => ~Voted(p)
    /\ ppc[p] \in {"prepared", "announced", "wait", "commit", "committed", "discard", "recovered"} => Holds(p)
    /\ ppc[p] = "commit" \/ "commit" \in cand[p] => Sent("COMMIT")
    /\ ppc[p] = "abort" => ~Voted(p) \/ Sent("ABORT")
    /\ Voted(p) => Kept(p) /\ (Holds(p) \/ Sent("ABORT"))
    /\ \A h \in Hosts : participant_hash[p][h] = "COMMITTED" => Sent("COMMIT")
    /\ \A h \in Hosts : participant_hash[p][h] = "ABORTED" => Sent("ABORT")
    /\ status[p] \in {"PREPARED", "PROPAGATED"} => Voted(p)

Promises ==
    /\ \A p \in Participants : ParticipantAt(p)
    /\ NoDist \/ \A p \in Participants : Voted(p)


-----------------------------------------------------------------------------
\* Votes and decisions are not unsaid.
Monotone == \A m \in msgs : m.type \in {"PREPARED", "COMMIT", "ABORT"} => m \in msgs'

\* A step that does not concern participant q.
Untouched(q) ==
    /\ log'[q] = log[q] /\ cand'[q] = cand[q] /\ durableGen'[q] = durableGen[q]
    /\ ppc'[q] = ppc[q] \/ (ppc[q] = "session" /\ ppc'[q] = "running")
    /\ \A h \in Hosts : participant_hash'[q][h] = participant_hash[q][h]
    /\ status'[q] \in {"PREPARED", "PROPAGATED"} => status[q] \in {"PREPARED", "PROPAGATED"}
    /\ \A m \in msgs' : m.type = "PREPARED" /\ m.part = q => m \in msgs

\* A participant keeps its promise through steps that are not its own.
LEMMA UntouchedFrame ==
    ASSUME NEW q \in Participants, ParticipantAt(q), Monotone, Untouched(q)
    PROVE  ParticipantAt(q)'
<1>1. Voted(q)' <=> Voted(q)
  BY DEF Voted, Monotone, Untouched
<1>2. (Sent("COMMIT") => Sent("COMMIT")') /\ (Sent("ABORT") => Sent("ABORT")')
  BY DEF Sent, Monotone
<1>3. (Kept(q)' <=> Kept(q)) /\ (Holds(q)' <=> Holds(q))
  BY DEF Kept, Holds, Untouched
<1> QED BY <1>1, <1>2, <1>3 DEF ParticipantAt, Untouched

\* The votes a commit row rests on stay cast.
LEMMA AllVotedFrame ==
    ASSUME NoDist \/ \A p \in Participants : Voted(p), Monotone, NoDist => NoDist'
    PROVE  NoDist' \/ \A p \in Participants : Voted(p)'
BY DEF Voted, Monotone

\* Nobody has promised anything in the first state.
LEMMA PromisesInit == Init => Promises
BY ConstantsAssumption DEF Init, Promises, ParticipantAt, Voted, Sent, Kept, Holds, NoDist, HasDist, Databases

\* A step that concerns no participant.
LEMMA PromisesFrame ==
    ASSUME Promises, Monotone, NoDist => NoDist', \A q \in Participants : Untouched(q)
    PROVE  Promises'
<1>1. \A q \in Participants : ParticipantAt(q)' BY UntouchedFrame DEF Promises
<1>2. NoDist' \/ \A p \in Participants : Voted(p)' BY AllVotedFrame DEF Promises
<1> QED BY <1>1, <1>2 DEF Promises

\* A step of participant p's that leaves the coordinator database alone.
LEMMA PromisesOne ==
    ASSUME Promises, Monotone, NEW p \in Participants, cand'[Coordinator] = cand[Coordinator],
           \A q \in Participants \ {p} : Untouched(q), ParticipantAt(p)'
    PROVE  Promises'
<1>1. \A q \in Participants : ParticipantAt(q)' BY UntouchedFrame DEF Promises
<1>2. NoDist' \/ \A q \in Participants : Voted(q)' BY AllVotedFrame DEF Promises, NoDist
<1> QED BY <1>1, <1>2 DEF Promises

\* Writing an entry changes one value, of one participant's.
LEMMA SetEntryEffect ==
    ASSUME TypeOK, NEW p \in Participants, NEW v, SetEntry(p, v)
    PROVE  /\ \A h \in Hosts : participant_hash'[p][h] \in {participant_hash[p][h], v}
           /\ \A q \in Participants : q # p => participant_hash'[q] = participant_hash[q]
BY DEF TypeOK, SetEntry

\* What a step of participant p's does to its log, entry and program counter
\* does not concern the others.
LEMMA StepsAlone ==
    ASSUME TypeOK, NEW p \in Participants, NEW r, NEW v, NEW pc,
           UNCHANGED repl \/ LogRecord(p, r),
           UNCHANGED participant_hash \/ SetEntry(p, v),
           UNCHANGED ppc \/ ppc' = [ppc EXCEPT ![p] = pc],
           \A q \in Participants : q # p => status'[q] = status[q],
           \A m \in msgs' : m.type = "PREPARED" => m \in msgs \/ m.part = p
    PROVE  cand'[Coordinator] = cand[Coordinator] /\ \A q \in Participants \ {p} : Untouched(q)
<1>1. p \in Databases /\ p # Coordinator /\ Coordinator \in Databases
  BY ConstantsAssumption DEF Databases
<1>2. /\ \A e \in Databases : e # p => log'[e] = log[e] /\ cand'[e] = cand[e]
      /\ UNCHANGED durableGen
  BY <1>1, LogRecordEffect DEF repl
<1>3. \A q \in Participants : q # p => participant_hash'[q] = participant_hash[q]
  BY SetEntryEffect
<1>4. \A q \in Participants : q # p => ppc'[q] = ppc[q] BY DEF TypeOK
<1> QED BY <1>1, <1>2, <1>3, <1>4 DEF Untouched, Databases

\* The coordinator's steps.
LEMMA PromisesCoordinator ==
    ASSUME TypeOK, Masters, Phases, CoordinatorAt, Decided, Promises, CoordinatorStep \/ disttxn_timeout
    PROVE  Promises'
<1> USE ConstantsAssumption DEF repl, coord, parts, Databases

<1>1. ASSUME collect_participants PROVE Promises'
  <2>1. Monotone BY <1>1 DEF collect_participants, Monotone
  <2>2. \A q \in Participants : Untouched(q) BY <1>1 DEF collect_participants, Untouched, TypeOK
  <2>3. NoDist => NoDist' BY <1>1 DEF collect_participants, NoDist, HasDist, TypeOK
  <2> QED BY <2>1, <2>2, <2>3, PromisesFrame
<1>2. ASSUME dispatch_participants PROVE Promises'
  <2>1. Monotone BY <1>2 DEF dispatch_participants, Monotone
  <2>2. \A q \in Participants : Untouched(q) BY <1>2 DEF dispatch_participants, Untouched, TypeOK
  <2>3. NoDist => NoDist' BY <1>2 DEF dispatch_participants, NoDist, HasDist, TypeOK
  <2> QED BY <2>1, <2>2, <2>3, PromisesFrame
<1>3. ASSUME prepare_participants_done PROVE Promises'
  <2>1. Monotone BY <1>3 DEF prepare_participants_done, Monotone
  <2>2. \A q \in Participants : Untouched(q) BY <1>3 DEF prepare_participants_done, Untouched, TypeOK
  <2>3. NoDist => NoDist' BY <1>3 DEF prepare_participants_done, NoDist, HasDist, TypeOK
  <2> QED BY <2>1, <2>2, <2>3, PromisesFrame
<1>4. ASSUME coordinator_toblock PROVE Promises'
  <2>1. Monotone BY <1>4, AbortMsgsAre DEF coordinator_toblock, LogRecord, coordinator_failed, Monotone
  <2>2. \A q \in Participants : Untouched(q) BY <1>4, AbortMsgsAre DEF coordinator_toblock, LogRecord, coordinator_failed, Untouched, TypeOK
  <2>3. NoDist => NoDist'
    <3>1. CASE LogRecord(Coordinator, "prep") BY <3>1, LogRecordEffect DEF NoDist, HasDist
    <3>2. CASE UNCHANGED repl BY <3>2 DEF NoDist
    <3> QED BY <1>4, <3>1, <3>2 DEF coordinator_toblock
  <2> QED BY <2>1, <2>2, <2>3, PromisesFrame
<1>5. ASSUME coordinator_prepare PROVE Promises'
  <2>1. Monotone BY <1>5, AbortMsgsAre DEF coordinator_prepare, coordinator_failed, Monotone
  <2>2. \A q \in Participants : Untouched(q) BY <1>5, AbortMsgsAre DEF coordinator_prepare, coordinator_failed, Untouched, TypeOK
  <2>3. NoDist => NoDist' BY <1>5 DEF coordinator_prepare, coordinator_failed, NoDist, HasDist, TypeOK
  <2> QED BY <2>1, <2>2, <2>3, PromisesFrame
<1>6. ASSUME coordinator_wait PROVE Promises'
  <2>1. Monotone BY <1>6 DEF coordinator_wait, Monotone
  <2>2. \A q \in Participants : Untouched(q) BY <1>6 DEF coordinator_wait, Untouched, TypeOK
  <2>3. NoDist => NoDist' BY <1>6 DEF coordinator_wait, NoDist, HasDist, TypeOK
  <2> QED BY <2>1, <2>2, <2>3, PromisesFrame
<1>7. ASSUME coordinator_wait_end PROVE Promises'
  <2>1. Monotone BY <1>7, AbortMsgsAre DEF coordinator_wait_end, Monotone
  <2>2. \A q \in Participants : Untouched(q) BY <1>7, AbortMsgsAre DEF coordinator_wait_end, Untouched, TypeOK
  <2>3. NoDist => NoDist' BY <1>7 DEF coordinator_wait_end, NoDist, HasDist, TypeOK
  <2> QED BY <2>1, <2>2, <2>3, PromisesFrame
<1>8. ASSUME commit_distributed_transaction PROVE Promises'
  <2>1. Monotone BY <1>8, AbortMsgsAre DEF commit_distributed_transaction, LogRecord, Monotone
  <2>2. \A q \in Participants : Untouched(q)
    BY <1>8, AbortMsgsAre DEF commit_distributed_transaction, LogRecord, Untouched, TypeOK
  <2>3. \A q \in Participants : Voted(q) \* every participant has prepared
    BY <1>8 DEF commit_distributed_transaction, Phases, Promises, ParticipantAt
  <2>4. \A q \in Participants : Voted(q)' BY <2>1, <2>3 DEF Voted, Monotone
  <2>5. \A q \in Participants : ParticipantAt(q)' BY <2>1, <2>2, UntouchedFrame DEF Promises, TypeOK
  <2> QED BY <2>4, <2>5 DEF Promises
<1>9. ASSUME commit_participants PROVE Promises'
  <2>1. Monotone BY <1>9 DEF commit_participants, CommitMsg, Monotone
  <2>2. \A q \in Participants : Untouched(q) BY <1>9 DEF commit_participants, CommitMsg, Untouched, TypeOK
  <2>3. NoDist => NoDist' BY <1>9 DEF commit_participants, CommitMsg, NoDist, HasDist, TypeOK
  <2> QED BY <2>1, <2>2, <2>3, PromisesFrame
<1>10. ASSUME coordinator_commit PROVE Promises'
  <2>1. Monotone BY <1>10 DEF coordinator_commit, LogRecord, Monotone
  <2>2. \A q \in Participants : Untouched(q) BY <1>10 DEF coordinator_commit, LogRecord, Untouched, TypeOK
  <2>3. NoDist => NoDist' BY <1>10 DEF coordinator_commit, Decided, AllDist, NoDist, TypeOK
  <2> QED BY <2>1, <2>2, <2>3, PromisesFrame
<1>11. ASSUME coordinator_wait_propagate PROVE Promises'
  <2>1. Monotone BY <1>11 DEF coordinator_wait_propagate, Monotone
  <2>2. \A q \in Participants : Untouched(q) BY <1>11 DEF coordinator_wait_propagate, Untouched, TypeOK
  <2>3. NoDist => NoDist' BY <1>11 DEF coordinator_wait_propagate, NoDist, HasDist, TypeOK
  <2> QED BY <2>1, <2>2, <2>3, PromisesFrame
<1>12. ASSUME cleanup_dtran PROVE Promises'
  <2>1. Monotone BY <1>12 DEF cleanup_dtran, Monotone
  <2>2. \A q \in Participants : Untouched(q) BY <1>12 DEF cleanup_dtran, Untouched, TypeOK
  <2>3. NoDist => NoDist' BY <1>12 DEF cleanup_dtran, NoDist, HasDist, TypeOK
  <2> QED BY <2>1, <2>2, <2>3, PromisesFrame
<1>13. ASSUME coordinator_abort PROVE Promises'
  <2>1. Monotone BY <1>13 DEF coordinator_abort, LogRecord, Monotone
  <2>2. \A q \in Participants : Untouched(q) BY <1>13 DEF coordinator_abort, LogRecord, Untouched, TypeOK
  <2>3. NoDist => NoDist' BY <1>13 DEF coordinator_abort, LogRecord, NoDist, HasDist, TypeOK
  <2> QED BY <2>1, <2>2, <2>3, PromisesFrame
<1>14. ASSUME recover_prepared_coordinator PROVE Promises'
  <2>1. Monotone BY <1>14 DEF recover_prepared_coordinator, LogRecord, Monotone
  <2>2. \A q \in Participants : Untouched(q) BY <1>14 DEF recover_prepared_coordinator, LogRecord, Untouched, TypeOK
  <2>3. NoDist => NoDist'
    <3>1. CASE transaction_has_committed = "HAS_COMMITTED"
      BY <1>14, <3>1, HasCommitted DEF recover_prepared_coordinator, CoordinatorAt, Decided, AllDist, NoDist
    <3>2. CASE transaction_has_committed # "HAS_COMMITTED"
      <4>1. LogRecord(Coordinator, "abort") BY <1>14, <3>2 DEF recover_prepared_coordinator
      <4> QED BY <4>1, LogRecordEffect DEF NoDist, HasDist
    <3> QED BY <3>1, <3>2
  <2> QED BY <2>1, <2>2, <2>3, PromisesFrame
<1>15. ASSUME NEW p \in Participants, check_participant_propagate_timeout_lk(p) PROVE Promises'
  <2>1. Monotone BY <1>15 DEF check_participant_propagate_timeout_lk, Monotone
  <2>2. \A q \in Participants : Untouched(q) BY <1>15 DEF check_participant_propagate_timeout_lk, Untouched, TypeOK
  <2>3. NoDist => NoDist' BY <1>15 DEF check_participant_propagate_timeout_lk, NoDist, HasDist, TypeOK
  <2> QED BY <2>1, <2>2, <2>3, PromisesFrame
<1>16. ASSUME disttxn_timeout PROVE Promises'
  <2>1. Monotone BY <1>16, AbortMsgsAre DEF disttxn_timeout, Monotone
  <2>2. \A q \in Participants : Untouched(q) BY <1>16, AbortMsgsAre DEF disttxn_timeout, Untouched, TypeOK
  <2>3. NoDist => NoDist' BY <1>16 DEF disttxn_timeout, NoDist, HasDist, TypeOK
  <2> QED BY <2>1, <2>2, <2>3, PromisesFrame
<1>17. ASSUME NEW p \in Participants, send_prepare_message(p) PROVE Promises'
  <2>1. Monotone BY <1>17 DEF send_prepare_message, osql_prepare, Monotone
  <2>2. \A q \in Participants : Untouched(q) BY <1>17 DEF send_prepare_message, osql_prepare, Untouched, TypeOK
  <2>3. NoDist => NoDist' BY <1>17 DEF send_prepare_message, osql_prepare, NoDist, HasDist, TypeOK
  <2> QED BY <2>1, <2>2, <2>3, PromisesFrame
<1>18. ASSUME NEW p \in Participants, prepare_participants_fail(p) PROVE Promises'
  <2>1. Monotone BY <1>18, AbortMsgsAre DEF prepare_participants_fail, osql_prepare, Monotone
  <2>2. \A q \in Participants : Untouched(q)
    <3>1. /\ UNCHANGED <<log, cand, durableGen, participant_hash>>
          /\ \A m \in msgs' : m.type = "PREPARED" => m \in msgs
      BY <1>18, AbortMsgsAre DEF prepare_participants_fail, osql_prepare
    <3>2. \A q \in Participants : ppc'[q] = ppc[q] \/ (ppc[q] = "session" /\ ppc'[q] = "running")
      BY <1>18 DEF prepare_participants_fail, osql_prepare, TypeOK
    <3>3. \A q \in Participants : status'[q] \in {status[q], "FAILED_PREPARE"}
      BY <1>18 DEF prepare_participants_fail, TypeOK
    <3> QED BY <3>1, <3>2, <3>3 DEF Untouched
  <2>3. NoDist => NoDist' BY <1>18 DEF prepare_participants_fail, osql_prepare, NoDist, HasDist, TypeOK
  <2> QED BY <2>1, <2>2, <2>3, PromisesFrame
<1> QED BY <1>1, <1>2, <1>3, <1>4, <1>5, <1>6, <1>7, <1>8, <1>9, <1>10, <1>11, <1>12, <1>13, <1>14, <1>15, <1>16, <1>17, <1>18 DEF CoordinatorStep

\* Words that are not unsaid, and votes that are not new.
LEMMA Words ==
    ASSUME Monotone, NEW p
    PROVE  /\ Voted(p) => Voted(p)'
           /\ Sent("COMMIT") => Sent("COMMIT")'
           /\ Sent("ABORT") => Sent("ABORT")'
BY DEF Monotone, Voted, Sent

NoNewVote(p) == \A m \in msgs' : m.type = "PREPARED" /\ m.part = p => m \in msgs

\* No new vote, no change in having voted.
LEMMA VotesKept == ASSUME NEW p, NoNewVote(p) PROVE Voted(p)' => Voted(p)
BY DEF NoNewVote, Voted

\* The records a participant writes, by LogRecordEffect.
LEMMA ParticipantRecord ==
    ASSUME TypeOK, NEW p \in Participants, NEW r, LogRecord(p, r)
    PROVE  log'[p] = r /\ cand'[p] = cand[p] \cup {r} /\ durableGen'[p] = durableGen[p]
BY LogRecordEffect DEF Databases

\* A participant's steps.
LEMMA PromisesParticipant ==
    ASSUME TypeOK, Masters, CoordinatorAt, Decided, Promises, NEW p \in Participants, ParticipantStep(p)
    PROVE  Promises'
<1> USE DEF repl, coord, parts
<1>0. ParticipantAt(p) BY DEF Promises

<1>1. ASSUME participant_toblock(p) PROVE Promises'
  <2>1. PICK rc : \/ UNCHANGED msgs
                  \/ msgs' = msgs \cup {FailedMsg(p, rc)}
    BY <1>1 DEF participant_toblock, participant_has_failed
  <2>2. FailedMsg(p, rc).type = "FAILED_PREPARE" BY DEF FailedMsg
  <2>3. Monotone /\ \A m \in msgs' : m.type = "PREPARED" => m \in msgs BY <2>1, <2>2 DEF Monotone
  <2>4. /\ UNCHANGED status
        /\ \/ LogRecord(p, "prep") /\ ppc' = [ppc EXCEPT ![p] = "logged"] /\ UNCHANGED participant_hash
           \/ UNCHANGED repl /\ ppc' = [ppc EXCEPT ![p] = "done"] /\ SetEntry(p, None)
    BY <1>1 DEF participant_toblock, participant_has_failed
  <2>5. cand'[Coordinator] = cand[Coordinator] /\ \A q \in Participants \ {p} : Untouched(q)
    BY <2>3, <2>4, StepsAlone
  <2>6. ParticipantAt(p)'
    <3>1. ppc[p] = "running" /\ log[p] = "none" /\ cand[p] = {"none"} /\ ~Voted(p)
      BY <1>0, <1>1 DEF participant_toblock, ParticipantAt
    <3>2. ~Voted(p)' BY <2>3, <3>1, VotesKept DEF NoNewVote
    <3>3. \A h \in Hosts : participant_hash'[p][h] \in {participant_hash[p][h], None}
      BY <2>4, SetEntryEffect
    <3>4. \/ log'[p] = "prep" /\ cand'[p] = {"none", "prep"} /\ ppc'[p] = "logged"
          \/ log'[p] = "none" /\ cand'[p] = {"none"} /\ ppc'[p] = "done"
      BY <2>4, <3>1, ParticipantRecord DEF TypeOK
    <3> QED BY <1>0, <2>3, <2>4, <3>2, <3>3, <3>4, Words, ConstantsAssumption DEF ParticipantAt
  <2> QED BY <2>3, <2>5, <2>6, PromisesOne
<1>2. ASSUME participant_prepare(p) PROVE Promises'
  <2>1. FailedMsg(p, "fatal").type = "FAILED_PREPARE" BY DEF FailedMsg
  <2>2. Monotone /\ \A m \in msgs' : m.type = "PREPARED" => m \in msgs
    BY <1>2, <2>1 DEF participant_prepare, participant_has_failed, Monotone
  <2>3. /\ UNCHANGED <<log, cand, durableGen, status>> /\ UNCHANGED repl /\ ppc[p] = "logged"
        /\ \/ UNCHANGED participant_hash /\ IsDurable(p, "prep") /\ ppc' = [ppc EXCEPT ![p] = "prepared"]
           \/ SetEntry(p, None) /\ ppc' = [ppc EXCEPT ![p] = "abort"]
    BY <1>2 DEF participant_prepare, participant_has_failed
  <2>4. cand'[Coordinator] = cand[Coordinator] /\ \A q \in Participants \ {p} : Untouched(q)
    BY <2>2, <2>3, StepsAlone
  <2>5. ParticipantAt(p)'
    <3>1. log[p] = "prep" /\ cand[p] \subseteq {"none", "prep"} /\ ~Voted(p)
      BY <1>0, <2>3 DEF ParticipantAt
    <3>2. ~Voted(p)' BY <2>2, <3>1, VotesKept DEF NoNewVote
    <3>3. \A h \in Hosts : participant_hash'[p][h] \in {participant_hash[p][h], None}
      BY <2>3, SetEntryEffect
    <3>4. \/ ppc'[p] = "prepared" /\ IsDurable(p, "prep")
          \/ ppc'[p] = "abort"
      BY <2>3 DEF TypeOK
    <3>5. IsDurable(p, "prep") => cand[p] \subseteq {"prep"}
      <4>1. "prep" \notin Records["none"] BY DEF Records
      <4> QED BY <3>1, <4>1 DEF IsDurable
    <3>6. ppc'[p] = "prepared" => Holds(p)' BY <2>3, <3>1, <3>4, <3>5 DEF Holds
    <3> QED BY <1>0, <2>2, <2>3, <3>1, <3>2, <3>3, <3>4, <3>6, Words, ConstantsAssumption DEF ParticipantAt
  <2> QED BY <2>2, <2>4, <2>5, PromisesOne
<1>3. ASSUME send_coordinator_prepared(p) PROVE Promises'
  <2>1. /\ PreparedMsg(p, coordMaster[p]).type = "PREPARED" /\ PreparedMsg(p, coordMaster[p]).part = p
        /\ msgs' = msgs \cup {PreparedMsg(p, coordMaster[p])}
    BY <1>3 DEF send_coordinator_prepared, PreparedMsg
  <2>2. Monotone /\ \A m \in msgs' : m.type = "PREPARED" => m \in msgs \/ m.part = p
    BY <2>1 DEF Monotone
  <2>3. /\ UNCHANGED <<log, cand, durableGen, status, participant_hash>> /\ UNCHANGED repl
        /\ ppc[p] = "prepared" /\ ppc' = [ppc EXCEPT ![p] = "announced"]
    BY <1>3 DEF send_coordinator_prepared
  <2>4. cand'[Coordinator] = cand[Coordinator] /\ \A q \in Participants \ {p} : Untouched(q)
    BY <2>2, <2>3, StepsAlone
  <2>5. ParticipantAt(p)'
    <3>1. Holds(p) BY <1>0, <2>3 DEF ParticipantAt
    <3>2. Holds(p)' /\ Kept(p)'
      <4>1. Kept(p) BY <3>1 DEF Holds, Kept
      <4>2. (Holds(p)' <=> Holds(p)) /\ (Kept(p)' <=> Kept(p)) BY <2>3 DEF Holds, Kept
      <4> QED BY <3>1, <4>1, <4>2
    <3>3. Voted(p)' BY <2>1 DEF Voted
    <3>4. ppc'[p] \in {"announced", "wait", "recovered"} BY <2>3 DEF TypeOK
    <3> QED BY <1>0, <2>2, <2>3, <3>2, <3>3, <3>4, Words DEF ParticipantAt
  <2> QED BY <2>2, <2>4, <2>5, PromisesOne
<1>4. ASSUME participant_wait(p) PROVE Promises'
  <2>1. /\ UNCHANGED <<log, cand, durableGen, status, msgs>> /\ UNCHANGED repl
        /\ ppc[p] = "announced" /\ ppc' = [ppc EXCEPT ![p] = "wait"]
    BY <1>4 DEF participant_wait
  <2>2. Monotone BY <2>1 DEF Monotone
  <2>3. PICK v : SetEntry(p, v) /\ (v = "PREPARED" \/ v = Entry(p)) BY <1>4 DEF participant_wait
  <2>4. cand'[Coordinator] = cand[Coordinator] /\ \A q \in Participants \ {p} : Untouched(q)
    BY <2>1, <2>3, StepsAlone
  <2>5. ParticipantAt(p)'
    <3>1. \A h \in Hosts : participant_hash'[p][h] \in {participant_hash[p][h], v} BY <2>3, SetEntryEffect
    <3>2. host[p] \in Hosts BY DEF TypeOK, Databases
    <3>3. (v = "COMMITTED" => Sent("COMMIT")) /\ (v = "ABORTED" => Sent("ABORT"))
      BY <1>0, <2>3, <3>2 DEF ParticipantAt, Entry
    <3>4. (Voted(p)' <=> Voted(p)) /\ (Sent("COMMIT")' <=> Sent("COMMIT")) /\ (Sent("ABORT")' <=> Sent("ABORT"))
      BY <2>1 DEF Voted, Sent
    <3>5. (Holds(p)' <=> Holds(p)) /\ (Kept(p)' <=> Kept(p)) BY <2>1 DEF Holds, Kept
    <3>6. ppc'[p] = "wait" BY <2>1 DEF TypeOK
    <3> QED BY <1>0, <2>1, <3>1, <3>3, <3>4, <3>5, <3>6 DEF ParticipantAt
  <2> QED BY <2>2, <2>4, <2>5, PromisesOne
<1>5. ASSUME send_coordinator_prepared_find_master(p) PROVE Promises'
  <2>1. /\ PreparedMsg(p, host[Coordinator]).type = "PREPARED" /\ PreparedMsg(p, host[Coordinator]).part = p
        /\ msgs' = msgs \cup {PreparedMsg(p, host[Coordinator])}
    BY <1>5 DEF send_coordinator_prepared_find_master, PreparedMsg
  <2>2. Monotone /\ \A m \in msgs' : m.type = "PREPARED" => m \in msgs \/ m.part = p
    BY <2>1 DEF Monotone
  <2>3. /\ UNCHANGED <<log, cand, durableGen, status, participant_hash>> /\ UNCHANGED repl
        /\ ppc[p] \in {"wait", "recovered"} /\ UNCHANGED ppc
    BY <1>5 DEF send_coordinator_prepared_find_master
  <2>4. cand'[Coordinator] = cand[Coordinator] /\ \A q \in Participants \ {p} : Untouched(q)
    BY <2>2, <2>3, StepsAlone
  <2>5. ParticipantAt(p)'
    <3>1. Holds(p) BY <1>0, <2>3 DEF ParticipantAt
    <3>2. Holds(p)' /\ Kept(p)'
      <4>1. Kept(p) BY <3>1 DEF Holds, Kept
      <4>2. (Holds(p)' <=> Holds(p)) /\ (Kept(p)' <=> Kept(p)) BY <2>3 DEF Holds, Kept
      <4> QED BY <3>1, <4>1, <4>2
    <3>3. Voted(p)' BY <2>1 DEF Voted
    <3>4. ppc'[p] \in {"announced", "wait", "recovered"} BY <2>3 DEF TypeOK
    <3> QED BY <1>0, <2>2, <2>3, <3>2, <3>3, <3>4, Words DEF ParticipantAt
  <2> QED BY <2>2, <2>4, <2>5, PromisesOne
<1>6. ASSUME participant_wait_end(p) PROVE Promises'
  <2>1. /\ UNCHANGED <<log, cand, durableGen, status, msgs>> /\ UNCHANGED repl
        /\ ppc[p] = "wait" /\ SetEntry(p, None)
    BY <1>6 DEF participant_wait_end
  <2>2. Monotone BY <2>1 DEF Monotone
  <2>3. host[p] \in Hosts /\ Entry(p) \in {"PREPARED", "ABORTED", "COMMITTED"}
    BY <2>1 DEF TypeOK, Databases, Masters, Entry
  <2>4. PICK pc : ppc' = [ppc EXCEPT ![p] = pc]
                   /\ \/ Entry(p) = "COMMITTED" /\ pc = "commit"
                      \/ Entry(p) = "ABORTED" /\ pc = "abort"
                      \/ Entry(p) = "PREPARED" /\ pc = "discard"
    BY <1>6, <2>3 DEF participant_wait_end
  <2>5. cand'[Coordinator] = cand[Coordinator] /\ \A q \in Participants \ {p} : Untouched(q)
    BY <2>1, <2>4, StepsAlone
  <2>6. ParticipantAt(p)'
    <3>1. (Voted(p)' <=> Voted(p)) /\ (Sent("COMMIT")' <=> Sent("COMMIT")) /\ (Sent("ABORT")' <=> Sent("ABORT"))
      BY <2>1 DEF Voted, Sent
    <3>2. \A h \in Hosts : participant_hash'[p][h] \in {participant_hash[p][h], None}
      BY <2>1, SetEntryEffect
    <3>3. (Entry(p) = "COMMITTED" => Sent("COMMIT")) /\ (Entry(p) = "ABORTED" => Sent("ABORT"))
      BY <1>0, <2>3 DEF ParticipantAt, Entry
    <3>4. ppc'[p] = pc BY <2>4 DEF TypeOK
    <3>5. (Holds(p)' <=> Holds(p)) /\ (Kept(p)' <=> Kept(p)) BY <2>1 DEF Holds, Kept
    <3> QED BY <1>0, <2>1, <2>4, <3>1, <3>2, <3>3, <3>4, <3>5, ConstantsAssumption DEF ParticipantAt
  <2> QED BY <2>2, <2>5, <2>6, PromisesOne
<1>7. ASSUME participant_commit(p) PROVE Promises'
  <2>1. /\ UNCHANGED <<status, msgs, participant_hash>> /\ LogRecord(p, "commit")
        /\ ppc[p] = "commit" /\ ppc' = [ppc EXCEPT ![p] = "committed"]
    BY <1>7 DEF participant_commit
  <2>2. Monotone BY <2>1 DEF Monotone
  <2>3. cand'[Coordinator] = cand[Coordinator] /\ \A q \in Participants \ {p} : Untouched(q)
    BY <2>1, StepsAlone
  <2>4. ParticipantAt(p)'
    <3>1. log'[p] = "commit" /\ cand'[p] = cand[p] \cup {"commit"} /\ durableGen'[p] = durableGen[p] /\ ppc'[p] = "committed"
      BY <2>1, ParticipantRecord DEF TypeOK
    <3>2. (Voted(p)' <=> Voted(p)) /\ (Sent("COMMIT")' <=> Sent("COMMIT")) /\ (Sent("ABORT")' <=> Sent("ABORT"))
      BY <2>1 DEF Voted, Sent
    <3> QED BY <1>0, <2>1, <3>1, <3>2 DEF ParticipantAt, Holds, Kept
  <2> QED BY <2>2, <2>3, <2>4, PromisesOne
<1>8. ASSUME participant_has_propagated(p) PROVE Promises'
  <2>1. PropagatedMsg(p).type = "PROPAGATED" BY DEF PropagatedMsg
  <2>2. Monotone /\ \A m \in msgs' : m.type \in {"PREPARED", "COMMIT", "ABORT"} => m \in msgs
    BY <1>8, <2>1 DEF participant_has_propagated, Monotone
  <2>3. /\ UNCHANGED <<log, cand, durableGen, status, participant_hash>> /\ UNCHANGED repl
        /\ ppc' = [ppc EXCEPT ![p] = "done"]
    BY <1>8 DEF participant_has_propagated
  <2>4. cand'[Coordinator] = cand[Coordinator] /\ \A q \in Participants \ {p} : Untouched(q)
    BY <2>2, <2>3, StepsAlone
  <2>5. ParticipantAt(p)'
    <3>1. (Voted(p)' <=> Voted(p)) /\ (Sent("COMMIT")' <=> Sent("COMMIT")) /\ (Sent("ABORT")' <=> Sent("ABORT"))
      BY <2>2 DEF Voted, Sent, Monotone
    <3>2. (Holds(p)' <=> Holds(p)) /\ (Kept(p)' <=> Kept(p)) BY <2>3 DEF Holds, Kept
    <3>3. ppc'[p] = "done" BY <2>3 DEF TypeOK
    <3> QED BY <1>0, <2>3, <3>1, <3>2, <3>3 DEF ParticipantAt
  <2> QED BY <2>2, <2>4, <2>5, PromisesOne
<1>9. ASSUME participant_abort(p) PROVE Promises'
  <2>1. /\ UNCHANGED <<status, msgs, participant_hash>> /\ LogRecord(p, "abort")
        /\ ppc[p] = "abort" /\ ppc' = [ppc EXCEPT ![p] = "done"]
    BY <1>9 DEF participant_abort
  <2>2. Monotone BY <2>1 DEF Monotone
  <2>3. cand'[Coordinator] = cand[Coordinator] /\ \A q \in Participants \ {p} : Untouched(q)
    BY <2>1, StepsAlone
  <2>4. ParticipantAt(p)'
    <3>1. log'[p] = "abort" /\ cand'[p] = cand[p] \cup {"abort"} /\ durableGen'[p] = durableGen[p] /\ ppc'[p] = "done"
      BY <2>1, ParticipantRecord DEF TypeOK
    <3>2. (Voted(p)' <=> Voted(p)) /\ (Sent("COMMIT")' <=> Sent("COMMIT")) /\ (Sent("ABORT")' <=> Sent("ABORT"))
      BY <2>1 DEF Voted, Sent
    <3> QED BY <1>0, <2>1, <3>1, <3>2 DEF ParticipantAt, Holds, Kept
  <2> QED BY <2>2, <2>3, <2>4, PromisesOne
<1> QED BY <1>1, <1>2, <1>3, <1>4, <1>5, <1>6, <1>7, <1>8, <1>9 DEF ParticipantStep

\* A message is handled.
LEMMA PromisesReceive ==
    ASSUME TypeOK, Masters, CoordinatorAt, Decided, Promises,
           NEW p \in Participants, Receive(p)
    PROVE  Promises'
<1> USE DEF repl, coord, parts
<1>0. ParticipantAt(p) BY DEF Promises

<1>1. ASSUME NEW m \in msgs,
             participant_prepared(p, m) \/ participant_failed(p, m) \/ participant_propagated(p, m)
      PROVE  Promises'
  <2>1. UNCHANGED <<log, cand, durableGen, ppc, participant_hash>> /\ UNCHANGED repl
    BY <1>1 DEF participant_prepared, participant_failed, participant_propagated
  <2>2. /\ \A q \in Participants : q # p => status'[q] = status[q]
        /\ status'[p] \in {"PREPARED", "PROPAGATED"} =>
               status[p] \in {"PREPARED", "PROPAGATED"} \/ (m.type = "PREPARED" /\ m.part = p)
    <3>1. CASE participant_prepared(p, m) BY <3>1 DEF participant_prepared, TypeOK
    <3>2. CASE participant_failed(p, m) BY <3>2 DEF participant_failed, TypeOK
    <3>3. CASE participant_propagated(p, m) BY <3>3 DEF participant_propagated, TypeOK
    <3> QED BY <1>1, <3>1, <3>2, <3>3
  <2>3. Monotone /\ \A n \in msgs' : n.type = "PREPARED" => n \in msgs
    <3>1. AbortMsg(p, m.from).type = "ABORT" /\ CommitMsg(p, m.from).type = "COMMIT" BY DEF AbortMsg, CommitMsg
    <3>2. CASE participant_prepared(p, m) BY <3>1, <3>2 DEF participant_prepared, Monotone
    <3>3. CASE participant_failed(p, m) BY <3>3, AbortMsgsAre DEF participant_failed, Monotone
    <3>4. CASE participant_propagated(p, m) BY <3>4 DEF participant_propagated, Monotone
    <3> QED BY <1>1, <3>2, <3>3, <3>4
  <2>4. cand'[Coordinator] = cand[Coordinator] /\ \A q \in Participants \ {p} : Untouched(q)
    BY <2>1, <2>2, <2>3, StepsAlone
  <2>5. ParticipantAt(p)'
    <3>1. Voted(p)' <=> Voted(p) BY <2>3, Words, VotesKept DEF NoNewVote
    <3>2. status'[p] \in {"PREPARED", "PROPAGATED"} => Voted(p) BY <1>0, <2>2 DEF ParticipantAt, Voted
    <3>3. (Holds(p)' <=> Holds(p)) /\ (Kept(p)' <=> Kept(p)) BY <2>1 DEF Holds, Kept
    <3> QED BY <1>0, <2>1, <2>3, <3>1, <3>2, <3>3, Words DEF ParticipantAt
  <2> QED BY <2>3, <2>4, <2>5, PromisesOne
<1>2. ASSUME NEW m \in msgs, NEW r, NEW pw,
             \/ r = "commit" /\ Sent("COMMIT") /\ pw = "COMMITTED"
             \/ r = "abort" /\ Sent("ABORT") /\ (pw = "ABORTED" \/ pw = Entry(p)),
             UNCHANGED <<status, msgs>>,
             \/ /\ ppc[p] = "recovered" /\ LogRecord(p, r) /\ ppc' = [ppc EXCEPT ![p] = "done"]
                /\ UNCHANGED participant_hash
             \/ SetEntry(p, pw) /\ UNCHANGED repl /\ UNCHANGED ppc
      PROVE  Promises'
  <2>1. Monotone BY <1>2 DEF Monotone
  <2>2. cand'[Coordinator] = cand[Coordinator] /\ \A q \in Participants \ {p} : Untouched(q)
    BY <1>2, StepsAlone
  <2>3. ParticipantAt(p)'
    <3>1. (Voted(p)' <=> Voted(p)) /\ (Sent("COMMIT")' <=> Sent("COMMIT")) /\ (Sent("ABORT")' <=> Sent("ABORT"))
      BY <1>2 DEF Voted, Sent
    <3>2. CASE LogRecord(p, r) /\ ppc' = [ppc EXCEPT ![p] = "done"] /\ UNCHANGED participant_hash /\ ppc[p] = "recovered"
      <4>1. log'[p] = r /\ cand'[p] = cand[p] \cup {r} /\ durableGen'[p] = durableGen[p] /\ ppc'[p] = "done"
        BY <3>2, ParticipantRecord DEF TypeOK
      <4>2. CASE r = "commit" BY <1>0, <1>2, <3>1, <3>2, <4>1, <4>2 DEF ParticipantAt, Holds, Kept
      <4>3. CASE r = "abort" BY <1>0, <1>2, <3>1, <3>2, <4>1, <4>3 DEF ParticipantAt, Holds, Kept
      <4> QED BY <1>2, <4>2, <4>3
    <3>3. CASE SetEntry(p, pw) /\ UNCHANGED repl /\ UNCHANGED ppc
      <4>1. \A h \in Hosts : participant_hash'[p][h] \in {participant_hash[p][h], pw} BY <3>3, SetEntryEffect
      <4>2. host[p] \in Hosts BY DEF TypeOK, Databases
      <4>3. (pw = "COMMITTED" => Sent("COMMIT")) /\ (pw = "ABORTED" => Sent("ABORT"))
        BY <1>0, <1>2, <4>2 DEF ParticipantAt, Entry
      <4>4. (Holds(p)' <=> Holds(p)) /\ (Kept(p)' <=> Kept(p)) BY <3>3 DEF Holds, Kept
      <4> QED BY <1>0, <1>2, <3>1, <3>3, <4>1, <4>3, <4>4 DEF ParticipantAt
    <3> QED BY <1>2, <3>2, <3>3
  <2> QED BY <2>1, <2>2, <2>3, PromisesOne
<1>3. ASSUME NEW m \in msgs, coordinator_committed(p, m) PROVE Promises'
  <2>1. Sent("COMMIT") BY <1>3 DEF coordinator_committed, Sent
  <2> QED BY <1>2, <1>3, <2>1 DEF coordinator_committed
<1>4. ASSUME NEW m \in msgs, coordinator_aborted(p, m) PROVE Promises'
  <2>1. Sent("ABORT") BY <1>4 DEF coordinator_aborted, Sent
  <2>2. PICK pw : /\ pw = "ABORTED" \/ pw = Entry(p)
                  /\ \/ /\ ppc[p] = "recovered" /\ LogRecord(p, "abort") /\ ppc' = [ppc EXCEPT ![p] = "done"]
                        /\ UNCHANGED participant_hash
                     \/ SetEntry(p, pw) /\ UNCHANGED repl /\ UNCHANGED ppc
    BY <1>4 DEF coordinator_aborted
  <2>3. UNCHANGED <<status, msgs>> BY <1>4 DEF coordinator_aborted
  <2> QED BY <1>2, <2>1, <2>2, <2>3
<1> QED BY <1>1, <1>3, <1>4 DEF Receive

\* Replication and changes of master.
LEMMA PromisesEnvironment ==
    ASSUME TypeOK, Masters, CoordinatorAt, Decided, Promises, StableGenerations,
           \/ \E d \in Databases : Replicate(d)
           \/ \E d \in Failing : LockDesired(d) \/ Failover(d)
    PROVE  Promises'
<1> USE ConstantsAssumption DEF repl, coord, parts, Databases
<1>1. ASSUME NEW d \in Databases, Replicate(d) PROVE Promises'
  <2>1. Monotone BY <1>1 DEF Replicate, Monotone
  <2>2. NoDist => NoDist' BY <1>1 DEF Replicate, NoDist, Decided, TypeOK
  <2>3. ASSUME NEW q \in Participants PROVE ParticipantAt(q)'
    <3>1. ParticipantAt(q) BY DEF Promises
    <3>2. UNCHANGED <<log, ppc, participant_hash, status, msgs>> BY <1>1 DEF Replicate
    <3>3. (cand'[q] = cand[q] /\ durableGen'[q] = durableGen[q]) \/ cand'[q] = {log[q]}
      BY <1>1 DEF Replicate, TypeOK
    <3>4. log[q] \in cand[q] BY DEF Decided
    <3>5. (Voted(q)' <=> Voted(q)) /\ (Sent("COMMIT")' <=> Sent("COMMIT")) /\ (Sent("ABORT")' <=> Sent("ABORT"))
      BY <3>2 DEF Voted, Sent
    <3>6. (Holds(q) => Holds(q)') /\ (Kept(q) => Kept(q)') BY <3>2, <3>3, <3>4 DEF Holds, Kept
    <3>7. cand'[q] \subseteq cand[q] /\ (cand[q] = {"none"} => cand'[q] = {"none"}) BY <3>3, <3>4
    <3> QED BY <3>1, <3>2, <3>5, <3>6, <3>7 DEF ParticipantAt
  <2> QED BY <2>1, <2>2, <2>3, AllVotedFrame DEF Promises
<1>2. ASSUME NEW d \in Databases, LockDesired(d) PROVE Promises'
  <2>1. Monotone BY <1>2 DEF LockDesired, Monotone
  <2>2. NoDist => NoDist' BY <1>2 DEF LockDesired, NoDist, TypeOK
  <2>3. \A q \in Participants : Untouched(q) BY <1>2 DEF LockDesired, Untouched, TypeOK
  <2> QED BY <2>1, <2>2, <2>3, PromisesFrame
<1>3. ASSUME NEW h \in Hosts, NEW c \in cand[Coordinator], NewCoordinator(h, c) PROVE Promises'
  <2>1. Monotone BY <1>3 DEF NewCoordinator, NewMaster, Monotone
  <2>2. NoDist => NoDist' BY <1>3 DEF NewCoordinator, NewMaster, NoDist, TypeOK
  <2>3. \A q \in Participants : Untouched(q) BY <1>3 DEF NewCoordinator, NewMaster, Untouched, TypeOK
  <2> QED BY <2>1, <2>2, <2>3, PromisesFrame
<1>4. ASSUME NEW p \in Participants, NEW h \in Hosts, NEW c \in cand[p], NewParticipantMaster(p, h, c)
      PROVE  Promises'
  <2>0. ParticipantAt(p) BY DEF Promises
  <2>1. Monotone BY <1>4 DEF NewParticipantMaster, NewMaster, Monotone, TypeOK
  <2>2. cand'[Coordinator] = cand[Coordinator] BY <1>4 DEF NewParticipantMaster, NewMaster, TypeOK
  <2>3. \A q \in Participants \ {p} : Untouched(q)
    BY <1>4 DEF NewParticipantMaster, NewMaster, SetEntry, Untouched, TypeOK
  <2>4. ParticipantAt(p)'
    <3>1. /\ UNCHANGED <<cand, status, msgs>>
          /\ log'[p] = c /\ durableGen[p] /\ ~durableGen'[p]
          /\ ppc'[p] = IF c = "prep" THEN "recovered" ELSE "done"
      BY <1>4 DEF NewParticipantMaster, NewMaster, TypeOK
    <3>4. \A g \in Hosts : participant_hash'[p][g] \in {participant_hash[p][g], None}
      BY <1>4, SetEntryEffect DEF NewParticipantMaster
    <3>2. (Voted(p)' <=> Voted(p)) /\ (Sent("COMMIT")' <=> Sent("COMMIT")) /\ (Sent("ABORT")' <=> Sent("ABORT"))
      BY <3>1 DEF Voted, Sent
    <3>3. c \in {"none", "prep", "commit", "abort"} BY <2>0 DEF ParticipantAt
    <3> QED BY <2>0, <3>1, <3>2, <3>3, <3>4 DEF ParticipantAt, Holds, Kept
  <2> QED BY <2>1, <2>2, <2>3, <2>4, PromisesOne
<1> QED BY <1>1, <1>2, <1>3, <1>4 DEF Failover

\* Every step keeps the promises.
LEMMA PromisesStep ==
    ASSUME TypeOK, Masters, Phases, CoordinatorAt, Decided, Promises, StableGenerations, [Next]_vars
    PROVE  Promises'
<1>1. CASE UNCHANGED vars
  <2>1. Monotone /\ (NoDist => NoDist') BY <1>1 DEF vars, repl, coord, parts, Monotone, NoDist
  <2>2. \A q \in Participants : Untouched(q) BY <1>1 DEF vars, repl, coord, parts, Untouched
  <2> QED BY <2>1, <2>2, PromisesFrame
<1> QED BY <1>1, PromisesCoordinator, PromisesParticipant, PromisesReceive, PromisesEnvironment DEF Next

\* What Unanimous needs of a state in which the promises are kept.
LEMMA PromisesImply == TypeOK /\ Decided /\ Promises => Unanimous
<1> SUFFICES ASSUME TypeOK, Decided, Promises, NEW d \in Databases, NEW e \in Databases, log[d] = "commit"
             PROVE  log[e] \notin {"none", "abort"}
  BY DEF Unanimous
<1> USE ConstantsAssumption DEF Databases
<1>1. ~NoDist
  <2>1. CASE d = Coordinator BY <2>1 DEF Decided, NoDist, HasDist
  <2>2. CASE d \in Participants
    <3>1. ParticipantAt(d) /\ "commit" \in cand[d] BY <2>2 DEF Decided, Promises
    <3>2. Sent("COMMIT") BY <3>1 DEF ParticipantAt
    <3> QED BY <3>2 DEF Decided, AllDist, NoDist
  <2> QED BY <2>1, <2>2
<1>2. ~Sent("ABORT") BY <1>1 DEF Decided
<1>3. CASE e \in Participants
  <2>1. Voted(e) BY <1>1, <1>3 DEF Promises
  <2> QED BY <1>2, <1>3, <2>1 DEF Promises, ParticipantAt, Holds
<1>4. CASE e = Coordinator
  <2>1. CASE d = Coordinator BY <1>4, <2>1
  <2>2. CASE d \in Participants
    <3>1. ParticipantAt(d) /\ "commit" \in cand[d] BY <2>2 DEF Decided, Promises
    <3>2. Sent("COMMIT") BY <3>1 DEF ParticipantAt
    <3> QED BY <1>4, <3>2 DEF Decided, AllDist, HasDist
  <2> QED BY <2>1, <2>2
<1> QED BY <1>3, <1>4

\* When a group's generation is durable before its next change of master, no
\* database commits a distributed transaction that another has aborted or not
\* prepared (trans_commit_adaptive and trans_abort in toblock, txn_commit_recovered).
THEOREM Unanimity == ASSUME StableGenerations PROVE Spec => []Unanimous
<1>1. TypeOK /\ Masters /\ Phases /\ CoordinatorAt /\ Decided /\ Promises /\ [Next]_vars
        => (TypeOK /\ Masters /\ Phases /\ CoordinatorAt /\ Decided /\ Promises)'
  BY TypeStep, DecidedStep, PromisesStep
<1> QED BY <1>1, TypeInit, DecidedInit, PromisesInit, PromisesImply, PTL DEF Spec

\* What an action may do to an announced prepare.
KeepsPromise ==
    \A p \in Participants, m \in msgs :
        m.type = "PREPARED" /\ m.part = p /\ log[p] = "prep" =>
            /\ log'[p] = "abort" => Sent("ABORT")
            /\ log'[p] = "commit" => Sent("COMMIT")
            /\ log'[p] # "none"

\* The coordinator's steps leave the participants' logs alone.
LEMMA CoordinatorLogs ==
    ASSUME TypeOK, CoordinatorStep \/ disttxn_timeout
    PROVE  \A p \in Participants : log'[p] = log[p]
<1> USE ConstantsAssumption DEF TypeOK, Databases, repl, LogRecord
<1>1. CASE collect_participants \/ dispatch_participants \/ prepare_participants_done
  BY <1>1 DEF collect_participants, dispatch_participants, prepare_participants_done
<1>2. CASE \E p \in Participants : send_prepare_message(p) \/ prepare_participants_fail(p)
  BY <1>2 DEF send_prepare_message, prepare_participants_fail
<1>3. CASE coordinator_toblock \/ coordinator_prepare \/ coordinator_wait \/ coordinator_wait_end
  BY <1>3 DEF coordinator_toblock, coordinator_prepare, coordinator_wait, coordinator_wait_end
<1>4. CASE commit_distributed_transaction \/ commit_participants \/ coordinator_commit
  BY <1>4 DEF commit_distributed_transaction, commit_participants, coordinator_commit
<1>5. CASE \/ coordinator_wait_propagate \/ cleanup_dtran
           \/ \E p \in Participants : check_participant_propagate_timeout_lk(p)
  BY <1>5 DEF coordinator_wait_propagate, check_participant_propagate_timeout_lk, cleanup_dtran
<1>6. CASE coordinator_abort \/ recover_prepared_coordinator \/ disttxn_timeout
  BY <1>6 DEF coordinator_abort, recover_prepared_coordinator, disttxn_timeout
<1> QED BY <1>1, <1>2, <1>3, <1>4, <1>5, <1>6 DEF CoordinatorStep

\* A participant that has voted ends its prepare by the decision it read.
LEMMA ParticipantLogs ==
    ASSUME TypeOK, Promises, NEW p \in Participants, ParticipantStep(p)
    PROVE  KeepsPromise
<1> USE ConstantsAssumption DEF TypeOK, Databases, repl, LogRecord
<1>0. ParticipantAt(p) BY DEF Promises
<1>1. CASE participant_toblock(p)
  <2>1. log[p] = "none" BY <1>0, <1>1 DEF participant_toblock, ParticipantAt
  <2>2. \A q \in Participants : q # p => log'[q] = log[q] BY <1>1 DEF participant_toblock
  <2> QED BY <2>1, <2>2 DEF KeepsPromise
<1>2. CASE participant_prepare(p) \/ send_coordinator_prepared(p) \/ participant_wait(p)
  BY <1>2 DEF participant_prepare, send_coordinator_prepared, participant_wait, KeepsPromise
<1>3. CASE send_coordinator_prepared_find_master(p) \/ participant_wait_end(p) \/ participant_has_propagated(p)
  BY <1>3 DEF send_coordinator_prepared_find_master, participant_wait_end, participant_has_propagated, KeepsPromise
<1>4. CASE participant_commit(p)
  BY <1>0, <1>4 DEF participant_commit, KeepsPromise, ParticipantAt
<1>5. CASE participant_abort(p)
  BY <1>0, <1>5 DEF participant_abort, KeepsPromise, ParticipantAt, Voted
<1> QED BY <1>1, <1>2, <1>3, <1>4, <1>5 DEF ParticipantStep

\* So does the handler that resolves a recovered prepare.
LEMMA ReceiveLogs ==
    ASSUME TypeOK, Promises, NEW p \in Participants, Receive(p)
    PROVE  KeepsPromise
<1> USE ConstantsAssumption DEF TypeOK, Databases, repl, LogRecord
<1>1. ASSUME NEW m \in msgs,
             participant_prepared(p, m) \/ participant_failed(p, m) \/ participant_propagated(p, m)
      PROVE  KeepsPromise
  BY <1>1 DEF participant_prepared, participant_failed, participant_propagated, KeepsPromise
<1>2. ASSUME NEW m \in msgs, coordinator_committed(p, m) PROVE KeepsPromise
  BY <1>2 DEF coordinator_committed, process_disttxn, KeepsPromise, Sent
<1>3. ASSUME NEW m \in msgs, coordinator_aborted(p, m) PROVE KeepsPromise
  BY <1>3 DEF coordinator_aborted, process_disttxn, KeepsPromise, Sent
<1> QED BY <1>1, <1>2, <1>3 DEF Receive

\* A change of master does not lose an announced prepare.
LEMMA EnvironmentLogs ==
    ASSUME TypeOK, Promises, StableGenerations,
           \/ \E d \in Databases : Replicate(d)
           \/ \E d \in Failing : LockDesired(d) \/ Failover(d)
    PROVE  KeepsPromise
<1> USE ConstantsAssumption DEF TypeOK, Databases
<1>1. ASSUME NEW d \in Databases, Replicate(d) \/ LockDesired(d) PROVE KeepsPromise
  BY <1>1 DEF Replicate, LockDesired, KeepsPromise
<1>2. ASSUME NEW h \in Hosts, NEW c \in cand[Coordinator], NewCoordinator(h, c) PROVE KeepsPromise
  BY <1>2 DEF NewCoordinator, NewMaster, KeepsPromise
<1>3. ASSUME NEW p \in Participants, NEW h \in Hosts, NEW c \in cand[p], NewParticipantMaster(p, h, c)
      PROVE  KeepsPromise
  <2>1. ParticipantAt(p) BY DEF Promises
  <2>2. log'[p] = c /\ durableGen[p] /\ \A q \in Participants : q # p => log'[q] = log[q]
    BY <1>3 DEF NewParticipantMaster, NewMaster
  <2> QED BY <2>1, <2>2 DEF KeepsPromise, ParticipantAt, Voted, Kept, Holds
<1> QED BY <1>1, <1>2, <1>3 DEF Failover

\* Under the same assumption, only the coordinator's decision ends a prepare that
\* has been announced (participant_wait_int, txn_abort_recovered).
THEOREM Promise == ASSUME StableGenerations PROVE Spec => PreparedIsPromise
<1> DEFINE IInv == TypeOK /\ Masters /\ Phases /\ CoordinatorAt /\ Decided /\ Promises
<1>1. Init => IInv BY TypeInit, DecidedInit, PromisesInit
<1>2. IInv /\ [Next]_vars => IInv' BY TypeStep, DecidedStep, PromisesStep
<1>3. IInv /\ [Next]_vars => [KeepsPromise]_vars
  <2>1. ASSUME IInv, Next PROVE KeepsPromise
    <3>1. CASE CoordinatorStep \/ disttxn_timeout BY <2>1, <3>1, CoordinatorLogs DEF KeepsPromise
    <3> QED BY <2>1, <3>1, ParticipantLogs, ReceiveLogs, EnvironmentLogs DEF Next
  <2> QED BY <2>1
<1> QED BY <1>1, <1>2, <1>3, PTL DEF Spec, PreparedIsPromise, KeepsPromise
=============================================================================
