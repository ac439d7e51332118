------------------------- MODULE DistTxnRefinement -------------------------
(***************************************************************************)
(* Proof that the two-phase commit implements AtomicCommit.  A step of the *)
(* protocol is one of four things to the abstract specification: words     *)
(* that are no vote, a vote, a record written by a master, which decides   *)
(* nothing by itself, or a log that reaches a quorum, which is where       *)
(* decisions and outcomes happen.                                          *)
(***************************************************************************)
EXTENDS DistTxnUnanimity

\* What the coordinator's log may be without a commit row, and where its own
\* commit record may come from.
CoordinatorLog ==
    /\ cpc \in Undecided => cand[Coordinator] \subseteq {"none", "prep"}
    /\ "commit" \in cand[Coordinator] => AllDist

IInv == TypeOK /\ Masters /\ Phases /\ CoordinatorAt /\ Decided /\ Promises /\ CoordinatorLog

SameVotes == \A p \in Participants : Voted(p)' <=> Voted(p)

\* A step of words that are no vote.
Talks == UNCHANGED cand /\ SameVotes /\ (Sent("ABORT") => Sent("ABORT")')

\* Participant p announces its prepare.
Announces(p) ==
    /\ UNCHANGED cand /\ (Sent("ABORT")' <=> Sent("ABORT"))
    /\ Voted(p)' /\ \A q \in Participants \ {p} : Voted(q)' <=> Voted(q)

\* The master of d adds record r, and nothing that was durable ceases to be.
Keeps(d, r) ==
    /\ IsDurable(d, "commit") => r = "commit"
    /\ IsDurable(d, "abort") => r = "abort"
    /\ d = Coordinator /\ IsDurable(d, "dist") => HasDist(r)
Writes(d, r) ==
    /\ cand'[d] = cand[d] \cup {r} /\ r \in DOMAIN Records
    /\ \A e \in Databases : e # d => cand'[e] = cand[e]
    /\ SameVotes /\ (Sent("ABORT")' <=> Sent("ABORT"))
    /\ Keeps(d, r)

-----------------------------------------------------------------------------
\* The last records that contain a given one.
LEMMA RecordsOf ==
    ASSUME NEW c \in DOMAIN Records
    PROVE  /\ "commit" \in Records[c] <=> c = "commit"
           /\ "abort" \in Records[c] <=> c = "abort"
           /\ "dist" \in Records[c] <=> HasDist(c)
BY DEF Records, HasDist

\* Which logs make a record durable.
LEMMA DurableIs ==
    ASSUME TypeOK, Decided, NEW d \in Databases
    PROVE  /\ IsDurable(d, "commit") <=> cand[d] = {"commit"}
           /\ IsDurable(d, "abort") <=> cand[d] = {"abort"}
           /\ IsDurable(Coordinator, "dist") <=> AllDist
<1>1. cand[d] \subseteq DOMAIN Records /\ cand[Coordinator] \subseteq DOMAIN Records BY DEF TypeOK, Databases
<1>2. log[d] \in cand[d] BY DEF Decided
<1>3. IsDurable(d, "commit") <=> cand[d] = {"commit"} BY <1>1, <1>2, RecordsOf DEF IsDurable
<1>4. IsDurable(d, "abort") <=> cand[d] = {"abort"} BY <1>1, <1>2, RecordsOf DEF IsDurable
<1>5. IsDurable(Coordinator, "dist") <=> AllDist BY <1>1, RecordsOf DEF IsDurable, AllDist
<1> QED BY <1>3, <1>4, <1>5

OutcomeByLogs ==
    \A d \in Databases :
        /\ cand[d] = {"commit"} => Outcome(d) = "committed"
        /\ cand[d] = {"abort"} => Outcome(d) = "aborted"
        /\ cand[d] # {"commit"} /\ cand[d] # {"abort"} => Outcome(d) = "active"
DecisionByLogs ==
    /\ AllDist => Decision = "commit"
    /\ ~AllDist /\ Sent("ABORT") => Decision = "abort"
    /\ ~AllDist /\ ~Sent("ABORT") => Decision = "undecided"
    /\ Sent("ABORT") => ~AllDist

\* Outcomes and the decision, without CASE.
LEMMA ByLogs == TypeOK /\ Decided => OutcomeByLogs /\ DecisionByLogs
<1> SUFFICES ASSUME TypeOK, Decided PROVE OutcomeByLogs /\ DecisionByLogs OBVIOUS
<1>1. OutcomeByLogs BY DurableIs DEF OutcomeByLogs, Outcome
<1>2. Coordinator \in Databases BY DEF Databases
<1>3. IsDurable(Coordinator, "dist") <=> AllDist BY <1>2, DurableIs
<1>4. Sent("ABORT") => ~AllDist BY <1>2 DEF Decided, NoDist, AllDist
<1>5. DecisionByLogs BY <1>3, <1>4 DEF DecisionByLogs, Decision
<1> QED BY <1>1, <1>5

\* The same after a step.
LEMMA ByLogsPrimed == (TypeOK /\ Decided)' => OutcomeByLogs' /\ DecisionByLogs'
BY ByLogs, PTL

-----------------------------------------------------------------------------
(* What the four kinds of steps are in AtomicCommit.                       *)

AbstractVotes == {p \in Participants : \E m \in msgs : m.type = "PREPARED" /\ m.part = p}
AbstractOutcome == [d \in Databases |-> Outcome(d)]

\* The same votes are the same set of votes.
LEMMA VotesAre == ASSUME SameVotes PROVE AbstractVotes' = AbstractVotes
BY DEF SameVotes, Voted, AbstractVotes

\* A step that changes nothing the abstract specification sees.
LEMMA Stutters ==
    ASSUME SameVotes, Decision' = Decision, \A d \in Databases : Outcome(d)' = Outcome(d)
    PROVE  UNCHANGED Atomic!vars
<1>1. AbstractVotes' = AbstractVotes BY VotesAre
<1>2. AbstractOutcome' = AbstractOutcome BY DEF AbstractOutcome
<1> QED BY <1>1, <1>2 DEF Atomic!vars, AbstractVotes, AbstractOutcome

\* Outcomes follow the candidates' logs.
LEMMA SameOutcomes ==
    ASSUME TypeOK, Decided, TypeOK', Decided', NEW d \in Databases,
           cand'[d] = {"commit"} <=> cand[d] = {"commit"},
           cand'[d] = {"abort"} <=> cand[d] = {"abort"}
    PROVE  Outcome(d)' = Outcome(d)
<1>1. OutcomeByLogs /\ OutcomeByLogs' BY ByLogs, ByLogsPrimed
<1> QED BY <1>1 DEF OutcomeByLogs

\* The decision follows the coordinator's candidates and the first ABORT.
LEMMA Decisions ==
    ASSUME TypeOK, Decided, TypeOK', Decided' PROVE DecisionByLogs /\ DecisionByLogs'
BY ByLogs, ByLogsPrimed

\* Words other than a vote: the first ABORT is the decision to abort.
LEMMA TalksMaps ==
    ASSUME TypeOK, Decided, TypeOK', Decided', Talks
    PROVE  [Atomic!Next]_(Atomic!vars)
<1>1. SameVotes /\ (AllDist' <=> AllDist) BY DEF Talks, AllDist
<1>2. \A d \in Databases : Outcome(d)' = Outcome(d) BY SameOutcomes DEF Talks
<1>3. CASE Sent("ABORT")' <=> Sent("ABORT")
  <2>1. Decision' = Decision BY <1>1, <1>3, Decisions DEF DecisionByLogs
  <2> QED BY <1>1, <1>2, <2>1, Stutters
<1>4. CASE Sent("ABORT")' /\ ~Sent("ABORT")
  <2>1. Decision = "undecided" /\ Decision' = "abort" BY <1>1, <1>4, Decisions DEF DecisionByLogs
  <2>2. AbstractVotes' = AbstractVotes /\ AbstractOutcome' = AbstractOutcome
    BY <1>1, <1>2, VotesAre DEF AbstractOutcome
  <2>3. Atomic!Decide("abort") BY <2>1, <2>2 DEF Atomic!Decide, AbstractVotes, AbstractOutcome
  <2> QED BY <2>3 DEF Atomic!Next
<1> QED BY <1>3, <1>4 DEF Talks

\* An announcement is a vote.
LEMMA AnnouncesMaps ==
    ASSUME TypeOK, Decided, TypeOK', Decided', NEW p \in Participants, Announces(p)
    PROVE  [Atomic!Next]_(Atomic!vars)
<1>1. (AllDist' <=> AllDist) /\ (Sent("ABORT")' <=> Sent("ABORT")) BY DEF Announces, AllDist
<1>2. \A d \in Databases : Outcome(d)' = Outcome(d) BY SameOutcomes DEF Announces
<1>3. Decision' = Decision BY <1>1, Decisions DEF DecisionByLogs
<1>4. AbstractVotes' = AbstractVotes \cup {p} BY DEF Announces, Voted, AbstractVotes
<1>5. AbstractOutcome' = AbstractOutcome BY <1>2 DEF AbstractOutcome
<1>6. Atomic!Vote(p) BY <1>3, <1>4, <1>5 DEF Atomic!Vote, AbstractVotes, AbstractOutcome
<1> QED BY <1>6 DEF Atomic!Next

\* A record that a master writes is not durable yet, and unsettles nothing.
LEMMA WritesMaps ==
    ASSUME TypeOK, Decided, TypeOK', Decided', NEW d \in Databases, NEW r, Writes(d, r)
    PROVE  UNCHANGED Atomic!vars
<1>1. SameVotes /\ (Sent("ABORT")' <=> Sent("ABORT")) BY DEF Writes
<1>2. ASSUME NEW e \in Databases PROVE Outcome(e)' = Outcome(e)
  <2>1. log[e] \in cand[e] BY DEF Decided
  <2>2. (IsDurable(d, "commit") <=> cand[d] = {"commit"}) /\ (IsDurable(d, "abort") <=> cand[d] = {"abort"})
    BY DurableIs
  <2>3. /\ cand'[e] = {"commit"} <=> cand[e] = {"commit"}
        /\ cand'[e] = {"abort"} <=> cand[e] = {"abort"}
    BY <2>1, <2>2 DEF Writes, Keeps
  <2> QED BY <2>3, SameOutcomes
<1>3. AllDist' <=> AllDist
  <2>1. Coordinator \in Databases BY DEF Databases
  <2>2. IsDurable(Coordinator, "dist") <=> AllDist BY <2>1, DurableIs
  <2> QED BY <2>1, <2>2 DEF Writes, Keeps, AllDist
<1>4. Decision' = Decision BY <1>1, <1>3, Decisions DEF DecisionByLogs
<1> QED BY <1>1, <1>2, <1>4, Stutters

\* A database's commit or abort record becomes durable: its outcome.
LEMMA Finishes ==
    ASSUME TypeOK, Decided, TypeOK', Decided', NEW d \in Databases, NEW r \in {"commit", "abort"},
           cand'[d] = {r}, cand[d] \notin {{"commit"}, {"abort"}},
           \A e \in Databases : e # d => cand'[e] = cand[e],
           SameVotes, Decision' = Decision, r = "commit" <=> AllDist
    PROVE  [Atomic!Next]_(Atomic!vars)
<1> DEFINE o == IF r = "commit" THEN "committed" ELSE "aborted"
<1>1. DecisionByLogs /\ OutcomeByLogs /\ OutcomeByLogs' BY ByLogs, ByLogsPrimed
<1>2. Outcome(d) = "active" /\ Outcome(d)' = o BY <1>1 DEF OutcomeByLogs
<1>3. \A e \in Databases : e # d => Outcome(e)' = Outcome(e) BY SameOutcomes
<1>4. AbstractOutcome[d] = "active" /\ AbstractOutcome' = [AbstractOutcome EXCEPT ![d] = o]
  BY <1>2, <1>3 DEF AbstractOutcome
<1>5. (o = "committed" => Decision = "commit") /\ (o = "aborted" => Decision # "commit")
  BY <1>1 DEF DecisionByLogs
<1>6. AbstractVotes' = AbstractVotes BY VotesAre
<1> HIDE DEF o
<1>7. Atomic!Finish(d, o)
  BY <1>4, <1>5, <1>6 DEF Atomic!Finish, AbstractVotes, AbstractOutcome
<1>8. o \in {"committed", "aborted"} BY DEF o
<1> QED BY <1>7, <1>8 DEF Atomic!Next, Databases

\* A log that reaches a quorum: the row in it is the decision to commit, and the
\* commit or abort record in it the database's outcome.
LEMMA ReplicateMaps ==
    ASSUME IInv, TypeOK', Decided', NEW d \in Databases, Replicate(d)
    PROVE  [Atomic!Next]_(Atomic!vars)
<1> USE DEF IInv
<1>1. /\ cand'[d] = {log[d]} /\ \A e \in Databases : e # d => cand'[e] = cand[e]
      /\ UNCHANGED msgs
  BY DEF Replicate, TypeOK
<1>2. SameVotes /\ (Sent("ABORT")' <=> Sent("ABORT")) BY <1>1 DEF SameVotes, Voted, Sent
<1>3. log[d] \in cand[d] BY DEF Decided
<1>4. ASSUME AllDist' <=> AllDist, log[d] \in {"commit", "abort"} => (log[d] = "commit" <=> AllDist)
      PROVE  [Atomic!Next]_(Atomic!vars)
  <2>1. Decision' = Decision BY <1>2, <1>4, Decisions DEF DecisionByLogs
  <2>2. CASE log[d] \in {"commit", "abort"} /\ cand[d] # {log[d]}
    <3>1. cand[d] \notin {{"commit"}, {"abort"}} BY <1>3, <2>2
    <3> QED BY <1>1, <1>2, <1>4, <2>1, <2>2, <3>1, Finishes
  <2>3. CASE log[d] \notin {"commit", "abort"} \/ cand[d] = {log[d]}
    <3>1. ASSUME NEW e \in Databases PROVE Outcome(e)' = Outcome(e)
      <4>1. /\ cand'[e] = {"commit"} <=> cand[e] = {"commit"}
            /\ cand'[e] = {"abort"} <=> cand[e] = {"abort"}
        BY <1>1, <1>3, <2>3
      <4> QED BY <4>1, SameOutcomes
    <3> QED BY <1>2, <2>1, <3>1, Stutters
  <2> QED BY <2>2, <2>3
<1>5. CASE d = Coordinator
  <2>1. AllDist' <=> HasDist(log[d]) BY <1>1, <1>5 DEF AllDist
  <2>2. CASE AllDist' <=> AllDist
    <3>1. log[d] = "commit" => AllDist BY <1>3, <1>5 DEF CoordinatorLog
    <3>2. log[d] = "abort" => ~AllDist BY <1>3, <1>5 DEF AllDist, HasDist
    <3> QED BY <1>4, <2>2, <3>1, <3>2
  <2>3. CASE AllDist' /\ ~AllDist
    <3>1. log[d] = "dist" BY <1>3, <1>5, <2>1, <2>3 DEF CoordinatorLog, HasDist
    <3>2. ~NoDist BY <1>3, <1>5, <3>1 DEF NoDist, HasDist
    <3>3. ~Sent("ABORT") BY <3>2 DEF Decided
    <3>4. AbstractVotes = Participants BY <3>2 DEF Promises, Voted, AbstractVotes
    <3>5. Decision = "undecided" /\ Decision' = "commit" BY <2>3, <3>3, Decisions DEF DecisionByLogs
    <3>6. ASSUME NEW e \in Databases PROVE Outcome(e)' = Outcome(e)
      <4>1. /\ cand'[e] = {"commit"} <=> cand[e] = {"commit"}
            /\ cand'[e] = {"abort"} <=> cand[e] = {"abort"}
        BY <1>1, <1>3, <3>1
      <4> QED BY <4>1, SameOutcomes
    <3>7. AbstractVotes' = AbstractVotes /\ AbstractOutcome' = AbstractOutcome
      BY <1>2, <3>6, VotesAre DEF AbstractOutcome
    <3>8. Atomic!Decide("commit") BY <3>4, <3>5, <3>7 DEF Atomic!Decide, AbstractVotes, AbstractOutcome
    <3> QED BY <3>8 DEF Atomic!Next
  <2>4. AllDist => AllDist' BY <1>3, <1>5, <2>1 DEF AllDist
  <2> QED BY <2>2, <2>3, <2>4
<1>6. CASE d # Coordinator
  <2>1. d \in Participants /\ Coordinator \in Databases BY <1>6 DEF Databases
  <2>2. AllDist' <=> AllDist BY <1>1, <1>6, <2>1 DEF AllDist
  <2>3. ParticipantAt(d) BY <2>1 DEF Promises
  <2>4. log[d] = "commit" => AllDist BY <1>3, <2>3 DEF ParticipantAt, Decided
  <2>5. AllDist => log[d] # "abort"
    <3>1. AllDist => ~NoDist BY <2>1 DEF AllDist, NoDist, Decided
    <3>2. AllDist => Voted(d) /\ ~Sent("ABORT") BY <2>1, <3>1 DEF Promises, Decided
    <3> QED BY <2>3, <3>2 DEF ParticipantAt, Holds
  <2> QED BY <1>4, <2>2, <2>4, <2>5
<1> QED BY <1>5, <1>6

-----------------------------------------------------------------------------
(* Every step is one of the four kinds.                                    *)

Mapped == \/ Talks
          \/ \E p \in Participants : Announces(p)
          \/ \E d \in Databases, r \in DOMAIN Records : Writes(d, r)

\* A step that writes no record and says no vote.
LEMMA OnlyTalks ==
    ASSUME UNCHANGED cand, Monotone, \A m \in msgs' : m.type = "PREPARED" => m \in msgs
    PROVE  Talks
<1>1. SameVotes BY DEF SameVotes, Voted, Monotone
<1>2. Sent("ABORT") => Sent("ABORT")' BY DEF Sent, Monotone
<1> QED BY <1>1, <1>2 DEF Talks

\* A step that writes a record and says nothing.
LEMMA OnlyWrites ==
    ASSUME TypeOK, NEW d \in Databases, NEW r \in DOMAIN Records, LogRecord(d, r), UNCHANGED msgs, Keeps(d, r)
    PROVE  Writes(d, r)
<1>1. SameVotes /\ (Sent("ABORT")' <=> Sent("ABORT")) BY DEF SameVotes, Voted, Sent
<1> QED BY <1>1, LogRecordEffect DEF Writes

\* What a master of the coordinator database may write without unsettling anything.
LEMMA CoordinatorKeeps ==
    ASSUME IInv, NEW r \in DOMAIN Records,
           \/ r \in {"prep", "dist"} /\ cpc \in Undecided
           \/ r = "commit" /\ AllDist
           \/ r = "abort" /\ NoDist
    PROVE  Keeps(Coordinator, r)
<1> USE DEF IInv
<1>1. Coordinator \in Databases /\ log[Coordinator] \in cand[Coordinator] BY DEF Databases, Decided
<1>2. /\ IsDurable(Coordinator, "commit") <=> cand[Coordinator] = {"commit"}
      /\ IsDurable(Coordinator, "abort") <=> cand[Coordinator] = {"abort"}
      /\ IsDurable(Coordinator, "dist") <=> AllDist
  BY <1>1, DurableIs
<1>3. CASE r \in {"prep", "dist"} /\ cpc \in Undecided
  <2>1. cand[Coordinator] \subseteq {"none", "prep"} BY <1>3 DEF CoordinatorLog
  <2> QED BY <1>1, <1>2, <2>1 DEF Keeps, AllDist, HasDist
<1>4. CASE r = "commit" /\ AllDist BY <1>1, <1>2, <1>4 DEF Keeps, AllDist, HasDist
<1>5. CASE r = "abort" /\ NoDist BY <1>1, <1>2, <1>5 DEF Keeps, AllDist, NoDist, HasDist
<1> QED BY <1>3, <1>4, <1>5

\* What a participant's master may write.
LEMMA ParticipantKeeps ==
    ASSUME IInv, NEW p \in Participants, NEW r \in DOMAIN Records,
           \/ r = "prep" /\ cand[p] = {"none"}
           \/ r = "commit" /\ Holds(p)
           \/ r = "abort" /\ (~Voted(p) \/ Sent("ABORT"))
    PROVE  Keeps(p, r)
<1> USE DEF IInv
<1>1. p \in Databases /\ p # Coordinator /\ log[p] \in cand[p] /\ ParticipantAt(p)
  BY ConstantsAssumption DEF Databases, Decided, Promises
<1>2. /\ IsDurable(p, "commit") <=> cand[p] = {"commit"}
      /\ IsDurable(p, "abort") <=> cand[p] = {"abort"}
  BY <1>1, DurableIs
<1>3. CASE r = "prep" /\ cand[p] = {"none"} BY <1>1, <1>2, <1>3 DEF Keeps
<1>4. CASE r = "commit" /\ Holds(p) BY <1>1, <1>2, <1>4 DEF Keeps, Holds
<1>5. CASE r = "abort" /\ (~Voted(p) \/ Sent("ABORT"))
  <2>1. NoDist
    <3>1. CASE Sent("ABORT") BY <3>1 DEF Decided
    <3>2. CASE ~Voted(p) BY <3>2 DEF Promises
    <3> QED BY <1>5, <3>1, <3>2
  <2>2. ~AllDist
    <3>1. log[Coordinator] \in cand[Coordinator] BY DEF Decided, Databases
    <3> QED BY <2>1, <3>1 DEF AllDist, NoDist
  <2>3. cand[p] # {"commit"} BY <1>1, <2>2 DEF ParticipantAt, Decided
  <2> QED BY <1>1, <1>2, <1>5, <2>3 DEF Keeps
<1> QED BY <1>3, <1>4, <1>5

\* A step of the coordinator's block processor or handlers that writes no record.
Speaks ==
    /\ UNCHANGED cand /\ Monotone
    /\ \A m \in msgs' : m.type = "PREPARED" => m \in msgs
    /\ cpc' \in Undecided => cpc \in Undecided

\* The coordinator's log changes with its own records only.
LEMMA LogFrame ==
    ASSUME CoordinatorLog, cand'[Coordinator] = cand[Coordinator], cpc' \in Undecided => cpc \in Undecided
    PROVE  CoordinatorLog'
BY DEF CoordinatorLog, AllDist

\* A step that only sends votes or questions is a stutter of the abstract protocol.
LEMMA SpeaksMaps == ASSUME IInv, Speaks PROVE Mapped /\ CoordinatorLog'
<1>1. Talks BY OnlyTalks DEF Speaks
<1>2. CoordinatorLog' BY LogFrame DEF Speaks, IInv
<1> QED BY <1>1, <1>2 DEF Mapped

\* A record of the coordinator's.
LEMMA CoordinatorWrites ==
    ASSUME IInv, NEW r \in DOMAIN Records, LogRecord(Coordinator, r), UNCHANGED msgs,
           \/ r \in {"prep", "dist"} /\ cpc \in Undecided
           \/ r = "commit" /\ AllDist
           \/ r = "abort" /\ NoDist,
           cpc' \in Undecided => cpc \in Undecided /\ r = "prep"
    PROVE  Mapped /\ CoordinatorLog'
<1> USE DEF IInv
<1>1. Coordinator \in Databases BY DEF Databases
<1>2. Keeps(Coordinator, r) BY CoordinatorKeeps
<1>3. Writes(Coordinator, r) BY <1>1, <1>2, OnlyWrites
<1>4. cand'[Coordinator] = cand[Coordinator] \cup {r} BY <1>1, LogRecordEffect
<1>5. CoordinatorLog' BY <1>4 DEF CoordinatorLog, AllDist, NoDist, HasDist
<1> QED BY <1>1, <1>3, <1>5 DEF Mapped

\* The coordinator's steps.
LEMMA CoordinatorMaps ==
    ASSUME IInv, CoordinatorStep \/ disttxn_timeout
    PROVE  Mapped /\ CoordinatorLog'
<1> USE RecordNames DEF repl, coord, parts
<1> DEFINE G == Mapped /\ CoordinatorLog'
<1>1. ASSUME collect_participants PROVE G
  <2>1. Speaks BY <1>1 DEF collect_participants, Speaks, Monotone, Undecided
  <2> QED BY <2>1, SpeaksMaps
<1>2. ASSUME dispatch_participants PROVE G
  <2>1. Speaks BY <1>2 DEF dispatch_participants, Speaks, Monotone, Undecided
  <2> QED BY <2>1, SpeaksMaps
<1>3. ASSUME prepare_participants_done PROVE G
  <2>1. Speaks BY <1>3 DEF prepare_participants_done, Speaks, Monotone, Undecided
  <2> QED BY <2>1, SpeaksMaps
<1>4. ASSUME coordinator_toblock PROVE G
  <2>1. cpc = "running" BY <1>4 DEF coordinator_toblock
  <2>2. CASE LogRecord(Coordinator, "prep") /\ cpc' = "logged" /\ UNCHANGED msgs
    BY <2>1, <2>2, CoordinatorWrites DEF Undecided
  <2>3. CASE UNCHANGED repl
    <3>1. Speaks BY <1>4, <2>1, <2>3, AbortMsgsAre DEF coordinator_toblock, coordinator_failed, Speaks, Monotone, Undecided
    <3> QED BY <3>1, SpeaksMaps
  <2> QED BY <1>4, <2>2, <2>3 DEF coordinator_toblock
<1>5. ASSUME coordinator_prepare PROVE G
  <2>1. Speaks BY <1>5, AbortMsgsAre DEF coordinator_prepare, coordinator_failed, Speaks, Monotone, Undecided
  <2> QED BY <2>1, SpeaksMaps
<1>6. ASSUME coordinator_wait PROVE G
  <2>1. Speaks BY <1>6 DEF coordinator_wait, Speaks, Monotone, Undecided
  <2> QED BY <2>1, SpeaksMaps
<1>7. ASSUME coordinator_wait_end PROVE G
  <2>1. Speaks BY <1>7, AbortMsgsAre DEF coordinator_wait_end, Speaks, Monotone, Undecided
  <2> QED BY <2>1, SpeaksMaps
<1>8. ASSUME commit_distributed_transaction PROVE G
  <2>1. cpc = "write" BY <1>8 DEF commit_distributed_transaction
  <2>2. CASE LogRecord(Coordinator, "dist") /\ cpc' = "written" /\ UNCHANGED msgs
    BY <2>1, <2>2, CoordinatorWrites DEF Undecided
  <2>3. CASE UNCHANGED repl /\ cpc' = "abort" /\ msgs' = msgs \cup AbortMsgs(status, FALSE)
    <3>1. Speaks BY <2>3, AbortMsgsAre DEF Speaks, Monotone, Undecided
    <3> QED BY <3>1, SpeaksMaps
  <2> QED BY <1>8, <2>2, <2>3 DEF commit_distributed_transaction
<1>9. ASSUME commit_participants PROVE G
  <2>1. Speaks BY <1>9 DEF commit_participants, CommitMsg, Speaks, Monotone, Undecided
  <2> QED BY <2>1, SpeaksMaps
<1>10. ASSUME coordinator_commit PROVE G
  <2>1. LogRecord(Coordinator, "commit") /\ cpc' = "propagate" /\ UNCHANGED msgs BY <1>10 DEF coordinator_commit
  <2>2. AllDist BY <1>10 DEF coordinator_commit, IInv, Decided
  <2> QED BY <2>1, <2>2, CoordinatorWrites DEF Undecided
<1>11. ASSUME coordinator_wait_propagate PROVE G
  <2>1. Speaks BY <1>11 DEF coordinator_wait_propagate, Speaks, Monotone, Undecided
  <2> QED BY <2>1, SpeaksMaps
<1>12. ASSUME cleanup_dtran PROVE G
  <2>1. Speaks BY <1>12 DEF cleanup_dtran, Speaks, Monotone, Undecided
  <2> QED BY <2>1, SpeaksMaps
<1>13. ASSUME coordinator_abort PROVE G
  <2>1. cpc' = "done" /\ UNCHANGED msgs BY <1>13 DEF coordinator_abort
  <2>2. CASE LogRecord(Coordinator, "abort")
    <3>1. NoDist BY <1>13 DEF coordinator_abort, IInv, Decided
    <3> QED BY <2>1, <2>2, <3>1, CoordinatorWrites DEF Undecided
  <2>3. CASE UNCHANGED repl
    <3>1. Speaks BY <2>1, <2>3 DEF Speaks, Monotone, Undecided
    <3> QED BY <3>1, SpeaksMaps
  <2> QED BY <1>13, <2>2, <2>3 DEF coordinator_abort
<1>14. ASSUME recover_prepared_coordinator PROVE G
  <2>1. cpc' = "done" /\ UNCHANGED msgs BY <1>14 DEF recover_prepared_coordinator
  <2>2. state = "none" BY <1>14 DEF recover_prepared_coordinator, IInv, CoordinatorAt
  <2>3. CASE transaction_has_committed = "HAS_COMMITTED" /\ LogRecord(Coordinator, "commit")
    <3>1. AllDist BY <2>2, <2>3, HasCommitted DEF IInv, Decided
    <3> QED BY <2>1, <2>3, <3>1, CoordinatorWrites DEF Undecided
  <2>4. CASE transaction_has_committed = "HAS_ABORTED" /\ LogRecord(Coordinator, "abort")
    <3>1. NoDist BY <2>2, <2>4, HasCommitted DEF IInv, Decided
    <3> QED BY <2>1, <2>4, <3>1, CoordinatorWrites DEF Undecided
  <2> QED BY <1>14, <2>3, <2>4 DEF recover_prepared_coordinator
<1>15. ASSUME NEW p \in Participants, check_participant_propagate_timeout_lk(p) PROVE G
  <2>1. Speaks BY <1>15 DEF check_participant_propagate_timeout_lk, Speaks, Monotone
  <2> QED BY <2>1, SpeaksMaps
<1>16. ASSUME disttxn_timeout PROVE G
  <2>1. Speaks BY <1>16, AbortMsgsAre DEF disttxn_timeout, Speaks, Monotone
  <2> QED BY <2>1, SpeaksMaps
<1>17. ASSUME NEW p \in Participants, send_prepare_message(p) PROVE G
  <2>1. Speaks BY <1>17 DEF send_prepare_message, Speaks, Monotone
  <2> QED BY <2>1, SpeaksMaps
<1>18. ASSUME NEW p \in Participants, prepare_participants_fail(p) PROVE G
  <2>1. Speaks BY <1>18, AbortMsgsAre DEF prepare_participants_fail, Speaks, Monotone, Undecided
  <2> QED BY <2>1, SpeaksMaps
<1> QED BY <1>1, <1>2, <1>3, <1>4, <1>5, <1>6, <1>7, <1>8, <1>9, <1>10, <1>11, <1>12, <1>13, <1>14, <1>15,
           <1>16, <1>17, <1>18 DEF CoordinatorStep

\* A record of a participant's.
LEMMA ParticipantWrites ==
    ASSUME IInv, NEW p \in Participants, NEW r \in DOMAIN Records, LogRecord(p, r), UNCHANGED <<msgs, cpc>>,
           \/ r = "prep" /\ cand[p] = {"none"}
           \/ r = "commit" /\ Holds(p)
           \/ r = "abort" /\ (~Voted(p) \/ Sent("ABORT"))
    PROVE  Mapped /\ CoordinatorLog'
<1>1. p \in Databases /\ Coordinator \in Databases /\ p # Coordinator BY ConstantsAssumption DEF Databases
<1>2. Writes(p, r) BY <1>1, ParticipantKeeps, OnlyWrites DEF IInv
<1>3. CoordinatorLog' BY <1>1, LogRecordEffect, LogFrame DEF IInv
<1> QED BY <1>1, <1>2, <1>3 DEF Mapped

\* A participant announces its prepare.
LEMMA AnnouncesOnce ==
    ASSUME IInv, NEW p \in Participants, NEW to, UNCHANGED <<cand, cpc>>, msgs' = msgs \cup {PreparedMsg(p, to)}
    PROVE  Mapped /\ CoordinatorLog'
<1>1. PreparedMsg(p, to).type = "PREPARED" /\ PreparedMsg(p, to).part = p BY DEF PreparedMsg
<1>2. Announces(p) BY <1>1 DEF Announces, Voted, Sent
<1>3. CoordinatorLog' BY LogFrame DEF IInv
<1> QED BY <1>2, <1>3 DEF Mapped

\* A participant's steps.
LEMMA ParticipantMaps ==
    ASSUME IInv, NEW p \in Participants, ParticipantStep(p)
    PROVE  Mapped /\ CoordinatorLog'
<1> USE RecordNames DEF repl, coord, parts
<1> DEFINE G == Mapped /\ CoordinatorLog'
<1>0. ParticipantAt(p) BY DEF IInv, Promises
<1>1. ASSUME participant_toblock(p) PROVE G
  <2>1. UNCHANGED cpc /\ cand[p] = {"none"} BY <1>0, <1>1 DEF participant_toblock, ParticipantAt
  <2>2. CASE LogRecord(p, "prep") /\ UNCHANGED msgs BY <2>1, <2>2, ParticipantWrites
  <2>3. CASE UNCHANGED repl /\ \E rc \in {"retry", "fatal"} : participant_has_failed(p, rc)
    <3>1. Speaks BY <2>1, <2>3 DEF participant_has_failed, FailedMsg, Speaks, Monotone
    <3> QED BY <3>1, SpeaksMaps
  <2> QED BY <1>1, <2>2, <2>3 DEF participant_toblock
<1>2. ASSUME participant_prepare(p) PROVE G
  <2>1. Speaks BY <1>2 DEF participant_prepare, participant_has_failed, FailedMsg, Speaks, Monotone
  <2> QED BY <2>1, SpeaksMaps
<1>3. ASSUME send_coordinator_prepared(p) PROVE G
  BY <1>3, AnnouncesOnce DEF send_coordinator_prepared
<1>4. ASSUME participant_wait(p) PROVE G
  <2>1. Speaks BY <1>4 DEF participant_wait, Speaks, Monotone
  <2> QED BY <2>1, SpeaksMaps
<1>5. ASSUME send_coordinator_prepared_find_master(p) PROVE G
  BY <1>5, AnnouncesOnce DEF send_coordinator_prepared_find_master
<1>6. ASSUME participant_wait_end(p) PROVE G
  <2>1. Speaks BY <1>6 DEF participant_wait_end, Speaks, Monotone
  <2> QED BY <2>1, SpeaksMaps
<1>7. ASSUME participant_commit(p) PROVE G
  BY <1>0, <1>7, ParticipantWrites DEF participant_commit, ParticipantAt
<1>8. ASSUME participant_has_propagated(p) PROVE G
  <2>1. Speaks BY <1>8 DEF participant_has_propagated, PropagatedMsg, Speaks, Monotone
  <2> QED BY <2>1, SpeaksMaps
<1>9. ASSUME participant_abort(p) PROVE G
  BY <1>0, <1>9, ParticipantWrites DEF participant_abort, ParticipantAt
<1> QED BY <1>1, <1>2, <1>3, <1>4, <1>5, <1>6, <1>7, <1>8, <1>9 DEF ParticipantStep

\* A message is handled.
LEMMA ReceiveMaps ==
    ASSUME IInv, NEW p \in Participants, Receive(p)
    PROVE  Mapped /\ CoordinatorLog'
<1> USE RecordNames DEF repl, coord, parts
<1> DEFINE G == Mapped /\ CoordinatorLog'
<1>0. ParticipantAt(p) BY DEF IInv, Promises
<1>1. ASSUME NEW m \in msgs, participant_prepared(p, m) PROVE G
  <2>1. AbortMsg(p, m.from).type = "ABORT" /\ CommitMsg(p, m.from).type = "COMMIT" BY DEF AbortMsg, CommitMsg
  <2>2. Speaks BY <1>1, <2>1 DEF participant_prepared, Speaks, Monotone
  <2> QED BY <2>2, SpeaksMaps
<1>2. ASSUME NEW m \in msgs, participant_failed(p, m) PROVE G
  <2>1. Speaks BY <1>2, AbortMsgsAre DEF participant_failed, Speaks, Monotone
  <2> QED BY <2>1, SpeaksMaps
<1>3. ASSUME NEW m \in msgs, participant_propagated(p, m) PROVE G
  <2>1. Speaks BY <1>3 DEF participant_propagated, Speaks, Monotone
  <2> QED BY <2>1, SpeaksMaps
<1>4. ASSUME NEW m \in msgs, coordinator_committed(p, m) PROVE G
  <2>1. UNCHANGED <<msgs, cpc>> BY <1>4 DEF coordinator_committed
  <2>2. CASE LogRecord(p, "commit") /\ ppc[p] = "recovered"
    <3>1. Holds(p) BY <1>0, <2>2 DEF ParticipantAt
    <3> QED BY <2>1, <2>2, <3>1, ParticipantWrites
  <2>3. CASE UNCHANGED repl
    <3>1. Speaks BY <2>1, <2>3 DEF Speaks, Monotone
    <3> QED BY <3>1, SpeaksMaps
  <2> QED BY <1>4, <2>2, <2>3 DEF coordinator_committed
<1>5. ASSUME NEW m \in msgs, coordinator_aborted(p, m) PROVE G
  <2>1. UNCHANGED <<msgs, cpc>> /\ Sent("ABORT") BY <1>5 DEF coordinator_aborted, Sent
  <2>2. CASE LogRecord(p, "abort") BY <2>1, <2>2, ParticipantWrites
  <2>3. CASE UNCHANGED repl
    <3>1. Speaks BY <2>1, <2>3 DEF Speaks, Monotone
    <3> QED BY <3>1, SpeaksMaps
  <2> QED BY <1>5, <2>2, <2>3 DEF coordinator_aborted
<1> QED BY <1>1, <1>2, <1>3, <1>4, <1>5 DEF Receive

\* Replication and changes of master.
LEMMA EnvironmentMaps ==
    ASSUME IInv, \/ \E d \in Databases : Replicate(d)
                 \/ \E d \in Failing : LockDesired(d) \/ Failover(d)
    PROVE  (Mapped \/ \E d \in Databases : Replicate(d)) /\ CoordinatorLog'
<1> USE DEF repl, coord, parts
<1>1. ASSUME NEW d \in Databases, Replicate(d) PROVE CoordinatorLog'
  <2>1. UNCHANGED cpc BY <1>1 DEF Replicate
  <2>2. Coordinator \in Databases /\ log[Coordinator] \in cand[Coordinator] BY DEF Databases, IInv, Decided
  <2>3. cand'[Coordinator] \in {cand[Coordinator], {log[Coordinator]}}
    BY <1>1, <2>2 DEF Replicate, IInv, TypeOK
  <2> QED BY <2>1, <2>2, <2>3 DEF IInv, CoordinatorLog, AllDist, HasDist
<1>2. ASSUME NEW d \in Databases, LockDesired(d) PROVE Mapped /\ CoordinatorLog'
  <2>1. Speaks BY <1>2 DEF LockDesired, Speaks, Monotone
  <2> QED BY <2>1, SpeaksMaps
<1>3. ASSUME NEW h \in Hosts, NEW c \in cand[Coordinator], NewCoordinator(h, c) PROVE Mapped /\ CoordinatorLog'
  <2>1. Speaks BY <1>3 DEF NewCoordinator, NewMaster, Speaks, Monotone, Undecided
  <2> QED BY <2>1, SpeaksMaps
<1>4. ASSUME NEW p \in Participants, NEW h \in Hosts, NEW c \in cand[p], NewParticipantMaster(p, h, c)
      PROVE  Mapped /\ CoordinatorLog'
  <2>1. Speaks BY <1>4 DEF NewParticipantMaster, NewMaster, Speaks, Monotone
  <2> QED BY <2>1, SpeaksMaps
<1> QED BY <1>1, <1>2, <1>3, <1>4, ConstantsAssumption DEF Failover, Databases

-----------------------------------------------------------------------------
\* The invariant of the refinement is inductive.
LEMMA RefinementInvariant ==
    ASSUME StableGenerations
    PROVE  (Init => IInv) /\ (IInv /\ [Next]_vars => IInv')
<1>1. Init => IInv
  <2>1. Init => CoordinatorLog BY DEF Init, CoordinatorLog, Databases
  <2> QED BY <2>1, TypeInit, DecidedInit, PromisesInit DEF IInv
<1>2. ASSUME IInv, [Next]_vars PROVE CoordinatorLog'
  <2>1. CASE UNCHANGED vars BY <1>2, <2>1, LogFrame DEF vars, repl, coord, IInv
  <2> QED BY <1>2, <2>1, CoordinatorMaps, ParticipantMaps, ReceiveMaps, EnvironmentMaps DEF Next
<1>3. IInv /\ [Next]_vars => IInv'
  BY <1>2, TypeStep, DecidedStep, PromisesStep DEF IInv
<1> QED BY <1>1, <1>3

\* Every step is a step of AtomicCommit, or none.
LEMMA StepMaps ==
    ASSUME IInv, IInv', Next
    PROVE  [Atomic!Next]_(Atomic!vars)
<1> USE DEF IInv
<1>1. CASE \E d \in Databases : Replicate(d) BY <1>1, ReplicateMaps
<1>2. CASE Mapped BY <1>2, TalksMaps, AnnouncesMaps, WritesMaps DEF Mapped
<1> QED BY <1>1, <1>2, CoordinatorMaps, ParticipantMaps, ReceiveMaps, EnvironmentMaps DEF Next

\* When a group's generation is durable before its next change of master, the
\* protocol of disttxn.c is an atomic commitment: whatever the interleaving of
\* votes, timeouts, answers and new masters, there is one decision, to commit only
\* after every participant announced its prepare, and the durable outcomes agree
\* with it and stay.
THEOREM Refinement == ASSUME StableGenerations PROVE Spec => ImplementsAtomicCommit
<1>1. Init => Atomic!Init
  <2> SUFFICES ASSUME Init PROVE Atomic!Init OBVIOUS
  <2>1. IInv BY RefinementInvariant
  <2>2. OutcomeByLogs /\ DecisionByLogs BY <2>1, ByLogs DEF IInv
  <2>3. \A d \in Databases : cand[d] = {"none"} BY DEF Init
  <2>4. \A d \in Databases : Outcome(d) = "active" BY <2>2, <2>3 DEF OutcomeByLogs
  <2>5. Decision = "undecided"
    <3>1. ~AllDist BY <2>3 DEF AllDist, HasDist, Databases
    <3>2. ~Sent("ABORT") BY DEF Init, Sent
    <3> QED BY <2>2, <3>1, <3>2 DEF DecisionByLogs
  <2>6. msgs = {} BY DEF Init
  <2> QED BY <2>4, <2>5, <2>6 DEF Atomic!Init, Databases
<1>2. IInv /\ IInv' /\ [Next]_vars => [Atomic!Next]_(Atomic!vars)
  <2>1. CASE UNCHANGED vars
    <3>1. UNCHANGED <<cand, msgs>> BY <2>1 DEF vars, repl
    <3>2. UNCHANGED Atomic!vars BY <3>1 DEF Atomic!vars, Decision, Outcome, IsDurable, Sent
    <3> QED BY <3>2
  <2> QED BY <2>1, StepMaps
<1> QED BY <1>1, <1>2, RefinementInvariant, PTL DEF Spec, ImplementsAtomicCommit, Atomic!Spec
=============================================================================
