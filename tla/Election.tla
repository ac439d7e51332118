------------------------------ MODULE Election ------------------------------
(***************************************************************************)
(* Elections of a master and the durability of its commits                 *)
(* (berkdb/rep/rep_method.c, rep_record.c, rep_util.c, bdb/rep.c).         *)
(*                                                                         *)
(* Nodes exchange VOTE1 (here is my log), choose a winner among the votes  *)
(* of a majority, and send it their VOTE2; the node with the VOTE2 of a    *)
(* majority becomes the master of the generation that is the election's    *)
(* egen.  Nodes that hear of a master truncate their logs to what they     *)
(* share with it, apply its records and acknowledge its commits; a commit  *)
(* is durable when half of the nodes have it (durable_target).             *)
(*                                                                         *)
(* An LSN is an index of the log, a record the generation and master that  *)
(* wrote it.  Of the records only commits and the checkpoint of a new      *)
(* generation are kept: they are what elections compare and logs are       *)
(* matched on.  The number of sites is that of the sanctioned nodes.       *)
(***************************************************************************)
EXTENDS Integers, Sequences, FiniteSets, SequencesExt

CONSTANTS Node,         \* sanctioned nodes
          None,         \* db_eid_invalid
          First,        \* the master of generation 1
          TieBreaker,   \* the random tiebreakers a candidate may draw
          Connected,    \* the numbers of connected voters a node may count
          Candidates,   \* bound: the nodes that hold elections
          MaxEgen,      \* bound: no candidate begins an election past it
          MaxLog,       \* bound: no commit makes a log longer
          MaxRestarts   \* bound: restarts of nodes

ASSUME ElectionAssumption ==
    /\ IsFiniteSet(Node) /\ First \in Node /\ None \notin Node
    /\ Candidates \subseteq Node
    /\ TieBreaker \subseteq Nat /\ Connected \subseteq Nat
    /\ {MaxEgen, MaxLog, MaxRestarts} \subseteq Nat

VARIABLES rep,        \* REP of every node
          thr,        \* the election thread of every node: place and its egen
          upgrading,  \* the generation of a bdb_upgrade that waits for the bdb lock, or 0
          log,        \* the log of every node
          committed,  \* rep->committed_lsn: an index of the log
          msgs,       \* votes on their way
          stream,     \* <<m, g>> |-> the log of m as the master of generation g
          acks,       \* <<m, g>> |-> the last commit every node acknowledged to it
          durable,    \* commits that were reported durable
          voted,      \* the VOTE2s every node has cast (a history)
          last_egen,  \* the last egen a node stood in, since it started
          restarts

vars == <<rep, thr, upgrading, log, committed, msgs, stream, acks, durable, voted,
          last_egen, restarts>>

N == Cardinality(Node)

\* rep->votes > rep->nsites / 2, and the same of rep->sites.
Majority(S) == Cardinality(S) > N \div 2

-----------------------------------------------------------------------------
\* Operators on a node's REP, as the functions that run under rep_mutexp.

IN_ELECTION(r) == r.flags \cap {"PHASE1", "PHASE2"} # {}
IN_ELECTION_TALLY(r) == r.flags \cap {"PHASE1", "PHASE2", "TALLY"} # {}

NoVotes == [v \in Node |-> 0]
sites(r) == {v \in Node : r.tally[v] # 0}

\* A faulty variant: every node that stands counts as a vote.
votes_faulty(r) == {v \in Node : r.tally[v] # 0}

votes(r) == {v \in Node : r.v2tally[v] # 0}

\* __rep_set_gen: the egen stays above the generation.
rep_set_gen(r, g) == [r EXCEPT !.gen = g, !.egen = IF @ <= g THEN g + 1 ELSE @]

\* A faulty variant: the next election has the same egen.
rep_elect_done_faulty(r, egen) ==
    [r EXCEPT !.flags = @ \ {"PHASE1", "PHASE2", "TALLY"},
              !.tally = NoVotes, !.v2tally = NoVotes,
              !.egen = IF IN_ELECTION_TALLY(r) /\ egen # 0 THEN egen ELSE @]

\* __rep_elect_done: the tallies are cleared, and a node that was in an
\* election or had tallied a vote goes on to egen, or to the next one.
rep_elect_done(r, egen) ==
    [r EXCEPT !.flags = @ \ {"PHASE1", "PHASE2", "TALLY"},
              !.tally = NoVotes, !.v2tally = NoVotes,
              !.egen = IF ~IN_ELECTION_TALLY(r) THEN @
                       ELSE IF egen # 0 THEN egen ELSE @ + 1]

\* A faulty variant: logs of one generation are not compared.
Better_faulty(v, w) == v.cgen > w.cgen \/ (v.cgen = w.cgen /\ v.tb > w.tb)

\* The order of __rep_cmp_vote: the generation of the last commit, its LSN,
\* and the tiebreaker.
Better(v, w) ==
    \/ v.cgen > w.cgen
    \/ v.cgen = w.cgen /\ v.lsn > w.lsn
    \/ v.cgen = w.cgen /\ v.lsn = w.lsn /\ v.tb > w.tb

\* __rep_tally of a VOTE1 and __rep_cmp_vote: the first vote is the winner to
\* start with.
rep_tally1(r, v, egen) ==
    LET t == [r EXCEPT !.tally[v.eid] = egen]
    IN  IF Cardinality(sites(t)) = 1 \/ Better(v, r.winner)
        THEN [t EXCEPT !.winner = v] ELSE t

\* __rep_tally of a VOTE2: a second vote of the same election does not count.
rep_tally2(r, v, egen) ==
    IF r.v2tally[v] >= egen THEN r ELSE [r EXCEPT !.v2tally[v] = egen]

\* __rep_phase1_done: all have voted, or as many as are connected and these
\* are a majority.
rep_phase1_done(r, nvoters) ==
    \/ sites(r) = Node
    \/ nvoters > 0 /\ Cardinality(sites(r)) >= nvoters /\ Majority(sites(r))

\* The end of phase 1: n's own VOTE2, if it is the winner itself, is counted.
EnterPhase2(r, n) ==
    LET p == [r EXCEPT !.flags = (@ \ {"PHASE1"}) \cup {"PHASE2"}]
    IN  IF r.winner.eid = n THEN rep_tally2(p, n, r.egen) ELSE p

Vote1(r, n, v, egen) ==
    {[type |-> "vote1", from |-> n, to |-> o, gen |-> r.gen, egen |-> egen, vote |-> v]
       : o \in Node \ {n}}
Vote2(r, n) ==
    {[type |-> "vote2", from |-> n, to |-> o, gen |-> r.gen, egen |-> r.egen]
       : o \in {r.winner.eid} \ {n}}

\* The votes that are still on their way: one of an egen that its receiver has
\* left would be ignored, now and later, and is not kept.
InFlight(ms, reps) == {m \in ms : m.egen >= reps[m.to].egen \/ m.gen > reps[m.to].gen}

-----------------------------------------------------------------------------
Rec(g, m, commit) == [gen |-> g, by |-> m, commit |-> commit]
NoWinner == [eid |-> None, cgen |-> 0, lsn |-> 0, tb |-> 0]

Init ==
    /\ rep = [n \in Node |-> [gen |-> 1, egen |-> 2, master |-> First,
                              flags |-> IF n = First THEN {"MASTER"} ELSE {},
                              tally |-> NoVotes, v2tally |-> NoVotes, winner |-> NoWinner]]
    /\ thr = [n \in Node |-> [pc |-> "idle", egen |-> 0]]
    /\ upgrading = [n \in Node |-> 0]
    /\ log = [n \in Node |-> <<Rec(1, First, TRUE)>>]
    /\ committed = [n \in Node |-> 1]
    /\ msgs = {}
    /\ stream = (<<First, 1>> :> log[First])
    /\ acks = (<<First, 1>> :> [n \in Node |-> 1])
    /\ durable = {}
    /\ voted = [n \in Node |-> {}]
    /\ last_egen = [n \in Node |-> 0]
    /\ restarts = 0

logVars == <<log, committed, stream, acks, durable>>

\* What a node votes with: its last commit.
MyVote(n, tb) == [eid |-> n, cgen |-> log[n][committed[n]].gen, lsn |-> committed[n], tb |-> tb]

\* The VOTE2 that a node casts as it enters phase 2.
Cast(r) == [egen |-> r.egen, eid |-> r.winner.eid]

\* __rep_elect_init on a node that is no master: it forgets its master and
\* asks for one.
StartElection(n) ==
    /\ n \in Candidates /\ rep[n].egen <= MaxEgen
    /\ thr[n].pc = "idle"
    /\ "MASTER" \notin rep[n].flags /\ ~IN_ELECTION(rep[n])
    /\ rep' = [rep EXCEPT ![n].master = None]
    /\ thr' = [thr EXCEPT ![n].pc = "asking"]
    /\ UNCHANGED <<upgrading, msgs, voted, last_egen, restarts, logVars>>

\* __rep_wait returns 0: there is a master, and no phase to wait for.
FoundMaster(n) ==
    /\ rep[n].master # None
    /\ \/ thr[n].pc \in {"asking", "phase1"} /\ "PHASE1" \notin rep[n].flags
       \/ thr[n].pc = "phase2" /\ "PHASE2" \notin rep[n].flags
    /\ rep' = [rep EXCEPT ![n] = IF thr[n].pc = "asking" THEN @ ELSE rep_elect_done(@, 0)]
    /\ thr' = [thr EXCEPT ![n].pc = "idle"]
    /\ msgs' = InFlight(msgs, rep')
    /\ UNCHANGED <<upgrading, voted, last_egen, restarts, logVars>>

\* A node stands: no master answered, or its egen has changed in phase 1.
MayStand(n) ==
    \/ thr[n].pc = "asking"
    \/ thr[n].pc = "phase1" /\ thr[n].egen # rep[n].egen

\* __rep_elect from restart: the node tallies its own vote, which may end
\* phase 1, and broadcasts it.
Stand(n) ==
    \E tb \in TieBreaker, nvoters \in Connected :
      LET v    == MyVote(n, tb)
          egen == rep[n].egen
          r1   == [rep[n] EXCEPT !.flags = (@ \ {"TALLY"}) \cup {"PHASE1", "WAITSTART"}]
          r2   == rep_tally1(r1, v, egen)
          done == rep_phase1_done(r2, nvoters)
          r3   == IF done THEN EnterPhase2(r2, n) ELSE r2
      IN  /\ MayStand(n)
          /\ egen <= MaxEgen
          /\ rep' = [rep EXCEPT ![n] = r3]
          /\ thr' = [thr EXCEPT ![n] = [pc |-> "phase1", egen |-> egen]]
          /\ last_egen' = [last_egen EXCEPT ![n] = egen]
          /\ msgs' = InFlight(msgs \cup Vote1(r3, n, v, egen) \cup (IF done THEN Vote2(r3, n) ELSE {}), rep')
          /\ voted' = [voted EXCEPT ![n] = IF done THEN @ \cup {Cast(r3)} ELSE @]
          /\ UNCHANGED <<upgrading, restarts, logVars>>

\* The end of the wait for VOTE1s, with the votes of a majority: n votes for
\* the winner, or claims the election when its own VOTE2 completes a majority.
Phase1Timeout(n) ==
    LET r   == EnterPhase2(rep[n], n)
        won == rep[n].winner.eid = n /\ Majority(votes(r)) /\ upgrading[n] = 0
    IN  /\ thr[n].pc = "phase1" /\ thr[n].egen = rep[n].egen
        /\ Majority(sites(rep[n]))
        /\ rep' = [rep EXCEPT ![n] = IF won THEN rep_elect_done([r EXCEPT !.master = n], 0) ELSE r]
        /\ thr' = [thr EXCEPT ![n].pc = IF won THEN "idle" ELSE "phase2"]
        /\ upgrading' = [upgrading EXCEPT ![n] = IF won THEN r.egen ELSE @]
        /\ msgs' = InFlight(msgs \cup Vote2(rep[n], n), rep')
        /\ voted' = [voted EXCEPT ![n] = @ \cup {Cast(rep[n])}]
        /\ UNCHANGED <<last_egen, restarts, logVars>>

\* Too few VOTE1s, or the wait for VOTE2s is over: the election has failed.
ElectionFails(n) ==
    /\ \/ thr[n].pc = "phase1" /\ thr[n].egen = rep[n].egen /\ ~Majority(sites(rep[n]))
       \/ thr[n].pc = "phase2"
    /\ rep' = [rep EXCEPT ![n] = rep_elect_done(@, 0)]
    /\ thr' = [thr EXCEPT ![n].pc = "idle"]
    /\ msgs' = InFlight(msgs, rep')
    /\ UNCHANGED <<upgrading, voted, last_egen, restarts, logVars>>

-----------------------------------------------------------------------------
\* __rep_process_message: a message of an older generation is dropped, and so
\* is one of a newer generation at a master, which downgrades.
Accepts(r, gen) == gen >= r.gen /\ (gen = r.gen \/ "MASTER" \notin r.flags)

\* A client takes over the generation of a newer vote.
TakeGen(r, gen) == IF gen > r.gen THEN rep_set_gen(r, gen) ELSE r

\* REP_VOTE1 of a client.
RecvVote1(m) ==
    \E nvoters \in Connected :
      LET n    == m.to
          r1   == TakeGen(rep[n], m.gen)
          r2   == IF m.egen > r1.egen THEN rep_elect_done(r1, m.egen) ELSE r1
          r3   == IF IN_ELECTION(r2) THEN r2 ELSE [r2 EXCEPT !.flags = @ \cup {"TALLY"}]
          kept == m.egen >= r1.egen
          new  == kept /\ "PHASE2" \notin r3.flags /\ r3.tally[m.from] < m.egen
          r4   == rep_tally1(r3, m.vote, m.egen)
          done == new /\ IN_ELECTION(r4) /\ rep_phase1_done(r4, nvoters)
          r5   == EnterPhase2(r4, n)
      IN  /\ m.type = "vote1"
          /\ Accepts(rep[n], m.gen) /\ "MASTER" \notin rep[n].flags
          /\ rep' = [rep EXCEPT ![n] = IF done THEN r5 ELSE IF new THEN r4
                                       ELSE IF kept THEN r3 ELSE r1]
          /\ msgs' = InFlight((msgs \ {m}) \cup (IF done THEN Vote2(r5, n) ELSE {}), rep')
          /\ voted' = [voted EXCEPT ![n] = IF done THEN @ \cup {Cast(r5)} ELSE @]
          /\ UNCHANGED <<thr, upgrading, last_egen, restarts, logVars>>

\* __rep_cmp_vote2: a VOTE2 counts only after the VOTE1 of the same election.
rep_cmp_vote2(r, eid, egen) == r.tally[eid] = egen

\* REP_VOTE2: the vote that completes a majority makes the node the master, and
\* the first such vote begins its upgrade.
RecvVote2(m) ==
    LET n    == m.to
        r1   == TakeGen(rep[n], m.gen)
        new  == /\ IN_ELECTION_TALLY(r1) \/ m.egen <= r1.egen
                /\ rep_cmp_vote2(r1, m.from, m.egen)
                /\ r1.v2tally[m.from] < m.egen
        r2   == rep_tally2(r1, m.from, m.egen)
        won  == new /\ Majority(votes(r2))
    IN  /\ m.type = "vote2"
        /\ Accepts(rep[n], m.gen)
        /\ rep' = [rep EXCEPT ![n] = IF won THEN [r2 EXCEPT !.master = n]
                                     ELSE IF new THEN r2 ELSE r1]
        /\ upgrading' = [upgrading EXCEPT ![n] = IF won /\ @ = 0 THEN m.egen ELSE @]
        /\ msgs' = InFlight(msgs \ {m}, rep')
        /\ UNCHANGED <<thr, voted, last_egen, restarts, logVars>>

\* bdb_upgrade and __rep_start as master, once the election thread has released
\* the bdb lock: the node announces its generation and writes it to the log with
\* a checkpoint.
Upgrade(n) ==
    LET g == upgrading[n]
        r == rep_elect_done(rep_set_gen(rep[n], g), 0)
        l == Append(log[n], Rec(g, n, FALSE))
    IN  /\ g # 0 /\ thr[n].pc = "idle"
        /\ "MASTER" \notin rep[n].flags
        /\ rep' = [rep EXCEPT ![n] = [r EXCEPT !.flags = {"MASTER"}, !.master = n]]
        /\ upgrading' = [upgrading EXCEPT ![n] = 0]
        /\ log' = [log EXCEPT ![n] = l]
        /\ stream' = (<<n, g>> :> l) @@ stream
        /\ acks' = (<<n, g>> :> [o \in Node |-> 0]) @@ acks
        /\ msgs' = InFlight(msgs, rep')
        /\ UNCHANGED <<thr, committed, durable, voted, last_egen, restarts>>

\* bdb_downgrade and __rep_start as client: a master that hears of a newer
\* generation, loses its connections or is told to step down.
Downgrade(n) ==
    /\ "MASTER" \in rep[n].flags /\ thr[n].pc = "idle"
    /\ rep' = [rep EXCEPT ![n].flags = @ \cap {"RECOVER", "TALLY"}, ![n].master = None]
    /\ UNCHANGED <<thr, upgrading, msgs, voted, last_egen, restarts, logVars>>

\* A new master, or a new generation.
Changed(r, m, g) == r.gen < g \/ r.master # m

\* REP_NEWMASTER: m announces itself when it upgrades and whenever it is asked,
\* and the message may be late.  A change begins the verification of the log.
RecvNewMaster(n, m, g) ==
    LET r1 == rep_elect_done(rep[n], 0)
        r2 == [rep_set_gen(r1, g) EXCEPT !.master = m, !.flags = @ \cup {"RECOVER"}]
        r3 == IF Changed(r1, m, g) THEN r2 ELSE r1
        r4 == [r3 EXCEPT !.flags = @ \ {"WAITSTART"}]
    IN  /\ n # m /\ <<m, g>> \in DOMAIN stream
        /\ Accepts(rep[n], g) /\ "MASTER" \notin rep[n].flags
        /\ rep' = [rep EXCEPT ![n] = r4]
        /\ msgs' = InFlight(msgs, rep')
        /\ UNCHANGED <<thr, upgrading, voted, last_egen, restarts, logVars>>

\* REP_VERIFY until a record matches, and __rep_verify_match: the log is cut
\* after the last record it shares with the master's, and recovered.
Verify(n) ==
    LET src == <<rep[n].master, rep[n].gen>>
        cut == LongestCommonPrefix({log[n], stream[src]})
    IN  /\ "RECOVER" \in rep[n].flags /\ src \in DOMAIN stream
        /\ log' = [log EXCEPT ![n] = cut]
        /\ committed' = [committed EXCEPT ![n] = Len(cut)]
        /\ rep' = [rep EXCEPT ![n].flags = @ \ {"RECOVER"}]
        /\ UNCHANGED <<thr, upgrading, msgs, stream, acks, durable, voted, last_egen, restarts>>

-----------------------------------------------------------------------------
\* A master logs a commit of its generation.
Commit(m) ==
    LET g == rep[m].gen
        l == Append(log[m], Rec(g, m, TRUE))
    IN  /\ "MASTER" \in rep[m].flags
        /\ Len(log[m]) < MaxLog
        /\ log' = [log EXCEPT ![m] = l]
        /\ committed' = [committed EXCEPT ![m] = Len(l)]
        /\ stream' = [stream EXCEPT ![<<m, g>>] = l]
        /\ UNCHANGED <<rep, thr, upgrading, msgs, acks, durable, voted, last_egen, restarts>>

\* durable_target: half of the cluster, rounded up.
DurableTarget == (N + 1) \div 2

\* The election thread keeps the log from changing while it votes, and a
\* client that has voted waits for a master.
MayApply(r) == r.flags \cap {"MASTER", "PHASE1", "PHASE2", "TALLY", "WAITSTART", "RECOVER"} = {}

\* The acknowledgements of src's commits, with n's of record r at lsn.
Acked(src, n, r, lsn) == [acks[src] EXCEPT ![n] = IF r.commit /\ r.gen = src[2] THEN lsn ELSE @]

\* A commit of which enough nodes have it is durable, as long as the generation
\* of the node that waits for them has not changed.
IsDurable(src, r, have) ==
    /\ r.commit /\ r.gen = src[2]
    /\ Cardinality(have) >= DurableTarget
    /\ rep[src[1]].gen = src[2]

\* The apply thread: the next record of the master's log, which is acknowledged
\* when it is a commit.
Apply(n) ==
    LET src  == <<rep[n].master, rep[n].gen>>
        lsn  == Len(log[n]) + 1
        r    == stream[src][lsn]
        a    == Acked(src, n, r, lsn)
        have == {src[1]} \cup {o \in Node : a[o] >= lsn}
        kept == {o \in have : \A v \in voted[o] : v.egen <= src[2]}
    IN  /\ src \in DOMAIN stream /\ src[1] # n
        /\ MayApply(rep[n])
        /\ lsn <= Len(stream[src])
        /\ log' = [log EXCEPT ![n] = Append(@, r)]
        /\ committed' = [committed EXCEPT ![n] = IF r.commit THEN lsn ELSE @]
        /\ acks' = [acks EXCEPT ![src] = a]
        /\ durable' = IF IsDurable(src, r, have)
                      THEN durable \cup {[lsn |-> lsn, rec |-> r,
                                          kept |-> Cardinality(kept) >= DurableTarget]}
                      ELSE durable
        /\ UNCHANGED <<rep, thr, upgrading, msgs, stream, voted, last_egen, restarts>>

\* Bound: only nodes that lose a vote or their mastership restart.
Loses(n) == voted[n] # {} \/ "MASTER" \in rep[n].flags

\* A node restarts: votes and roles are in memory, the generation is read from
\* the log.
Restart(n) ==
    LET g == Last(log[n]).gen
    IN  /\ restarts < MaxRestarts /\ Loses(n)
        /\ restarts' = restarts + 1
        /\ rep' = [rep EXCEPT ![n] = [gen |-> g, egen |-> g + 1, master |-> None, flags |-> {},
                                      tally |-> NoVotes, v2tally |-> NoVotes, winner |-> NoWinner]]
        /\ thr' = [thr EXCEPT ![n] = [pc |-> "idle", egen |-> 0]]
        /\ upgrading' = [upgrading EXCEPT ![n] = 0]
        /\ committed' = [committed EXCEPT ![n] = Len(log[n])]
        /\ last_egen' = [last_egen EXCEPT ![n] = 0]
        /\ UNCHANGED <<log, msgs, stream, acks, durable, voted>>

Next ==
    \/ \E n \in Node :
         \/ StartElection(n) \/ FoundMaster(n) \/ Stand(n) \/ Phase1Timeout(n)
         \/ ElectionFails(n) \/ Upgrade(n) \/ Downgrade(n) \/ Verify(n)
         \/ Commit(n) \/ Apply(n) \/ Restart(n)
    \/ \E m \in msgs : RecvVote1(m) \/ RecvVote2(m)
    \/ \E n \in Node, k \in DOMAIN stream : RecvNewMaster(n, k[1], k[2])

Spec == Init /\ [][Next]_vars

-----------------------------------------------------------------------------
Flag == {"MASTER", "PHASE1", "PHASE2", "TALLY", "WAITSTART", "RECOVER"}

\* The type invariant of REP, the election thread and the logs.
TypeOK ==
    /\ \A n \in Node :
         /\ rep[n].gen \in Nat /\ rep[n].egen \in Nat /\ rep[n].egen > rep[n].gen
         /\ rep[n].flags \subseteq Flag /\ rep[n].master \in Node \cup {None}
         /\ rep[n].tally \in [Node -> Nat] /\ rep[n].v2tally \in [Node -> Nat]
         /\ thr[n].pc \in {"idle", "asking", "phase1", "phase2"}
         /\ upgrading[n] \in Nat /\ committed[n] \in 1..Len(log[n])
    /\ DOMAIN stream = DOMAIN acks /\ DOMAIN stream \subseteq Node \X Nat
    /\ \A n \in Node : "MASTER" \in rep[n].flags => <<n, rep[n].gen>> \in DOMAIN stream

\* A generation has one master: two nodes are never the masters, one after the
\* other or at once, of the same generation (__rep_tally, __rep_cmp_vote2 and
\* the single VOTE2 of a node).
OneMasterPerGen ==
    \A k, l \in DOMAIN stream : k[2] = l[2] => k[1] = l[1]

\* The assertion of __rep_elect, which aborts: a node does not stand twice in
\* an egen, whatever made it begin again.
StandsOnce == \A n \in Node : MayStand(n) => last_egen[n] < rep[n].egen

HasCommit(n, d) == d.lsn <= Len(log[n]) /\ log[n][d.lsn] = d.rec

Survives(d) ==
    \A n \in Node : "MASTER" \in rep[n].flags /\ rep[n].gen > d.rec.gen => HasCommit(n, d)

\* A durable commit is in the log of every later master ("A "durable"
\* transaction cannot be unwound by a future leader", durable_lsns.md).
DurableSurvives == \A d \in durable : Survives(d)

\* A durable commit is in the log of every later master, when those that make
\* it durable had cast no vote of a later election before they had it
\* (durable_target and the order of __rep_cmp_vote).
KeptDurableSurvives == \A d \in durable : d.kept => Survives(d)

=============================================================================
