---------------------------- MODULE OsqlSession ----------------------------
(***************************************************************************)
(* The master's sessions for the writes of one client request              *)
(* (db/osqlsession.c, db/osqlrepository.c, sorese_rcvreq of db/osqlcomm.c)  *)
(* and the register of sanctioned distributed transactions                 *)
(* (sanctioned_hash of db/disttxn.c).                                      *)
(*                                                                         *)
(* A replicant streams the rows of a request to the master's reader        *)
(* thread, which collects them in a session.  The last row dispatches the  *)
(* session to a block processor; the session of a participant in a         *)
(* distributed transaction is dispatched when it has both its last row and *)
(* the coordinator's PREPARE.  Sessions are found by uuid, and shared with *)
(* the threads that handle the coordinator's requests, with whoever        *)
(* terminates the sessions of a host that went down, and with the block    *)
(* processor.  `clients' counts the threads between get and put; a session *)
(* is freed by whoever closes it, after the count has dropped to zero.     *)
(*                                                                         *)
(* All sessions of the model have the same uuid: a later one is a replay   *)
(* of the request.  A step is what happens under one lock.                 *)
(***************************************************************************)
EXTENDS Integers, FiniteSets

CONSTANTS Sess,         \* session objects, in the order s \in Sess they are created
          Worlds,       \* what may happen around the sessions: records with
                        \*   kinds     kinds of row the replicant may send
                        \*   requests  what the coordinator may ask
                        \*   terms     bound: hosts that go down, or downgrades
                        \*   refuse    collect_participants may refuse
                        \*   replay    the replicant may send its request again
          NoSess

RowKinds == {"row", "badrow", "disttxn", "prepare", "done", "xerr"}

ASSUME SessionAssumption ==
    /\ NoSess \notin Sess
    /\ {"reader", "coord"} \cap Sess = {}
    /\ Worlds \subseteq [kinds : SUBSET RowKinds, requests : SUBSET {"prepare", "discard"},
                         terms : Nat, refuse : BOOLEAN, replay : BOOLEAN]

\* What the sessions stand: a request coordinates or takes part, and the one
\* that takes part is not replayed while its coordinator asks for it; a host
\* goes down once, and no stream of rows fails at the same time (osqlsession.c
\* lets a termination free a session between its last put and its close).
ASSUME OrderlyWorlds ==
    \A w \in Worlds :
        /\ w.requests # {} => ~w.replay /\ ~w.refuse /\ w.terms = 0
        /\ w.terms # 0 => w.terms = 1 /\ ~w.refuse /\ w.kinds \cap {"badrow", "xerr"} = {}

VARIABLES repo,    \* theosql->rqsuuid: the session found under the uuid
          life,    \* of each session: not created yet, live, freed
          sess,    \* fields of each session
          sanc,    \* sanctioned_hash's entry of the transaction
          pc, cur, \* of each thread: where it is, and the session it uses
          msg,     \* the row the reader thread is handling
          seen,    \* kinds of row received on the current stream
          asked,   \* requests the coordinator has made
          terms,   \* terminations so far
          world,   \* which of Worlds this is
          ran      \* dispatches of each session to a block processor

vars == <<repo, life, sess, sanc, pc, cur, msg, seen, asked, terms, world, ran>>

\* The reader thread, the thread that serves the coordinator's request, and
\* one block processor per session.
Thread == {"reader", "coord"} \cup Sess

\* Places at which a thread has added itself to its session's clients.
Holding == {"added", "save", "decide", "collect", "put", "cancelput", "failput",
            "sanction", "discard", "dispatch", "dput"}

Places == Holding \cup {"idle", "get", "handle", "queued", "run", "rem", "drain"}

\* calloc and _osql_sess_create: the creator is the first client.
NewSession == [clients |-> 1, dispatched |-> FALSE, terminate |-> FALSE,
               is_participant |-> FALSE, is_sanctioned |-> 0,
               is_done |-> FALSE, is_coordinator |-> FALSE]

NoSanction == [known |-> FALSE, sanctioned |-> 0, hbeats |-> FALSE]

Init == /\ repo = NoSess
        /\ life = [s \in Sess |-> "none"]
        /\ sess = [s \in Sess |-> [NewSession EXCEPT !.clients = 0]]
        /\ sanc = NoSanction
        /\ pc = [t \in Thread |-> "idle"]
        /\ cur = [t \in Thread |-> NoSess]
        /\ msg = "none"
        /\ seen = {"done"}     \* no stream is open
        /\ asked = {}
        /\ terms = 0
        /\ world \in Worlds
        /\ ran = [s \in Sess |-> 0]

-----------------------------------------------------------------------------
\* Steps of the threads.

GoTo(t, place) == pc' = [pc EXCEPT ![t] = place]

Finish(t) == /\ pc' = [pc EXCEPT ![t] = "idle"]
             /\ cur' = [cur EXCEPT ![t] = NoSess]

\* osql_sess_addclient, under the repository's lock.
addclient(s) == sess' = [sess EXCEPT ![s].clients = @ + 1]

\* osql_sess_remclient.
remclient(s) == sess' = [sess EXCEPT ![s].clients = @ - 1]

\* A faulty variant: a session that is in use may be freed as well.
try_terminate_keep_faulty(s) == sess[s].dispatched

\* osql_sess_try_terminate: TRUE when the caller must leave the session alone.
try_terminate_keep(s) == sess[s].dispatched \/ sess[s].clients > 0

\* What try_terminate leaves in the session.
Terminated(s) == [sess EXCEPT ![s].terminate = ~sess[s].dispatched \/ @]

\* The request itself, or its replay.
MayCome == world.replay \/ \A s \in Sess : life[s] = "none"

\* A faulty variant: a session that somebody uses is replaced all the same.
rcvreq_faulty(s) ==
    /\ pc["reader"] = "idle"
    /\ life[s] = "none" /\ MayCome
    /\ life' = [x \in Sess |-> IF x = s THEN "live"
                              ELSE IF x = repo /\ ~try_terminate_keep(x) THEN "freed"
                              ELSE life[x]]
    /\ sess' = [(IF repo = NoSess THEN sess ELSE Terminated(repo)) EXCEPT ![s] = NewSession]
    /\ repo' = s
    /\ GoTo("reader", "added")
    /\ cur' = [cur EXCEPT !["reader"] = s]
    /\ seen' = {}
    /\ UNCHANGED <<sanc, msg, asked, terms, world, ran>>

\* osql_repository_add and the creation before it.  A session that is found
\* under the same uuid is terminated and, when nobody uses it, freed; when
\* somebody does, the new session is given up.
sorese_rcvreq(s) ==
    /\ pc["reader"] = "idle"
    /\ life[s] = "none" /\ MayCome
    /\ \/ /\ repo = NoSess
          /\ life' = [life EXCEPT ![s] = "live"]
          /\ sess' = [sess EXCEPT ![s] = NewSession]
          /\ repo' = s
          /\ GoTo("reader", "added")
          /\ cur' = [cur EXCEPT !["reader"] = s]
       \/ /\ repo # NoSess
          /\ ~try_terminate_keep(repo)
          /\ life' = [life EXCEPT ![repo] = "freed", ![s] = "live"]
          /\ sess' = [Terminated(repo) EXCEPT ![s] = NewSession]
          /\ repo' = s
          /\ GoTo("reader", "added")
          /\ cur' = [cur EXCEPT !["reader"] = s]
       \/ /\ repo # NoSess
          /\ try_terminate_keep(repo)
          /\ life' = [life EXCEPT ![s] = "freed"]
          /\ sess' = Terminated(repo)
          /\ UNCHANGED <<repo, pc, cur>>
    /\ seen' = {}
    /\ UNCHANGED <<sanc, msg, asked, terms, world, ran>>

\* The replicant's next row.  Every kind comes at most once; a done or xerr
\* row ends the stream, and a session coordinates or takes part, not both.
NextRow(k) == /\ seen \cap {"done", "xerr"} = {}
              /\ k \notin seen
              /\ ~({"prepare", "disttxn"} \subseteq seen \cup {k})

\* osql_sess_rcvop: the session is looked up, and rows for a session that is
\* dispatched or not there are dropped.
osql_sess_rcvop(k) ==
    /\ pc["reader"] = "idle"
    /\ NextRow(k)
    /\ seen' = seen \cup {k}
    /\ IF repo # NoSess /\ ~sess[repo].dispatched
       THEN /\ addclient(repo)
            /\ cur' = [cur EXCEPT !["reader"] = repo]
            /\ GoTo("reader", "save")
            /\ msg' = k
       ELSE UNCHANGED <<sess, cur, pc, msg>>
    /\ UNCHANGED <<repo, life, sanc, asked, terms, world, ran>>

\* osql_register_disttxn: the entry with this session's uuid.
osql_register_disttxn == [sanc EXCEPT !.known = TRUE]

\* osql_bplog_saveop: a row is saved, or cannot be; an OSQL_PREPARE row makes
\* the session a participant, under participant_lk.
osql_bplog_saveop ==
    /\ pc["reader"] = "save"
    /\ LET s == cur["reader"] IN
       \/ /\ msg \in {"xerr", "badrow"}
          /\ GoTo("reader", "failput")
          /\ UNCHANGED <<sess, sanc>>
       \/ /\ msg \in {"row", "done"}
          /\ GoTo("reader", IF msg = "done" THEN "decide" ELSE "put")
          /\ UNCHANGED <<sess, sanc>>
       \/ /\ msg = "disttxn"
          /\ sess' = [sess EXCEPT ![s].is_coordinator = TRUE]
          /\ GoTo("reader", "put")
          /\ UNCHANGED sanc
       \/ /\ msg = "prepare"
          /\ sanc' = osql_register_disttxn
          /\ sess' = [sess EXCEPT ![s].is_participant = TRUE,
                                  ![s].is_sanctioned = sanc'.sanctioned]
          /\ GoTo("reader", "put")
    /\ msg' = "none"
    /\ UNCHANGED <<repo, life, cur, seen, asked, terms, world, ran>>

\* A faulty variant: the last row does not look at the sanction.
rcvop_done_faulty ==
    /\ pc["reader"] = "decide"
    /\ LET s == cur["reader"] IN
       /\ sess' = [sess EXCEPT ![s].is_done = TRUE]
       /\ GoTo("reader", IF sess[s].is_participant THEN "put" ELSE
                         IF sess[s].is_coordinator THEN "collect" ELSE "dispatch")
    /\ UNCHANGED <<repo, life, sanc, cur, msg, seen, asked, terms, world, ran>>

\* The done row, under participant_lk: a participant is dispatched by the
\* later of its last row and the coordinator's request.
rcvop_done ==
    /\ pc["reader"] = "decide"
    /\ LET s == cur["reader"] IN
       \/ /\ sess[s].is_participant /\ sess[s].is_sanctioned = 1
          /\ GoTo("reader", "dispatch")
          /\ UNCHANGED sess
       \/ /\ sess[s].is_participant /\ sess[s].is_sanctioned = -1
          /\ GoTo("reader", "cancelput")
          /\ UNCHANGED sess
       \/ /\ sess[s].is_participant => sess[s].is_sanctioned = 0
          /\ sess' = [sess EXCEPT ![s].is_done = TRUE]
          /\ GoTo("reader", IF sess[s].is_participant THEN "put" ELSE
                            IF sess[s].is_coordinator THEN "collect" ELSE "dispatch")
    /\ UNCHANGED <<repo, life, sanc, cur, msg, seen, asked, terms, world, ran>>

\* collect_participants of a coordinator's session.  When it refuses, the
\* session is put here and once more at failed_stream.
rcvop_collect ==
    /\ pc["reader"] = "collect"
    /\ LET s == cur["reader"] IN
       \/ GoTo("reader", "dispatch") /\ UNCHANGED sess
       \/ world.refuse /\ remclient(s) /\ GoTo("reader", "failput")
    /\ UNCHANGED <<repo, life, sanc, cur, msg, seen, asked, terms, world, ran>>

-----------------------------------------------------------------------------
\* Release, dispatch and close: what every thread does with its session.

\* osql_repository_put, and the close of a session marked terminated
\* meanwhile; failed_stream and a cancelled session are closed in any case.
osql_repository_put(t) ==
    /\ pc[t] \in {"added", "put", "cancelput", "failput"}
    /\ remclient(cur[t])
    /\ IF pc[t] \in {"cancelput", "failput"} \/ sess[cur[t]].terminate
       THEN GoTo(t, "rem") /\ UNCHANGED cur
       ELSE Finish(t)
    /\ UNCHANGED <<repo, life, sanc, msg, seen, asked, terms, world, ran>>

\* handle_buf_sorese: the heartbeats of a participant stop until it has a
\* writer thread, and the session is marked dispatched.
handle_buf_sorese(t) ==
    /\ pc[t] = "dispatch"
    /\ LET s == cur[t] IN
       /\ sanc' = [sanc EXCEPT !.hbeats = @ /\ ~sess[s].is_participant]
       /\ sess' = [sess EXCEPT ![s].dispatched = TRUE]
    /\ GoTo(t, "dput")
    /\ UNCHANGED <<repo, life, cur, msg, seen, asked, terms, world, ran>>

\* The put of a dispatched session, whose result is not looked at.
handle_buf_put(t) ==
    /\ pc[t] = "dput"
    /\ remclient(cur[t])
    /\ GoTo(t, "handle")
    /\ UNCHANGED <<repo, life, sanc, cur, msg, seen, asked, terms, world, ran>>

\* A faulty variant: a session the queue has no room for is forgotten.
handle_buf_main_faulty(t) ==
    /\ pc[t] = "handle"
    /\ LET s == cur[t] IN
       \/ /\ pc' = [pc EXCEPT ![t] = "idle", ![s] = "queued"]
          /\ cur' = [cur EXCEPT ![t] = NoSess, ![s] = s]
          /\ ran' = [ran EXCEPT ![s] = @ + 1]
       \/ Finish(t) /\ UNCHANGED ran
    /\ UNCHANGED <<repo, life, sess, sanc, msg, seen, asked, terms, world>>

\* handle_buf_main: the block processor's queue takes the session, or is full.
handle_buf_main(t) ==
    /\ pc[t] = "handle"
    /\ LET s == cur[t] IN
       \/ /\ pc' = [pc EXCEPT ![t] = "idle", ![s] = "queued"]
          /\ cur' = [cur EXCEPT ![t] = NoSess, ![s] = s]
          /\ ran' = [ran EXCEPT ![s] = @ + 1]
       \/ GoTo(t, "rem") /\ UNCHANGED <<cur, ran>>
    /\ UNCHANGED <<repo, life, sess, sanc, msg, seen, asked, terms, world>>

\* A faulty variant: the closing thread leaves once the session is unlinked.
rem_faulty(t) ==
    /\ pc[t] = "rem"
    /\ repo' = NoSess
    /\ Finish(t)
    /\ UNCHANGED <<life, sess, sanc, msg, seen, asked, terms, world, ran>>

\* osql_repository_rem of osql_sess_close.  hash_del deletes by uuid, whatever
\* session is found under it; nothing there means another thread closes it.
osql_repository_rem(t) ==
    /\ pc[t] = "rem"
    /\ IF repo # NoSess
       THEN repo' = NoSess /\ GoTo(t, "drain") /\ UNCHANGED cur
       ELSE Finish(t) /\ UNCHANGED repo
    /\ UNCHANGED <<life, sess, sanc, msg, seen, asked, terms, world, ran>>

\* The rest of osql_sess_close: the wait for the clients, and the free.
osql_sess_close(t) ==
    /\ pc[t] = "drain"
    /\ sess[cur[t]].clients <= 0
    /\ life' = [life EXCEPT ![cur[t]] = "freed"]
    /\ Finish(t)
    /\ UNCHANGED <<repo, sess, sanc, msg, seen, asked, terms, world, ran>>

-----------------------------------------------------------------------------
\* The coordinator's requests.

\* osql_sanction_disttxn and osql_cancel_disttxn: the request is remembered,
\* and when the session is not registered yet that is all.
osql_sanction_disttxn(r) ==
    /\ pc["coord"] = "idle"
    /\ asked = {}
    /\ asked' = {r}
    /\ sanc' = [sanc EXCEPT !.known = TRUE,
                            !.sanctioned = IF r = "prepare" THEN 1 ELSE -1,
                            !.hbeats = @ \/ r = "prepare"]
    /\ GoTo("coord", IF sanc.known THEN "get" ELSE "idle")
    /\ UNCHANGED <<repo, life, sess, cur, msg, seen, terms, world, ran>>

\* The lookup of osql_prepare and osql_discard.
osql_prepare_get ==
    /\ pc["coord"] = "get"
    /\ IF repo # NoSess /\ ~sess[repo].dispatched
       THEN /\ addclient(repo)
            /\ cur' = [cur EXCEPT !["coord"] = repo]
            /\ GoTo("coord", IF asked = {"prepare"} THEN "sanction" ELSE "discard")
       ELSE GoTo("coord", "idle") /\ UNCHANGED <<sess, cur>>
    /\ UNCHANGED <<repo, life, sanc, msg, seen, asked, terms, world, ran>>

\* osql_prepare, under participant_lk.
osql_prepare ==
    /\ pc["coord"] = "sanction"
    /\ LET s == cur["coord"] IN
       \/ /\ sess[s].is_participant /\ sess[s].is_done
          /\ GoTo("coord", "dispatch")
          /\ UNCHANGED sess
       \/ /\ ~(sess[s].is_participant /\ sess[s].is_done)
          /\ sess' = [sess EXCEPT ![s].is_sanctioned = 1]
          /\ GoTo("coord", "put")
    /\ UNCHANGED <<repo, life, sanc, cur, msg, seen, asked, terms, world, ran>>

\* osql_discard, under participant_lk.
osql_discard ==
    /\ pc["coord"] = "discard"
    /\ LET s == cur["coord"] IN
       \/ /\ sess[s].is_participant /\ sess[s].is_done
          /\ GoTo("coord", "cancelput")
          /\ UNCHANGED sess
       \/ /\ ~(sess[s].is_participant /\ sess[s].is_done)
          /\ sess' = [sess EXCEPT ![s].is_sanctioned = -1]
          /\ GoTo("coord", "put")
    /\ UNCHANGED <<repo, life, sanc, cur, msg, seen, asked, terms, world, ran>>

-----------------------------------------------------------------------------
\* osql_repository_terminatenode: a host went down, or the master steps down.
osql_repository_terminatenode ==
    /\ terms < world.terms
    /\ repo # NoSess
    /\ terms' = terms + 1
    /\ sess' = Terminated(repo)
    /\ IF try_terminate_keep(repo)
       THEN UNCHANGED <<repo, life>>
       ELSE /\ life' = [life EXCEPT ![repo] = "freed"]
            /\ repo' = NoSess
    /\ UNCHANGED <<sanc, pc, cur, msg, seen, asked, world, ran>>

\* A writer thread takes the session: a participant's heartbeats start again.
bp_start(s) ==
    /\ pc[s] = "queued"
    /\ sanc' = [sanc EXCEPT !.hbeats = @ \/ sess[s].is_participant]
    /\ GoTo(s, "run")
    /\ UNCHANGED <<repo, life, sess, cur, msg, seen, asked, terms, world, ran>>

\* The block processor ends: a participant that failed or propagated frees
\* the sanction, and the end of the request closes the session.
bp_end(s) ==
    /\ pc[s] = "run"
    /\ sanc' = IF sess[s].is_participant THEN NoSanction ELSE sanc
    /\ GoTo(s, "rem")
    /\ UNCHANGED <<repo, life, sess, cur, msg, seen, asked, terms, world, ran>>

ThreadStep(t) == \/ osql_repository_put(t)
                 \/ handle_buf_sorese(t)
                 \/ handle_buf_put(t)
                 \/ handle_buf_main(t)
                 \/ osql_repository_rem(t)
                 \/ osql_sess_close(t)

ReaderStep == osql_bplog_saveop \/ rcvop_done \/ rcvop_collect

CoordStep == osql_prepare_get \/ osql_prepare \/ osql_discard

Next == \/ \E s \in Sess : sorese_rcvreq(s)
        \/ \E k \in world.kinds : osql_sess_rcvop(k)
        \/ ReaderStep
        \/ \E t \in Thread : ThreadStep(t)
        \/ \E r \in world.requests : osql_sanction_disttxn(r)
        \/ CoordStep
        \/ osql_repository_terminatenode
        \/ \E s \in Sess : bp_start(s) \/ bp_end(s)

Spec == Init /\ [][Next]_vars

\* Threads do not stop between two steps, and writer threads take what is
\* queued; nothing makes a replicant or a coordinator send its next message.
FairSpec == /\ Spec
            /\ WF_vars(ReaderStep)
            /\ WF_vars(CoordStep)
            /\ \A t \in Thread : WF_vars(ThreadStep(t))
            /\ \A s \in Sess : WF_vars(bp_start(s) \/ bp_end(s))

-----------------------------------------------------------------------------
\* Properties.

SessionType == [clients : -1..2, dispatched : BOOLEAN, terminate : BOOLEAN,
                is_participant : BOOLEAN, is_sanctioned : {-1, 0, 1},
                is_done : BOOLEAN, is_coordinator : BOOLEAN]

SanctionType == [known : BOOLEAN, sanctioned : {-1, 0, 1}, hbeats : BOOLEAN]

\* Sessions, threads and the sanction have their types; a session has two
\* clients at most, and -1 is the second put of a refused coordinator.
TypeOK ==
    /\ repo \in Sess \cup {NoSess}
    /\ life \in [Sess -> {"none", "live", "freed"}]
    /\ sess \in [Sess -> SessionType]
    /\ sanc \in SanctionType
    /\ pc \in [Thread -> Places]
    /\ cur \in [Thread -> Sess \cup {NoSess}]
    /\ \A t \in Thread : cur[t] = NoSess => pc[t] \in {"idle", "get"}
    /\ msg \in RowKinds \cup {"none"}
    /\ seen \subseteq RowKinds
    /\ world \in Worlds
    /\ asked \subseteq world.requests
    /\ terms \in 0..world.terms
    /\ ran \in [Sess -> Nat]

\* No thread uses a session after osql_sess_close or a termination has freed
\* it: a reader, a coordinator's request or a block processor that still has
\* a step to make finds its session live.
NoUseAfterFree ==
    \A t \in Thread : cur[t] # NoSess => life[cur[t]] = "live"

\* A session that is not freed can still be found under its uuid, or some
\* thread has it in hand: none is left over with its rows.
NoLeak ==
    \A s \in Sess : life[s] = "live" => repo = s \/ \E t \in Thread : cur[t] = s

\* osql_repository_rem deletes by uuid: the session it finds there is the one
\* being closed, never the replay of the same request.
ClosesItsOwn ==
    \A t \in Thread : pc[t] = "rem" /\ repo # NoSess => repo = cur[t]

\* The last row and the coordinator's PREPARE do not miss each other, and a
\* session runs once: when no thread is at work, a complete participant that
\* is still waiting has not been sanctioned, and none was dispatched twice.
MeetsItsSanction ==
    /\ \A s \in Sess : ran[s] <= 1
    /\ (\A t \in Thread : pc[t] = "idle") =>
          \A s \in Sess :
              repo = s /\ sess[s].is_participant /\ ~sess[s].dispatched =>
                  /\ sess[s].is_sanctioned = sanc.sanctioned
                  /\ sess[s].is_done => sanc.sanctioned = 0

\* A session that is terminated or dispatched is freed in the end, by the
\* terminating thread, its last client or its block processor.
IsFreed ==
    \A s \in Sess : (life[s] = "live" /\ (sess[s].terminate \/ sess[s].dispatched))
                     ~> (life[s] = "freed")
=============================================================================
