------------------------- MODULE OsqlSessionProofs -------------------------
(***************************************************************************)
(* Proofs about OsqlSession, for any number of sessions and any orderly    *)
(* worlds around them.                                                     *)
(*                                                                         *)
(* At every moment one thread at most owns a session: it is the one that   *)
(* will dispatch or close it.  Ownership is never given out twice because  *)
(* the last row and the coordinator's request look at the session under    *)
(* participant_lk: what the coordinator takes over is a participant with   *)
(* all its rows, and what the reader keeps is not.                         *)
(***************************************************************************)
EXTENDS OsqlSession, TLAPS

\* Places at which a thread owns its session, and those at which it has added
\* itself to the clients and will do no more than put the session.
Own == {"save", "decide", "collect", "cancelput", "failput", "dispatch", "dput", "handle",
        "queued", "run", "rem", "drain"}

Complete(s) == sess[s].is_participant /\ sess[s].is_done

\* Where each thread may be, and what it has in hand there.
PlacesOK ==
    /\ pc["reader"] \notin {"get", "sanction", "discard", "queued", "run"}
    /\ pc["coord"] \notin {"added", "save", "decide", "collect", "failput", "queued", "run"}
    /\ \A s \in Sess : pc[s] \in {"idle", "queued", "run", "rem", "drain"}
    /\ \A t \in Thread : cur[t] = NoSess <=> pc[t] \in {"idle", "get"}
    /\ \A s \in Sess : pc[s] # "idle" => cur[s] = s /\ sess[s].dispatched
    /\ \A t \in Thread : pc[t] \in {"dput", "handle"} => sess[cur[t]].dispatched

\* What a thread uses, or finds under the uuid, is live.
LiveOK == NoUseAfterFree /\ (repo # NoSess => life[repo] = "live")

\* A session has one owner, which finds it under the uuid until it has
\* unlinked it; a live session that is not found there is being drained.
OwnersOK ==
    /\ \A t, u \in Thread : pc[t] \in Own /\ pc[u] \in Own /\ cur[t] = cur[u] => t = u
    /\ \A t \in Thread : pc[t] \in Own => (pc[t] = "drain" <=> repo # cur[t])
    /\ \A s \in Sess : life[s] = "live" /\ repo # s =>
           \E t \in Thread : cur[t] = s /\ pc[t] = "drain"

\* The clients of a session are counted; a refused coordinator's is put twice.
Uses(t, s) == IF cur[t] = s /\ pc[t] \in Holding THEN 1 ELSE 0
ClientsOK ==
    \A s \in Sess : life[s] = "live" =>
        \/ sess[s].clients = Uses("reader", s) + Uses("coord", s)
        \/ /\ sess[s].clients = Uses("reader", s) + Uses("coord", s) - 1
           /\ world.refuse
           /\ cur["reader"] = s /\ pc["reader"] \in {"failput", "rem", "drain"}

\* A session is done when its last row has come, and not while rows are saved.
StreamOK ==
    /\ repo # NoSess /\ sess[repo].is_done /\ ~sess[repo].dispatched => "done" \in seen
    /\ pc["reader"] = "decide" \/ (pc["reader"] = "save" /\ msg = "done") => "done" \in seen
    /\ pc["reader"] \in {"save", "decide"} => ~sess[cur["reader"]].is_done

\* Who of the reader and the coordinator's thread owns a participant.
PairOK ==
    /\ world.requests # {} /\ pc["reader"] \in Own => ~Complete(cur["reader"])
    /\ pc["coord"] \in Own => Complete(cur["coord"])
    /\ pc["coord"] \in {"sanction", "discard"} /\ Complete(cur["coord"]) =>
           pc[cur["coord"]] = "idle"
    /\ \A s \in Sess : pc[s] # "idle" /\ cur["reader"] = s => world.requests # {}

\* What a termination finds: a session that the reader closes because it was
\* terminated is not terminated again.
TermOK ==
    /\ \A s \in Sess : life[s] = "live" /\ sess[s].terminate => terms > 0
    /\ world.terms # 0 => /\ pc["reader"] \notin {"failput", "cancelput"}
                          /\ pc["reader"] = "save" => msg \notin {"xerr", "badrow"}
    /\ pc["reader"] = "rem" /\ ~sess[cur["reader"]].dispatched => world.terms = 0 \/ terms > 0

\* The coordinator's thread is on its way to s, or has taken it over.
Coming(s) == pc["coord"] = "get" \/ (cur["coord"] = s /\ pc["coord"] \in Own \cup {"sanction", "discard"})

Verdict == IF asked = {"prepare"} THEN 1 ELSE -1

\* How far the register of sanctions and the waiting session agree.
SanctionOK ==
    /\ world.requests = {} => /\ pc["coord"] = "idle" /\ asked = {} /\ sanc.sanctioned = 0
                              /\ \A s \in Sess : sess[s].is_sanctioned = 0
    /\ pc["coord"] # "idle" \/ (sanc.known /\ asked = {}) => \E s \in Sess : life[s] # "none"
    /\ pc["coord"] \in {"get", "sanction", "discard"} /\ repo # NoSess /\ ~sess[repo].dispatched =>
           sanc.sanctioned = Verdict
    /\ pc["coord"] = "sanction" => asked = {"prepare"}
    /\ pc["coord"] = "discard" => asked # {"prepare"}

WaitingOK ==
    \A s \in Sess : repo = s /\ sess[s].is_participant /\ ~sess[s].dispatched =>
        /\ sanc.known
        /\ sess[s].is_sanctioned = sanc.sanctioned \/ Coming(s)
        /\ sess[s].is_done => sess[s].is_sanctioned = 0

\* A live session has been dispatched to a block processor when that one runs.
RunsOK ==
    \A s \in Sess : /\ ran[s] \in {0, 1}
                    /\ life[s] = "none" => ran[s] = 0
                    /\ life[s] = "live" => (ran[s] = 1 <=> pc[s] # "idle")

IInv == /\ TypeOK /\ PlacesOK /\ LiveOK /\ OwnersOK /\ ClientsOK /\ StreamOK
        /\ PairOK /\ TermOK /\ SanctionOK /\ WaitingOK /\ RunsOK
=============================================================================
