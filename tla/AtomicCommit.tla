---------------------------- MODULE AtomicCommit ----------------------------
(***************************************************************************)
(* What a distributed transaction promises its client, whatever masters    *)
(* change: one decision, to commit only when every participant voted for   *)
(* it, and outcomes that agree with it and never change.                   *)
(***************************************************************************)
CONSTANTS Participants, Coordinator

VARIABLES votes,        \* the participants that have announced their prepare
          decision,     \* "undecided", "commit" or "abort"
          outcome       \* of each database: "active", "committed" or "aborted"

vars == <<votes, decision, outcome>>

Init ==
    /\ votes = {}
    /\ decision = "undecided"
    /\ outcome = [d \in Participants \cup {Coordinator} |-> "active"]

Vote(p) ==
    /\ votes' = votes \cup {p}
    /\ UNCHANGED <<decision, outcome>>

Decide(v) ==
    /\ decision = "undecided"
    /\ v = "commit" => votes = Participants
    /\ decision' = v
    /\ UNCHANGED <<votes, outcome>>

\* A database may abort on its own account, and commits when told.
Finish(d, o) ==
    /\ outcome[d] = "active"
    /\ o = "committed" => decision = "commit"
    /\ o = "aborted" => decision # "commit"
    /\ outcome' = [outcome EXCEPT ![d] = o]
    /\ UNCHANGED <<votes, decision>>

Next ==
    \/ \E p \in Participants : Vote(p)
    \/ \E v \in {"commit", "abort"} : Decide(v)
    \/ \E d \in Participants \cup {Coordinator}, o \in {"committed", "aborted"} : Finish(d, o)

Spec == Init /\ [][Next]_vars
=============================================================================
