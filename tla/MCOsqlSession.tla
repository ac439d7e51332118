--------------------------- MODULE MCOsqlSession ---------------------------
(***************************************************************************)
(* OsqlSession with one request: its session s1 and a replay s2.           *)
(***************************************************************************)
EXTENDS OsqlSession

World(k, r, n, f) == [kinds |-> k, requests |-> r, terms |-> n, refuse |-> f, replay |-> r = {}]

\* A request that is not part of a distributed transaction or coordinates one,
\* with its replay: with every kind of row, or with a stream that does not fail
\* while the host of the replicant goes down; and a participant.
ThreeWorlds == {World({"row", "badrow", "disttxn", "done", "xerr"}, {}, 0, TRUE),
                World({"row", "disttxn", "done"}, {}, 1, FALSE),
                World({"row", "prepare", "done", "xerr"}, {"prepare", "discard"}, 0, FALSE)}
=============================================================================
