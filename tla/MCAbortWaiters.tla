-------------------------- MODULE MCAbortWaiters --------------------------
(* AbortWaiters with four lockers that ask for a page or for a table.       *)
EXTENDS AbortWaiters, TLC

CONSTANTS a, b, c, d

\* Requests for a page that a prepared transaction has written.
Page == [wants |-> a :> "R" @@ b :> "W" @@ c :> "R" @@ d :> "IW",
         kept |-> "W", detector |-> FALSE]

\* A schema change, two requests that use the table, and a second schema change.
Table == [wants |-> a :> "W" @@ b :> "R" @@ c :> "R" @@ d :> "W",
          kept |-> "R", detector |-> TRUE]

PageOrTable == {Page, Table}
=============================================================================
