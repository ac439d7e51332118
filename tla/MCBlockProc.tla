---------------------------- MODULE MCBlockProc ----------------------------
(***************************************************************************)
(* BlockProc with four requests for two objects.                           *)
(***************************************************************************)
EXTENDS BlockProc

CONSTANTS b1, b2, b3, b4, x, y

\* Two for each object.
TwoObj == [b \in Bp |-> IF b \in {b1, b2} THEN x ELSE y]
=============================================================================
