----------------------------- MODULE MCThdPool -----------------------------
(* Instances of ThdPool for TLC: who enqueues with which flags. *)
EXTENDS ThdPool, TLC

CONSTANTS i1, i2, i3, t1, t2, t3

(* One that goes to the front of the queue past its limit, one that may       *)
(* exceed the limit a little, an urgent one.                                 *)
MixedFlags == (i1 :> {"override", "front"}) @@ (i2 :> {"override"}) @@ (i3 :> {"dispatch", "force"})
=============================================================================
