----------------------------- MODULE MCDistTxn -----------------------------
(* Instances of DistTxn for TLC.                                           *)
EXTENDS DistTxn, TLC
=============================================================================
