----------------------------- MODULE MCBdbLock -----------------------------
(* BdbLock with threads that call it in any order and threads that run sql. *)
EXTENDS BdbLock

CONSTANTS w1, w2, u1, u2
=============================================================================
