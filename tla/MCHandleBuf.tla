---------------------------- MODULE MCHandleBuf ----------------------------
(***************************************************************************)
(* HandleBuf with a few requests: reads, a writer and an osql session.     *)
(***************************************************************************)
EXTENDS HandleBuf

CONSTANTS t1, t2, t3, r1, r2, w1, o1
=============================================================================
