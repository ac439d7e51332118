----------------------------- MODULE LockQueue -----------------------------
(***************************************************************************)
(* Lock modes and the promotion of waiters (berkdb/lock/lock.c): an object *)
(* has a sequence of holders and a sequence of waiters, records with the   *)
(* locker's id and the mode.                                               *)
(***************************************************************************)
EXTENDS Integers, Sequences, SequencesExt

\* A faulty variant: an intention to write does not conflict with a write.
CONFLICTS_faulty(held, wanted) ==
    \/ "W" \in {held, wanted} /\ "IW" \notin {held, wanted}
    \/ {held, wanted} = {"R", "IW"}

\* The rows of db_riw_conflicts for the modes in use.
CONFLICTS(held, wanted) ==
    \/ "W" \in {held, wanted}
    \/ {held, wanted} = {"R", "IW"}

\* A faulty variant: a waiter is promoted past the conflict of another one.
promoted_faulty(hs, ws) ==
    LET free(w) == \A h \in Range(hs) : h.id = w.id \/ ~CONFLICTS(h.mode, w.mode)
    IN  CHOOSE k \in 0..Len(ws) : /\ \A i \in 1..k : free(ws[i])
                                  /\ k = Len(ws) \/ ~free(ws[k+1])

\* __lock_promote: how many of the waiters become holders, up to the first
\* that conflicts with a holder or with one promoted before it.
promoted(hs, ws) ==
    LET free(i) == \A h \in Range(hs \o SubSeq(ws, 1, i-1)) :
                       h.id = ws[i].id \/ ~CONFLICTS(h.mode, ws[i].mode)
    IN  CHOOSE k \in 0..Len(ws) : /\ \A i \in 1..k : free(i)
                                  /\ k = Len(ws) \/ ~free(k+1)
=============================================================================
