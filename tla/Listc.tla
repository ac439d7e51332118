------------------------------- MODULE Listc -------------------------------
(***************************************************************************)
(* The doubly linked lists of util/list.c, as sequences from the top to    *)
(* the bottom.  An object is on a list once at most.  listc_atl is         *)
(* <<obj>> \o l, listc_abl is Append(l, obj), and listc_rtl takes Head(l). *)
(***************************************************************************)
EXTENDS Naturals, Sequences, Functions

\* The object that listc_rbl takes.
listc_bot(l) == l[Len(l)]

\* listc_rfl: the object is unlinked, wherever it is, and the others keep their
\* order.  Callers remove what is on the list, and leave the list alone when
\* the object is on none.
listc_rfl(l, obj) ==
    LET at == {k \in DOMAIN l : l[k] = obj}
        i  == CHOOSE k \in at : TRUE
    IN  IF at = {} THEN l ELSE SubSeq(l, 1, i - 1) \o SubSeq(l, i + 1, Len(l))
=============================================================================
