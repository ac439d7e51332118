--------------------------- MODULE MCWriterPools ---------------------------
(***************************************************************************)
(* WriterPools with three transactions over two or three databases.        *)
(***************************************************************************)
EXTENDS WriterPools

CONSTANTS A, B, C

\* A ring: each coordinates at one database, and takes part in the next, which
\* has one writer thread.
Ring == [coordinator |-> <<A, B, C>>, participants |-> <<{B}, {C}, {A}>>,
         can_retry |-> {2}, complete |-> {}, maxwthreads |-> 1, elapses |-> TRUE]

\* The first two cross, and the third takes part in both their databases.
\* There are threads enough, and only wait-die keeps things going.
Cross == [coordinator |-> <<A, B, C>>, participants |-> <<{B}, {A}, {A, B}>>,
          can_retry |-> {1, 3}, complete |-> {}, maxwthreads |-> 3, elapses |-> FALSE]

\* Two databases in which all three take part, with two threads each.
Shared == [coordinator |-> <<A, B, A>>, participants |-> <<{B}, {A}, {B}>>,
           can_retry |-> {3}, complete |-> {1}, maxwthreads |-> 2, elapses |-> TRUE]

ThreeWorlds == {Ring, Cross, Shared}
=============================================================================
