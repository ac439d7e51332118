-------------------------- MODULE BlockProcProofs --------------------------
(***************************************************************************)
(* Proofs about BlockProc, for any finite number of requests and           *)
(* downgrades and any assignment of locks.                                 *)
(*                                                                         *)
(* The two counts are true, so prepared_count >= blkcnt means that every   *)
(* block processor is prepared.  The database is no longer writable by     *)
(* then, and stays so: from the first discard on nobody gets as far as     *)
(* asking for a lock.                                                      *)
(***************************************************************************)
EXTENDS BlockProc, FiniteSetTheorems, TLAPS

Places == Inside \cup {"toblock", "outer", "rejected", "done"}
In(p, S) == {b \in Bp : p[b] \in S}
Wanting(f) == {d \in Downgrades : f[d] = "want"}

\* bdb_lock_desired counts the downgrades that wait, and a downgrade has made
\* the database read-only before it waits.
DesiredTrue ==
    /\ bdb_lock_desired = Cardinality(Wanting(dg))
    /\ \A d \in Downgrades : dg[d] # "idle" => ~read_write
    /\ \A b \in Bp : pc[b] \in {"discard", "drop"} => ~read_write
    /\ discarded # {} => ~read_write

\* Whoever has got its lock still has it.
Held == {"locked", "prep", "prepared", "resolved", "discard", "drop"}
Holding == \A b \in Bp : pc[b] \in Held => holder[wants[b]] = b

\* From the first discard on nobody is on its way to a lock.
Seeking == {"writing", "waiting", "aborted", "locked", "prep"}
Quiet ==
    (discarded # {} \/ \E b \in Bp : pc[b] = "drop") => \A b \in Bp : pc[b] \notin Seeking

Free == \A o \in discarded : holder[o] = None

\* A request that may still be retried has been retried less than the limit.
Trying == \A b \in Bp : pc[b] # "done" => retries[b] < gbl_maxretries

IInv == TypeOK /\ CountsTrue /\ DesiredTrue /\ Holding /\ Quiet /\ Free /\ Trying

-----------------------------------------------------------------------------
\* How a move of b from place p[b] to v changes the set of those at S.
Shift(p, q, b, v, S) ==
    /\ Cardinality(In(p, S)) \in Nat
    /\ (p[b] \in S <=> v \in S) => Cardinality(In(q, S)) = Cardinality(In(p, S))
    /\ p[b] \notin S /\ v \in S => Cardinality(In(q, S)) = Cardinality(In(p, S)) + 1
    /\ p[b] \in S /\ v \notin S =>
           /\ Cardinality(In(q, S)) = Cardinality(In(p, S)) - 1
           /\ Cardinality(In(p, S)) > 0

\* One step of one thread adds to, takes from or leaves alone the set of the
\* threads that are at one of the places in S.
LEMMA Moved ==
    ASSUME NEW p \in [Bp -> Places], NEW b \in Bp, NEW v \in Places, NEW S,
           NEW q, q = [p EXCEPT ![b] = v]
    PROVE  Shift(p, q, b, v, S)
<1>1. IsFiniteSet(In(p, S))
  <2>1. In(p, S) \in SUBSET Bp
    BY DEF In
  <2>2. QED
    BY <2>1, FS_Subset, BpAssumption
<1>2. Cardinality(In(p, S)) \in Nat
  BY <1>1, FS_CardinalityType
<1>3. ASSUME p[b] \in S <=> v \in S PROVE In(q, S) = In(p, S)
  BY <1>3 DEF In
<1>4. ASSUME p[b] \notin S, v \in S PROVE Cardinality(In(q, S)) = Cardinality(In(p, S)) + 1
  <2>1. In(q, S) = In(p, S) \cup {b} /\ b \notin In(p, S)
    BY <1>4 DEF In
  <2>2. QED
    BY <2>1, <1>1, FS_AddElement
<1>5. ASSUME p[b] \in S, v \notin S
      PROVE  /\ Cardinality(In(q, S)) = Cardinality(In(p, S)) - 1
             /\ Cardinality(In(p, S)) > 0
  <2>1. In(q, S) = In(p, S) \ {b} /\ b \in In(p, S)
    BY <1>5 DEF In
  <2>2. Cardinality(In(q, S)) = Cardinality(In(p, S)) - 1
    BY <2>1, <1>1, FS_RemoveElement
  <2>3. Cardinality(In(p, S)) # 0
    BY <2>1, <1>1, FS_EmptySet
  <2>4. QED
    BY <2>2, <2>3, <1>2
<1>6. QED
  BY <1>2, <1>3, <1>4, <1>5 DEF Shift

-----------------------------------------------------------------------------
One(v, S) == IF v \in S THEN 1 ELSE 0

\* A step of block processor b to place v adjusts both counts.
MovesTo(b, v) ==
    /\ pc' = [pc EXCEPT ![b] = v]
    /\ blkcnt' = blkcnt + One(v, Inside) - One(pc[b], Inside)
    /\ prepared_count' = prepared_count + One(v, Prepared) - One(pc[b], Prepared)

\* Waiters are aborted.
Aborts ==
    /\ pc' \in [Bp -> Places]
    /\ \A b \in Bp : pc'[b] = pc[b] \/ (pc[b] = "waiting" /\ pc'[b] = "aborted")
    /\ UNCHANGED counts

\* A block processor that moves, and counts its move, keeps the counts true.
LEMMA CountsMove ==
    ASSUME TypeOK, CountsTrue, NEW b \in Bp, NEW v \in Places, MovesTo(b, v)
    PROVE  CountsTrue' /\ blkcnt' \in Nat /\ prepared_count' \in Nat
<1>1. pc \in [Bp -> Places]
  BY DEF TypeOK, Places
<1>2. blkcnt = Cardinality(In(pc, Inside)) /\ prepared_count = Cardinality(In(pc, Prepared))
  BY DEF CountsTrue, In
<1>3. /\ Cardinality(In(pc', Inside)) = blkcnt + One(v, Inside) - One(pc[b], Inside)
      /\ Cardinality(In(pc', Inside)) \in Nat
  <2>1. pc' = [pc EXCEPT ![b] = v]
    BY DEF MovesTo
  <2>2. Shift(pc, pc', b, v, Inside)
    BY <1>1, <2>1, Moved
  <2>3. QED
    BY <2>2, <1>2 DEF Shift, One
<1>4. /\ Cardinality(In(pc', Prepared)) = prepared_count + One(v, Prepared) - One(pc[b], Prepared)
      /\ Cardinality(In(pc', Prepared)) \in Nat
  <2>1. pc' = [pc EXCEPT ![b] = v]
    BY DEF MovesTo
  <2>2. Shift(pc, pc', b, v, Prepared)
    BY <1>1, <2>1, Moved
  <2>3. QED
    BY <2>2, <1>2 DEF Shift, One
<1>5. QED
  BY <1>3, <1>4 DEF CountsTrue, In, MovesTo

\* Aborting the waiters moves them between places that count alike.
LEMMA CountsAbort ==
    ASSUME TypeOK, CountsTrue, Aborts
    PROVE  CountsTrue' /\ blkcnt' \in Nat /\ prepared_count' \in Nat
<1>1. In(pc', Inside) = In(pc, Inside) /\ In(pc', Prepared) = In(pc, Prepared)
  BY DEF In, Aborts, Inside, Reading, Prepared
<1>2. QED
  BY <1>1 DEF CountsTrue, In, Aborts, counts, TypeOK

\* What every step of a block processor does to pc and the counts.
LEMMA ProceedMoves ==
    ASSUME TypeOK, NEW b \in Bp, Proceed(b) \/ has_committed(b) \/ has_aborted(b)
    PROVE  Aborts \/ \E v \in Places : MovesTo(b, v)
<1> USE DEF TypeOK, Places, MovesTo, One, Inside, Reading, Prepared, counts
<1>1. CASE toblock(b)
  <2>1. CASE ismaster
    BY <1>1, <2>1 DEF toblock
  <2>2. CASE ~ismaster
    BY <1>1, <2>2 DEF toblock
  <2>3. QED
    BY <2>1, <2>2
<1>2. CASE toblock_main(b)
  BY <1>2 DEF toblock_main
<1>3. CASE trans_start(b) \/ write_preamble(b)
  BY <1>3 DEF trans_start, write_preamble
<1>4. CASE lock_get(b)
  BY <1>4 DEF lock_get
<1>5. CASE lock_promoted(b) \/ tran_prepare(b)
  BY <1>5 DEF lock_promoted, tran_prepare
<1>6. CASE nomaster(b)
  BY <1>6 DEF nomaster, Release
<1>7. CASE deadlock(b) \/ commit(b)
  BY <1>7 DEF deadlock, commit, Release
<1>8. CASE prepare_failed(b) \/ resolve(b)
  BY <1>8 DEF prepare_failed, resolve, Release
<1>9. CASE prepared(b)
  BY <1>9 DEF prepared
<1>10. CASE has_committed(b)
  BY <1>10 DEF has_committed
<1>11. CASE has_aborted(b) \/ lock_desired_abort(b)
  BY <1>11 DEF has_aborted, lock_desired_abort
<1>12. CASE lock_desired(b)
  BY <1>12 DEF lock_desired
<1>13. CASE discard_wait(b)
  BY <1>13 DEF discard_wait, Abort, Waiters, Aborts
<1>14. CASE discard_go(b)
  BY <1>14 DEF discard_go
<1>15. CASE trans_discard_prepared(b)
  BY <1>15 DEF trans_discard_prepared, Release
<1>16. CASE leave(b)
  BY <1>16 DEF leave
<1>17. QED
  BY <1>1, <1>2, <1>3, <1>4, <1>5, <1>6, <1>7, <1>8, <1>9, <1>10, <1>11, <1>12, <1>13,
     <1>14, <1>15, <1>16 DEF Proceed

-----------------------------------------------------------------------------
\* The four kinds of steps: of a block processor, of the thread that aborts
\* waiters, of a downgrade, and the resolution of a recovered prepare.
LEMMA Kinds ==
    ASSUME [Next]_vars
    PROVE  \/ \E b \in Bp : Proceed(b) \/ has_committed(b) \/ has_aborted(b)
           \/ abort_prepared_thd
           \/ \E d \in Downgrades : Downgrade(d)
           \/ \E o \in Obj : resolve_recovered(o)
           \/ UNCHANGED vars
BY DEF Next, Decide

\* abort_prepared_thd does nothing else than that.
LEMMA ThreadAborts ==
    ASSUME TypeOK, abort_prepared_thd
    PROVE  Aborts
BY DEF abort_prepared_thd, Abort, Waiters, Aborts, TypeOK, Places, Inside, Reading, Prepared, counts

\* A downgrade touches no block processor and no row lock.
LEMMA DowngradeFrame ==
    ASSUME NEW d, Downgrade(d)
    PROVE  UNCHANGED <<pc, retries, counts, lockvars, hbeats>>
BY DEF Downgrade, set_read_only, get_writelock, got_writelock, downgrade_int

\* Every step keeps blkcnt and prepared_count true.
LEMMA CountsStep ==
    ASSUME TypeOK, CountsTrue, [Next]_vars
    PROVE  /\ CountsTrue'
           /\ pc' \in [Bp -> Places] /\ blkcnt' \in Nat /\ prepared_count' \in Nat
<1>1. pc \in [Bp -> Places]
  BY DEF TypeOK, Places
<1>2. ASSUME NEW b \in Bp, Proceed(b) \/ has_committed(b) \/ has_aborted(b)
      PROVE  /\ CountsTrue'
             /\ pc' \in [Bp -> Places] /\ blkcnt' \in Nat /\ prepared_count' \in Nat
  <2>1. CASE Aborts
    BY <2>1, CountsAbort DEF Aborts
  <2>2. ASSUME NEW v \in Places, MovesTo(b, v)
        PROVE  /\ CountsTrue'
               /\ pc' \in [Bp -> Places] /\ blkcnt' \in Nat /\ prepared_count' \in Nat
    <3>1. pc' \in [Bp -> Places]
      BY <1>1, <2>2 DEF MovesTo
    <3>2. QED
      BY <2>2, <3>1, CountsMove
  <2>3. QED
    BY <1>2, <2>1, <2>2, ProceedMoves
<1>3. CASE abort_prepared_thd
  BY <1>3, ThreadAborts, CountsAbort DEF Aborts
<1>4. CASE UNCHANGED <<pc, counts>>
  BY <1>1, <1>4 DEF counts, CountsTrue, TypeOK
<1>5. QED
  BY <1>2, <1>3, <1>4, Kinds, DowngradeFrame DEF resolve_recovered, vars

-----------------------------------------------------------------------------
\* The downgrades that want the bdb write lock can be counted.
LEMMA WantingFinite ==
    /\ IsFiniteSet(Wanting(dg)) /\ Cardinality(Wanting(dg)) \in Nat
    /\ \A d : d \in Wanting(dg) => Cardinality(Wanting(dg)) > 0
<1>1. Wanting(dg) \in SUBSET Downgrades
  BY DEF Wanting
<1>2. IsFiniteSet(Wanting(dg))
  BY <1>1, FS_Subset, BpAssumption
<1>3. Cardinality(Wanting(dg)) \in Nat
  BY <1>2, FS_CardinalityType
<1>4. Cardinality(Wanting(dg)) = 0 <=> Wanting(dg) = {}
  BY <1>2, FS_EmptySet
<1>5. QED
  BY <1>2, <1>3, <1>4

EnvTypeOK ==
    /\ dg \in [Downgrades -> {"idle", "readonly", "want", "writing", "done"}]
    /\ bdb_lock_desired \in Nat
    /\ read_write \in BOOLEAN /\ ismaster \in BOOLEAN

\* A downgrade keeps bdb_lock_desired the number of downgrades that want the lock.
LEMMA DesiredDowngrade ==
    ASSUME EnvTypeOK, bdb_lock_desired = Cardinality(Wanting(dg)),
           NEW d \in Downgrades, Downgrade(d)
    PROVE  EnvTypeOK' /\ bdb_lock_desired' = Cardinality(Wanting(dg'))
<1>1. CASE set_read_only(d) \/ downgrade_int(d)
  <2>1. Wanting(dg') = Wanting(dg)
    BY <1>1 DEF set_read_only, downgrade_int, Wanting, EnvTypeOK
  <2>2. QED
    BY <1>1, <2>1 DEF set_read_only, downgrade_int, EnvTypeOK
<1>2. CASE get_writelock(d)
  <2>1. Wanting(dg') = Wanting(dg) \cup {d} /\ d \notin Wanting(dg)
    BY <1>2 DEF get_writelock, Wanting, EnvTypeOK
  <2>2. Cardinality(Wanting(dg')) = Cardinality(Wanting(dg)) + 1
    BY <2>1, WantingFinite, FS_AddElement
  <2>3. QED
    BY <1>2, <2>2, WantingFinite DEF get_writelock, EnvTypeOK
<1>3. CASE got_writelock(d)
  <2>1. Wanting(dg') = Wanting(dg) \ {d} /\ d \in Wanting(dg)
    BY <1>3 DEF got_writelock, Wanting, EnvTypeOK
  <2>2. Cardinality(Wanting(dg')) = Cardinality(Wanting(dg)) - 1
    BY <2>1, WantingFinite, FS_RemoveElement
  <2>3. QED
    BY <1>3, <2>1, <2>2, WantingFinite DEF got_writelock, EnvTypeOK
<1>4. QED
  BY <1>1, <1>2, <1>3 DEF Downgrade

\* A step of block processor b, its coordinator's decision included.
BpStep(b) == Proceed(b) \/ has_committed(b) \/ has_aborted(b)

\* Block processors do not touch the environment's variables.
LEMMA BpFrame ==
    ASSUME NEW b, BpStep(b) \/ abort_prepared_thd
    PROVE  UNCHANGED envvars
BY DEF BpStep, Proceed, toblock, toblock_main, trans_start, write_preamble, lock_get,
   lock_promoted, nomaster, deadlock, commit, tran_prepare, prepare_failed, prepared, resolve,
   lock_desired_abort, lock_desired, discard_wait, discard_go, trans_discard_prepared, leave,
   has_committed, has_aborted, abort_prepared_thd

\* Who comes to discard, and what is discarded.
LEMMA Discards ==
    ASSUME TypeOK, NEW b \in Bp, BpStep(b)
    PROVE  /\ \A c \in Bp : pc'[c] \in {"discard", "drop"} =>
                  \/ pc[c] \in {"discard", "drop"}
                  \/ bdb_lock_desired > 0
           /\ discarded' # {} => discarded # {} \/ pc[b] = "drop"
<1> USE DEF TypeOK
<1>1. CASE lock_desired(b)
  BY <1>1 DEF lock_desired, lockvars
<1>2. CASE discard_wait(b)
  BY <1>2 DEF discard_wait, Abort, lockvars
<1>3. CASE discard_go(b)
  BY <1>3 DEF discard_go, lockvars
<1>4. CASE trans_discard_prepared(b)
  BY <1>4 DEF trans_discard_prepared, Release
<1>5. CASE \/ toblock(b) \/ toblock_main(b) \/ trans_start(b) \/ write_preamble(b)
           \/ lock_get(b) \/ lock_promoted(b) \/ tran_prepare(b) \/ prepared(b)
  BY <1>5 DEF toblock, toblock_main, trans_start, write_preamble, lock_get, lock_promoted,
     tran_prepare, prepared, lockvars
<1>6. CASE \/ nomaster(b) \/ deadlock(b) \/ commit(b) \/ prepare_failed(b) \/ resolve(b)
  BY <1>6 DEF nomaster, deadlock, commit, prepare_failed, resolve, Release
<1>7. CASE has_committed(b) \/ has_aborted(b) \/ lock_desired_abort(b)
  BY <1>7 DEF has_committed, has_aborted, lock_desired_abort, lockvars
<1>8. CASE leave(b)
  BY <1>8 DEF leave, lockvars
<1>9. QED
  BY <1>1, <1>2, <1>3, <1>4, <1>5, <1>6, <1>7, <1>8 DEF BpStep, Proceed

\* Every step keeps the facts about bdb_lock_desired and read_write.
LEMMA DesiredStep ==
    ASSUME IInv, [Next]_vars
    PROVE  DesiredTrue' /\ EnvTypeOK'
<1>1. EnvTypeOK
  BY DEF IInv, TypeOK, EnvTypeOK
<1>2. bdb_lock_desired > 0 => ~read_write
  <2>1. SUFFICES ASSUME bdb_lock_desired > 0 PROVE ~read_write
    OBVIOUS
  <2>2. Wanting(dg) # {}
    BY <2>1, FS_EmptySet DEF IInv, DesiredTrue
  <2>3. PICK d \in Downgrades : dg[d] = "want"
    BY <2>2 DEF Wanting
  <2>4. QED
    BY <2>3 DEF IInv, DesiredTrue
<1>3. ASSUME NEW b \in Bp, BpStep(b)
      PROVE  DesiredTrue' /\ EnvTypeOK'
  <2>1. UNCHANGED envvars
    BY <1>3, BpFrame
  <2>2. \A c \in Bp : pc'[c] \in {"discard", "drop"} => ~read_write
    BY <1>2, <1>3, Discards DEF IInv, DesiredTrue
  <2>3. discarded' # {} => ~read_write
    BY <1>3, Discards DEF IInv, DesiredTrue
  <2>4. QED
    BY <1>1, <2>1, <2>2, <2>3 DEF DesiredTrue, EnvTypeOK, envvars, IInv
<1>4. CASE abort_prepared_thd
  <2>1. UNCHANGED envvars
    BY <1>4, BpFrame
  <2>2. \A c \in Bp : pc'[c] \in {"discard", "drop"} => pc[c] = pc'[c]
    BY <1>4, ThreadAborts DEF Aborts, IInv
  <2>3. UNCHANGED discarded
    BY <1>4 DEF abort_prepared_thd, lockvars
  <2>4. QED
    BY <1>1, <2>1, <2>2, <2>3 DEF DesiredTrue, EnvTypeOK, envvars, IInv
<1>5. ASSUME NEW d \in Downgrades, Downgrade(d)
      PROVE  DesiredTrue' /\ EnvTypeOK'
  <2>1. EnvTypeOK' /\ bdb_lock_desired' = Cardinality(Wanting(dg'))
    BY <1>1, <1>5, DesiredDowngrade DEF IInv, DesiredTrue
  <2>2. UNCHANGED <<pc, discarded>>
    BY <1>5, DowngradeFrame DEF lockvars
  <2>3. read_write' = FALSE \/ UNCHANGED read_write
    BY <1>5 DEF Downgrade, set_read_only, get_writelock, got_writelock, downgrade_int
  <2>4. \A e \in Downgrades : dg'[e] # "idle" => ~read_write'
    <3>1. CASE set_read_only(d)
      BY <3>1 DEF set_read_only
    <3>2. CASE get_writelock(d) \/ got_writelock(d) \/ downgrade_int(d)
      BY <3>2, <1>1 DEF get_writelock, got_writelock, downgrade_int, IInv, DesiredTrue, EnvTypeOK
    <3>3. QED
      BY <1>5, <3>1, <3>2 DEF Downgrade
  <2>5. QED
    BY <2>1, <2>2, <2>3, <2>4 DEF DesiredTrue, IInv
<1>6. CASE UNCHANGED <<pc, discarded, envvars>>
  BY <1>1, <1>6 DEF DesiredTrue, EnvTypeOK, envvars, IInv, Wanting
<1>7. QED
  BY <1>3, <1>4, <1>5, <1>6, Kinds DEF BpStep, resolve_recovered, vars, lockvars

-----------------------------------------------------------------------------
\* The types of what is left.
RestTypeOK ==
    /\ retries \in [Bp -> 0..gbl_maxretries]
    /\ holder \in [Obj -> Bp \cup {None, Prepare}]
    /\ hbeats \subseteq Participants
    /\ discarded \subseteq Obj

\* The effect of a step on lock holders: b takes a free lock, gives its lock
\* back, or leaves the locks alone.
Takes(b) == /\ pc[b] \in Seeking /\ holder[wants[b]] = None
            /\ holder' = [holder EXCEPT ![wants[b]] = b]
            /\ pc' = [pc EXCEPT ![b] = "locked"] /\ discarded' = discarded
Gives(b) == /\ holder' = [holder EXCEPT ![wants[b]] = IF @ = b THEN None ELSE @]
            /\ pc' = [pc EXCEPT ![b] = pc'[b]] /\ pc'[b] \notin Held \cup Seeking
            /\ \/ discarded' = discarded
               \/ pc[b] = "drop" /\ discarded' = discarded \cup {wants[b]}
Keeps(b) == /\ UNCHANGED lockvars
            /\ \A c \in Bp : pc'[c] \in Held => pc[c] \in Held
            /\ \A c \in Bp : pc'[c] \in Seeking => pc[c] \in Seeking \/ read_write
            /\ \A c \in Bp : pc'[c] = "drop" => pc[c] = "drop" \/ discard_go(b)

\* A step takes one free lock, gives all of its locks up, or keeps them.
LEMMA LockEffects ==
    ASSUME TypeOK, NEW b \in Bp, BpStep(b)
    PROVE  Takes(b) \/ Gives(b) \/ Keeps(b)
<1> USE DEF TypeOK, Held, Seeking, lockvars
<1>1. CASE lock_get(b)
  <2>1. CASE holder[wants[b]] = None
    BY <1>1, <2>1 DEF lock_get, Takes
  <2>2. CASE holder[wants[b]] # None
    BY <1>1, <2>2 DEF lock_get, Keeps
  <2>3. QED
    BY <2>1, <2>2
<1>2. CASE lock_promoted(b)
  BY <1>2 DEF lock_promoted, Takes
<1>3. CASE nomaster(b) \/ deadlock(b) \/ commit(b) \/ prepare_failed(b) \/ resolve(b)
  BY <1>3 DEF nomaster, deadlock, commit, prepare_failed, resolve, Release, Gives
<1>4. CASE trans_discard_prepared(b)
  BY <1>4 DEF trans_discard_prepared, Release, Gives
<1>5. CASE toblock(b) \/ toblock_main(b) \/ trans_start(b) \/ write_preamble(b)
  BY <1>5 DEF toblock, toblock_main, trans_start, write_preamble, Keeps
<1>6. CASE tran_prepare(b) \/ prepared(b) \/ has_committed(b) \/ has_aborted(b)
           \/ lock_desired_abort(b) \/ lock_desired(b)
  BY <1>6 DEF tran_prepare, prepared, has_committed, has_aborted, lock_desired_abort,
     lock_desired, Keeps
<1>7. CASE discard_wait(b)
  BY <1>7 DEF discard_wait, Abort, Waiters, Keeps
<1>8. CASE discard_go(b)
  BY <1>8 DEF discard_go, Keeps
<1>9. CASE leave(b)
  BY <1>9 DEF leave, Keeps
<1>10. QED
  BY <1>1, <1>2, <1>3, <1>4, <1>5, <1>6, <1>7, <1>8, <1>9 DEF BpStep, Proceed

\* When prepared_count has reached blkcnt only prepared transactions are left.
LEMMA AllPrepared ==
    ASSUME CountsTrue, prepared_count >= blkcnt
    PROVE  \A c \in Bp : pc[c] \in Inside => pc[c] \in Prepared
<1>1. In(pc, Prepared) \in SUBSET In(pc, Inside) /\ In(pc, Inside) \in SUBSET Bp
  BY DEF In, Inside, Reading
<1>2. IsFiniteSet(In(pc, Inside))
  BY <1>1, FS_Subset, BpAssumption
<1>3. /\ Cardinality(In(pc, Prepared)) <= Cardinality(In(pc, Inside))
      /\ Cardinality(In(pc, Inside)) = Cardinality(In(pc, Prepared)) =>
             In(pc, Inside) = In(pc, Prepared)
  BY <1>1, <1>2, FS_Subset
<1>4. Cardinality(In(pc, Inside)) \in Nat /\ Cardinality(In(pc, Prepared)) \in Nat
  BY <1>1, <1>2, FS_Subset, FS_CardinalityType
<1>5. In(pc, Inside) = In(pc, Prepared)
  BY <1>3, <1>4 DEF CountsTrue, In
<1>6. QED
  BY <1>5 DEF In

\* A block processor's step keeps the facts about row locks.
LEMMA LocksBp ==
    ASSUME IInv, NEW b \in Bp, BpStep(b)
    PROVE  Holding' /\ Quiet' /\ Free'
<1> USE BpAssumption
<1>1. /\ pc \in [Bp -> Places] /\ holder \in [Obj -> Bp \cup {None, Prepare}]
      /\ wants \in [Bp -> Obj] /\ None \notin Bp
  BY DEF IInv, TypeOK, Places
<1>2. CASE Takes(b)
  <2>1. discarded = {} /\ \A c \in Bp : pc[c] # "drop"
    BY <1>2 DEF Takes, IInv, Quiet
  <2>2. Holding'
    BY <1>1, <1>2 DEF Takes, IInv, Holding
  <2>3. QED
    BY <1>1, <1>2, <2>1, <2>2 DEF Takes, Quiet, Free
<1>3. CASE Gives(b)
  <2>1. \A c \in Bp : pc'[c] \in Held \cup Seeking => c # b /\ pc[c] = pc'[c]
    BY <1>1, <1>3 DEF Gives
  <2>2. Holding'
    <3>1. SUFFICES ASSUME NEW c \in Bp, pc'[c] \in Held PROVE holder'[wants[c]] = c
      BY DEF Holding
    <3>2. c # b /\ holder[wants[c]] = c
      BY <2>1, <3>1 DEF IInv, Holding
    <3>3. QED
      BY <1>1, <1>3, <3>2 DEF Gives
  <2>3. Quiet'
    <3>1. ASSUME discarded' # {} \/ \E c \in Bp : pc'[c] = "drop"
          PROVE  discarded # {} \/ \E c \in Bp : pc[c] = "drop"
      BY <1>3, <2>1, <3>1 DEF Gives, Held
    <3>2. QED
      BY <2>1, <3>1 DEF IInv, Quiet
  <2>4. Free'
    <3>1. pc[b] = "drop" => holder[wants[b]] = b
      BY DEF IInv, Holding, Held
    <3>2. QED
      BY <1>1, <1>3, <3>1 DEF Gives, IInv, Free
  <2>5. QED
    BY <2>2, <2>3, <2>4
<1>4. CASE Keeps(b)
  <2>1. Holding' /\ Free'
    BY <1>4 DEF Keeps, lockvars, IInv, Holding, Free
  <2>2. Quiet'
    <3>1. CASE discard_go(b)
      <4>1. \A c \in Bp : pc[c] \in Inside => pc[c] \in Prepared
        BY <3>1, AllPrepared DEF discard_go, IInv
      <4>2. \A c \in Bp : pc[c] \notin Seeking
        BY <4>1 DEF Seeking, Inside, Reading, Prepared
      <4>3. QED
        BY <1>1, <3>1, <4>2 DEF discard_go, Quiet, Seeking
    <3>2. CASE ~discard_go(b)
      <4>1. ASSUME discarded' # {} \/ \E c \in Bp : pc'[c] = "drop"
            PROVE  /\ discarded # {} \/ \E c \in Bp : pc[c] = "drop"
                   /\ ~read_write
        BY <1>4, <3>2, <4>1 DEF Keeps, lockvars, IInv, DesiredTrue
      <4>2. QED
        BY <1>4, <4>1 DEF Keeps, Quiet, IInv
    <3>3. QED
      BY <3>1, <3>2
  <2>3. QED
    BY <2>1, <2>2
<1>5. QED
  BY <1>2, <1>3, <1>4, LockEffects DEF IInv

\* Every step keeps the facts about row locks.
LEMMA LocksStep ==
    ASSUME IInv, [Next]_vars
    PROVE  Holding' /\ Quiet' /\ Free'
<1>1. CASE abort_prepared_thd
  <2>1. UNCHANGED lockvars /\ \A c \in Bp : pc'[c] = pc[c] \/ (pc[c] = "waiting" /\ pc'[c] = "aborted")
    BY <1>1, ThreadAborts DEF Aborts, IInv, abort_prepared_thd
  <2>2. Holding' /\ Free'
    BY <2>1 DEF IInv, Holding, Free, Held, lockvars
  <2>3. Quiet'
    BY <2>1 DEF IInv, Quiet, Seeking, lockvars
  <2>4. QED
    BY <2>2, <2>3
<1>2. ASSUME NEW o \in Obj, resolve_recovered(o)
      PROVE  Holding' /\ Quiet' /\ Free'
  <2> holder \in [Obj -> Bp \cup {None, Prepare}]
    BY DEF IInv, TypeOK
  <2>1. \A p \in Obj : holder'[p] = holder[p] \/ (holder[p] = Prepare /\ holder'[p] = None)
    BY <1>2 DEF resolve_recovered
  <2>2. \A b \in Bp : wants[b] \in Obj /\ b # Prepare
    BY BpAssumption
  <2>3. Holding' /\ Free'
    BY <1>2, <2>1, <2>2, BpAssumption DEF resolve_recovered, IInv, TypeOK, Holding, Free
  <2>4. QED
    BY <1>2, <2>3 DEF resolve_recovered, IInv, Quiet
<1>3. CASE UNCHANGED <<pc, lockvars>>
  BY <1>3 DEF lockvars, IInv, Holding, Quiet, Free
<1>4. QED
  BY <1>1, <1>2, <1>3, LocksBp, Kinds, DowngradeFrame DEF BpStep, vars

\* Every step keeps the types and the lock a block processor waits for.
LEMMA RestStep ==
    ASSUME IInv, [Next]_vars
    PROVE  RestTypeOK' /\ Trying'
<1> USE BpAssumption
<1>1. RestTypeOK /\ Trying /\ pc \in [Bp -> Places]
  BY DEF IInv, TypeOK, RestTypeOK, Places
<1>2. ASSUME NEW b \in Bp, BpStep(b)
      PROVE  RestTypeOK' /\ Trying'
  <2>1. holder' \in [Obj -> Bp \cup {None, Prepare}] /\ discarded' \subseteq Obj
    <3>1. /\ holder \in [Obj -> Bp \cup {None, Prepare}] /\ discarded \subseteq Obj
          /\ wants[b] \in Obj
      BY <1>1 DEF RestTypeOK
    <3>2. CASE Takes(b)
      BY <3>1, <3>2 DEF Takes
    <3>3. CASE Gives(b)
      BY <3>1, <3>3 DEF Gives
    <3>4. CASE Keeps(b)
      BY <3>1, <3>4 DEF Keeps, lockvars
    <3>5. QED
      BY <1>2, <3>2, <3>3, <3>4, LockEffects DEF IInv
  <2>2. hbeats' \subseteq hbeats
    BY <1>2 DEF BpStep, Proceed, toblock, toblock_main, trans_start, write_preamble, lock_get,
       lock_promoted, nomaster, deadlock, commit, tran_prepare, prepare_failed, prepared, resolve,
       lock_desired_abort, lock_desired, discard_wait, discard_go, trans_discard_prepared, leave,
       has_committed, has_aborted
  <2>3. CASE pc[b] = "retrying" /\ leave(b)
    BY <1>1, <2>1, <2>2, <2>3 DEF leave, RestTypeOK, Trying
  <2>4. CASE ~(pc[b] = "retrying" /\ leave(b))
    <3>1. UNCHANGED retries
      BY <1>2, <2>4 DEF BpStep, Proceed, toblock, toblock_main, trans_start, write_preamble,
         lock_get, lock_promoted, nomaster, deadlock, commit, tran_prepare, prepare_failed,
         prepared, resolve, lock_desired_abort, lock_desired, discard_wait, discard_go,
         trans_discard_prepared, leave, has_committed, has_aborted
    <3>2. \A c \in Bp : pc[c] = "done" => pc'[c] = "done"
      <4>1. pc[b] # "done"
        BY <1>2 DEF BpStep, Proceed, toblock, toblock_main, trans_start, write_preamble,
           lock_get, lock_promoted, nomaster, deadlock, commit, tran_prepare, prepare_failed,
           prepared, resolve, lock_desired_abort, lock_desired, discard_wait, discard_go,
           trans_discard_prepared, leave, has_committed, has_aborted
      <4>2. CASE Aborts
        BY <4>2 DEF Aborts
      <4>3. ASSUME NEW v \in Places, MovesTo(b, v)
            PROVE  \A c \in Bp : pc[c] = "done" => pc'[c] = "done"
        BY <1>1, <4>1, <4>3 DEF MovesTo
      <4>4. QED
        BY <1>2, <4>2, <4>3, ProceedMoves DEF BpStep, IInv
    <3>3. QED
      BY <1>1, <2>1, <2>2, <3>1, <3>2 DEF RestTypeOK, Trying
  <2>5. QED
    BY <2>3, <2>4
<1>3. CASE abort_prepared_thd
  <2>1. UNCHANGED <<retries, lockvars, hbeats>> /\ \A c \in Bp : pc[c] = "done" => pc'[c] = "done"
    BY <1>3, ThreadAborts DEF abort_prepared_thd, Aborts, IInv
  <2>2. QED
    BY <1>1, <2>1 DEF RestTypeOK, Trying, lockvars
<1>4. ASSUME NEW o \in Obj, resolve_recovered(o)
      PROVE  RestTypeOK' /\ Trying'
  BY <1>1, <1>4 DEF resolve_recovered, RestTypeOK, Trying
<1>5. CASE UNCHANGED <<pc, retries, lockvars, hbeats>>
  BY <1>1, <1>5 DEF RestTypeOK, Trying, lockvars
<1>6. QED
  BY <1>2, <1>3, <1>4, <1>5, Kinds, DowngradeFrame DEF BpStep, vars

-----------------------------------------------------------------------------
\* Where a participant's heartbeats are off, and where they may be.
Off == {"discard", "drop", "leaving", "done"}
Ended == Off \cup {"resolved"}

\* A step of b turns its heartbeats off when it comes to an end or to discard,
\* and nobody else's: in whatever order it fails, retries, prepares or discards.
LEMMA BeatsBp ==
    ASSUME TypeOK, NEW b \in Bp, BpStep(b)
    PROVE  /\ \A c \in Bp \ {b} :
                  /\ pc'[c] = pc[c] \/ (pc[c] = "waiting" /\ pc'[c] = "aborted")
                  /\ c \in hbeats' <=> c \in hbeats
           /\ pc'[b] \notin Ended => pc[b] \notin Ended /\ hbeats' = hbeats
           /\ pc'[b] \in Off => (pc[b] \in Off /\ hbeats' = hbeats) \/ b \notin hbeats'
<1> USE DEF TypeOK, Off, Ended
<1>1. CASE toblock(b) \/ toblock_main(b)
  BY <1>1 DEF toblock, toblock_main
<1>2. CASE trans_start(b) \/ write_preamble(b) \/ tran_prepare(b) \/ prepared(b)
  BY <1>2 DEF trans_start, write_preamble, tran_prepare, prepared
<1>3. CASE lock_get(b) \/ lock_promoted(b)
  BY <1>3 DEF lock_get, lock_promoted
<1>4. CASE nomaster(b) \/ commit(b) \/ prepare_failed(b) \/ resolve(b)
  BY <1>4 DEF nomaster, commit, prepare_failed, resolve, Release
<1>5. CASE deadlock(b) \/ trans_discard_prepared(b)
  BY <1>5 DEF deadlock, trans_discard_prepared, Release
<1>6. CASE has_committed(b) \/ has_aborted(b) \/ lock_desired_abort(b)
  BY <1>6 DEF has_committed, has_aborted, lock_desired_abort
<1>7. CASE lock_desired(b) \/ discard_go(b)
  BY <1>7 DEF lock_desired, discard_go
<1>8. CASE discard_wait(b)
  BY <1>8 DEF discard_wait, Abort, Waiters
<1>9. CASE leave(b)
  BY <1>9 DEF leave
<1>10. QED
  BY <1>1, <1>2, <1>3, <1>4, <1>5, <1>6, <1>7, <1>8, <1>9 DEF BpStep, Proceed

\* Every step keeps each participant's heartbeats where its place says.
LEMMA BeatsStep ==
    ASSUME TypeOK, HeartbeatsFollow, [Next]_vars
    PROVE  HeartbeatsFollow'
<1>1. \A c \in Participants :
          /\ c \in Bp
          /\ pc[c] \in Off => c \notin hbeats
          /\ pc[c] \notin Ended => c \in hbeats
  BY BpAssumption DEF HeartbeatsFollow, Off, Ended
<1>2. SUFFICES ASSUME NEW c \in Participants
               PROVE  (pc'[c] \in Off => c \notin hbeats') /\ (pc'[c] \notin Ended => c \in hbeats')
  BY DEF HeartbeatsFollow, Off, Ended
<1>3. ASSUME NEW b \in Bp, BpStep(b)
      PROVE  (pc'[c] \in Off => c \notin hbeats') /\ (pc'[c] \notin Ended => c \in hbeats')
  <2>1. CASE b = c
    BY <1>1, <1>3, <2>1, BeatsBp
  <2>2. CASE b # c
    <3>1. /\ pc'[c] = pc[c] \/ (pc[c] = "waiting" /\ pc'[c] = "aborted")
          /\ c \in hbeats' <=> c \in hbeats
      BY <1>1, <1>3, <2>2, BeatsBp
    <3>2. QED
      BY <1>1, <3>1 DEF Off, Ended
  <2>3. QED
    BY <2>1, <2>2
<1>4. CASE abort_prepared_thd
  <2>1. hbeats' = hbeats /\ (pc'[c] = pc[c] \/ (pc[c] = "waiting" /\ pc'[c] = "aborted"))
    BY <1>1, <1>4, ThreadAborts DEF Aborts, abort_prepared_thd
  <2>2. QED
    BY <1>1, <2>1 DEF Off, Ended
<1>5. CASE UNCHANGED <<pc, hbeats>>
  BY <1>1, <1>5
<1>6. QED
  BY <1>3, <1>4, <1>5, Kinds, DowngradeFrame DEF BpStep, resolve_recovered, vars

-----------------------------------------------------------------------------
\* The facts hold before any block processor runs.
LEMMA Initially == Init => IInv
<1> SUFFICES ASSUME Init PROVE IInv
  OBVIOUS
<1> USE BpAssumption
<1>1. In(pc, Inside) = {} /\ In(pc, Prepared) = {} /\ Wanting(dg) = {}
  BY DEF Init, In, Inside, Reading, Prepared, Wanting
<1>2. CountsTrue
  BY <1>1, FS_EmptySet DEF Init, CountsTrue, In
<1>3. TypeOK
  BY DEF Init, TypeOK
<1>4. DesiredTrue
  BY <1>1, FS_EmptySet DEF Init, DesiredTrue
<1>5. Holding /\ Quiet /\ Free /\ Trying
  BY DEF Init, Holding, Quiet, Free, Trying, Held
<1>6. QED
  BY <1>2, <1>3, <1>4, <1>5 DEF IInv

\* Every step keeps all of them.
LEMMA Inductive == IInv /\ [Next]_vars => IInv'
<1> SUFFICES ASSUME IInv, [Next]_vars PROVE IInv'
  OBVIOUS
<1>1. /\ CountsTrue'
      /\ pc' \in [Bp -> Places] /\ blkcnt' \in Nat /\ prepared_count' \in Nat
  BY CountsStep DEF IInv
<1>2. DesiredTrue' /\ EnvTypeOK'
  BY DesiredStep
<1>3. Holding' /\ Quiet' /\ Free'
  BY LocksStep
<1>4. RestTypeOK' /\ Trying'
  BY RestStep
<1>5. TypeOK'
  BY <1>1, <1>2, <1>4 DEF TypeOK, EnvTypeOK, RestTypeOK, Places
<1>6. QED
  BY <1>1, <1>2, <1>3, <1>4, <1>5 DEF IInv

\* They hold always.
LEMMA Invariance == Safe => []IInv
BY Initially, Inductive, PTL DEF Safe

\* blkcnt and prepared_count are the numbers of block processors inside
\* toblock_main and of those among them that are prepared.
THEOREM CountsAreTrue == Safe => []CountsTrue
<1>1. IInv => CountsTrue
  BY DEF IInv
<1>2. QED
  BY <1>1, Invariance, PTL

\* Nobody waits for the locks of a transaction that is about to be discarded:
\* the abort() on write-waiters in toblock_main_int is never reached.
THEOREM NoWriteWaitersAtDiscard == Safe => []NoWriteWaiters
<1>1. IInv => NoWriteWaiters
  BY DEF IInv, Quiet, Seeking, NoWriteWaiters, Waiters
<1>2. QED
  BY <1>1, Invariance, PTL

\* What a discarded prepared transaction had locked is not locked again on
\* this master, for any number of requests, locks and downgrades.
THEOREM PreparedNotOverwritten == Safe => []NotOverwritten
<1>1. IInv => NotOverwritten
  BY DEF IInv, Quiet, Seeking, Free, NotOverwritten, Waiters
<1>2. QED
  BY <1>1, Invariance, PTL

\* The heartbeats of a participant are on while it may still prepare or waits
\* for the decision, through any number of retries, and off once it has ended
\* or has begun to discard: HeartbeatsFollow, for any number of requests.
THEOREM HeartbeatsFollowPlace == Safe => []HeartbeatsFollow
<1>1. Init => HeartbeatsFollow
  BY BpAssumption DEF Init, HeartbeatsFollow
<1>2. IInv /\ HeartbeatsFollow /\ [Next]_vars => HeartbeatsFollow'
  BY BeatsStep DEF IInv
<1>3. QED
  BY <1>1, <1>2, Invariance, PTL DEF Safe
=============================================================================
