----------------------------- MODULE BlockProc -----------------------------
(***************************************************************************)
(* Block processors and a downgrade of the master (toblock_main in         *)
(* db/toblock.c, bdb_upgrade_downgrade_reopen_wrap in bdb/file.c).         *)
(*                                                                         *)
(* A block processor is counted in blkcnt while it is in toblock_main,     *)
(* holds the bdb lock in read mode while it has a transaction, and is      *)
(* counted in prepared_count from its prepare record to the decision.  A   *)
(* downgrade wants the bdb lock in write mode, so prepared transactions    *)
(* must give up their locks without anybody writing what they protect:     *)
(* they wait until only prepared transactions are left.                    *)
(*                                                                         *)
(* A transaction is reduced to one exclusive lock.  The coordinator's      *)
(* decision may never come.                                                *)
(***************************************************************************)
EXTENDS Integers, FiniteSets

CONSTANTS Bp,             \* requests that writer threads have taken up
          Participants, Coordinators, \* those of distributed transactions
          Obj, wants,     \* lock objects, and the one each request locks
          Recovered,      \* objects locked by prepares that recovery found
          Downgrades,     \* threads that downgrade
          gbl_maxretries,
          None, Prepare   \* no holder; the holder of recovered locks

ASSUME BpAssumption ==
    /\ IsFiniteSet(Bp) /\ IsFiniteSet(Downgrades)
    /\ Participants \subseteq Bp /\ Coordinators \subseteq Bp
    /\ Participants \cap Coordinators = {}
    /\ wants \in [Bp -> Obj] /\ Recovered \subseteq Obj
    /\ gbl_maxretries \in Nat \ {0}
    /\ None \notin Bp /\ Prepare \notin Bp /\ None # Prepare

VARIABLES pc,             \* of each block processor
          retries,
          blkcnt, prepared_count,
          holder,         \* of each lock object
          hbeats,         \* participants whose heartbeats are enabled
          dg,             \* of each downgrade
          bdb_lock_desired,
          read_write, ismaster,
          discarded       \* objects whose prepared holder gave up the lock

lockvars == <<holder, discarded>>
counts == <<blkcnt, prepared_count>>
envvars == <<dg, bdb_lock_desired, read_write, ismaster>>
vars == <<pc, retries, counts, lockvars, hbeats, envvars>>

\* Where a block processor is counted in prepared_count, holds the bdb lock,
\* and is counted in blkcnt.
Prepared == {"prepared", "discard"}
Reading  == Prepared \cup {"running", "writing", "waiting", "aborted", "locked",
                           "prep", "resolved", "drop"}
Inside   == Reading \cup {"entered", "leaving", "retrying"}

Dist == Participants \cup Coordinators
Readers == {b \in Bp : pc[b] \in Reading}
Waiters(o) == {b \in Bp : pc[b] = "waiting" /\ wants[b] = o}

Init == /\ pc = [b \in Bp |-> "toblock"] /\ retries = [b \in Bp |-> 0]
        /\ blkcnt = 0 /\ prepared_count = 0
        /\ holder = [o \in Obj |-> IF o \in Recovered THEN Prepare ELSE None]
        /\ hbeats = Participants
        /\ dg = [d \in Downgrades |-> "idle"] /\ bdb_lock_desired = 0
        /\ read_write = TRUE /\ ismaster = TRUE
        /\ discarded = {}

-----------------------------------------------------------------------------
\* toblock: only the master goes on.
toblock(b) ==
    /\ pc[b] = "toblock"
    /\ pc' = [pc EXCEPT ![b] = IF ismaster THEN "outer" ELSE "rejected"]
    /\ UNCHANGED <<retries, counts, lockvars, hbeats, envvars>>

\* toblock_main, under blklk.
toblock_main(b) ==
    /\ pc[b] = "outer"
    /\ IF bdb_lock_desired > 0
       THEN /\ pc' = [pc EXCEPT ![b] = "rejected"] /\ UNCHANGED blkcnt
       ELSE /\ pc' = [pc EXCEPT ![b] = "entered"] /\ blkcnt' = blkcnt + 1
    /\ UNCHANGED <<retries, prepared_count, lockvars, hbeats, envvars>>

\* bdb_tran_begin_pp: the bdb lock in read mode, which only a writer that has
\* it keeps out.
trans_start(b) ==
    /\ pc[b] = "entered"
    /\ \A d \in Downgrades : dg[d] # "writing"
    /\ pc' = [pc EXCEPT ![b] = "running"]
    /\ UNCHANGED <<retries, counts, lockvars, hbeats, envvars>>

\* bdb_write_preamble looks at read_write before it asks for a lock.
write_preamble(b) ==
    /\ pc[b] = "running" /\ read_write
    /\ pc' = [pc EXCEPT ![b] = "writing"]
    /\ UNCHANGED <<retries, counts, lockvars, hbeats, envvars>>

lock_get(b) ==
    /\ pc[b] = "writing"
    /\ IF holder[wants[b]] = None
       THEN /\ holder' = [holder EXCEPT ![wants[b]] = b]
            /\ pc' = [pc EXCEPT ![b] = "locked"]
       ELSE /\ pc' = [pc EXCEPT ![b] = "waiting"] /\ UNCHANGED holder
    /\ UNCHANGED <<retries, counts, discarded, hbeats, envvars>>

lock_promoted(b) ==
    /\ pc[b] = "waiting" /\ holder[wants[b]] = None
    /\ holder' = [holder EXCEPT ![wants[b]] = b]
    /\ pc' = [pc EXCEPT ![b] = "locked"]
    /\ UNCHANGED <<retries, counts, discarded, hbeats, envvars>>

\* Commit or abort of the transaction of b, which then goes to where: its
\* lock, if it has it, and the bdb lock are released.
Release(b, where) ==
    /\ holder' = [holder EXCEPT ![wants[b]] = IF @ = b THEN None ELSE @]
    /\ pc' = [pc EXCEPT ![b] = where]

\* The rows of the bplog stop being applied when a downgrade wants the lock,
\* and writes fail on a database that is no longer writable: ERR_NOMASTER,
\* after which a distributed transaction fails (abort_disttxn).
nomaster(b) ==
    /\ pc[b] \in {"running", "locked"}
    /\ bdb_lock_desired > 0 \/ ~read_write
    /\ Release(b, "leaving")
    /\ hbeats' = hbeats \ {b}
    /\ UNCHANGED <<retries, counts, discarded, envvars>>

\* A transaction that was aborted while it waited: RC_INTERNAL_RETRY.
deadlock(b) ==
    /\ pc[b] = "aborted"
    /\ Release(b, "retrying")
    /\ UNCHANGED <<retries, counts, discarded, hbeats, envvars>>

\* The end of a transaction that is not distributed, or of a distributed one
\* whose rows failed: participant_has_failed or coordinator_failed, and commit.
commit(b) ==
    /\ pc[b] = "locked"
    /\ Release(b, "leaving")
    /\ hbeats' = hbeats \ {b}
    /\ UNCHANGED <<retries, counts, discarded, envvars>>

\* bdb_tran_prepare writes the record and waits for it to be durable; when it
\* is not, the transaction fails and is aborted.
prepare_failed(b) ==
    /\ pc[b] = "prep"
    /\ Release(b, "leaving")
    /\ hbeats' = hbeats \ {b}
    /\ UNCHANGED <<retries, counts, discarded, envvars>>

tran_prepare(b) ==
    /\ pc[b] = "locked" /\ b \in Dist
    /\ pc' = [pc EXCEPT ![b] = "prep"]
    /\ UNCHANGED <<retries, counts, lockvars, hbeats, envvars>>

prepared(b) ==
    /\ pc[b] = "prep"
    /\ prepared_count' = prepared_count + 1
    /\ pc' = [pc EXCEPT ![b] = "prepared"]
    /\ UNCHANGED <<retries, blkcnt, lockvars, hbeats, envvars>>

-----------------------------------------------------------------------------
\* coordinator_wait or participant_wait returns the decision, which is then
\* carried out.
has_committed(b) ==
    /\ pc[b] = "prepared"
    /\ prepared_count' = prepared_count - 1
    /\ pc' = [pc EXCEPT ![b] = "resolved"]
    /\ UNCHANGED <<retries, blkcnt, lockvars, hbeats, envvars>>

has_aborted(b) ==
    /\ pc[b] = "prepared"
    /\ prepared_count' = prepared_count - 1
    /\ pc' = [pc EXCEPT ![b] = "resolved"]
    /\ hbeats' = hbeats \ {b}
    /\ UNCHANGED <<retries, blkcnt, lockvars, envvars>>

\* A faulty variant: a commit leaves the heartbeats on.
resolve_faulty(b) ==
    /\ pc[b] = "resolved"
    /\ Release(b, "leaving")
    /\ UNCHANGED <<retries, counts, discarded, hbeats, envvars>>

resolve(b) ==
    /\ pc[b] = "resolved"
    /\ Release(b, "leaving")
    /\ hbeats' = hbeats \ {b}
    /\ UNCHANGED <<retries, counts, discarded, envvars>>

\* The wait ends because a downgrade wants the lock.  A coordinator that has
\* not written its commit record aborts; one that waits for the record to be
\* durable, and a participant, must discard.
lock_desired_abort(b) == b \in Coordinators /\ bdb_lock_desired > 0 /\ has_aborted(b)

\* A faulty variant: a prepared transaction gives up its locks and leaves.
lock_desired_faulty(b) ==
    /\ pc[b] = "prepared" /\ bdb_lock_desired > 0
    /\ Release(b, "leaving")
    /\ prepared_count' = prepared_count - 1
    /\ discarded' = discarded \cup {wants[b]}
    /\ hbeats' = hbeats \ {b}
    /\ UNCHANGED <<retries, blkcnt, envvars>>

lock_desired(b) ==
    /\ pc[b] = "prepared" /\ bdb_lock_desired > 0
    /\ pc' = [pc EXCEPT ![b] = "discard"]
    /\ hbeats' = hbeats \ {b}
    /\ UNCHANGED <<retries, counts, lockvars, envvars>>

\* bdb_abort_waiters: whoever waits for one of these objects gets a deadlock.
Abort(objs) == pc' = [b \in Bp |-> IF \E o \in objs : b \in Waiters(o) THEN "aborted" ELSE pc[b]]

\* A faulty variant: it only waits.
discard_wait_faulty(b) == FALSE /\ UNCHANGED vars

\* The loop over prepared_count < blkcnt, under blklk.
discard_wait(b) ==
    /\ pc[b] = "discard" /\ prepared_count < blkcnt
    /\ Waiters(wants[b]) # {}
    /\ Abort({wants[b]})
    /\ UNCHANGED <<retries, counts, lockvars, hbeats, envvars>>

\* A faulty variant: the locks are given up at once.
discard_go_faulty(b) ==
    /\ pc[b] = "discard"
    /\ prepared_count' = prepared_count - 1
    /\ pc' = [pc EXCEPT ![b] = "drop"]
    /\ UNCHANGED <<retries, blkcnt, lockvars, hbeats, envvars>>

discard_go(b) ==
    /\ pc[b] = "discard" /\ prepared_count >= blkcnt
    /\ prepared_count' = prepared_count - 1
    /\ pc' = [pc EXCEPT ![b] = "drop"]
    /\ UNCHANGED <<retries, blkcnt, lockvars, hbeats, envvars>>

\* trans_discard_prepared, once bdb_tran_count_write_waiters has been looked at.
trans_discard_prepared(b) ==
    /\ pc[b] = "drop"
    /\ Release(b, "leaving")
    /\ discarded' = discarded \cup {wants[b]}
    /\ UNCHANGED <<retries, counts, hbeats, envvars>>

\* The end of toblock_main, and what handle_op_local makes of the answer.
leave(b) ==
    \/ /\ pc[b] = "leaving"
       /\ blkcnt' = blkcnt - 1 /\ pc' = [pc EXCEPT ![b] = "done"]
       /\ UNCHANGED <<retries, prepared_count, lockvars, hbeats, envvars>>
    \/ /\ pc[b] = "retrying"
       /\ blkcnt' = blkcnt - 1 /\ retries' = [retries EXCEPT ![b] = @ + 1]
       /\ IF retries'[b] < gbl_maxretries
          THEN pc' = [pc EXCEPT ![b] = "toblock"] /\ UNCHANGED hbeats
          ELSE pc' = [pc EXCEPT ![b] = "done"] /\ hbeats' = hbeats \ {b}
       /\ UNCHANGED <<prepared_count, lockvars, envvars>>

-----------------------------------------------------------------------------
\* bdb_set_read_only, before the bdb lock is asked for.
set_read_only(d) ==
    /\ dg[d] = "idle"
    /\ read_write' = FALSE
    /\ dg' = [dg EXCEPT ![d] = "readonly"]
    /\ UNCHANGED <<pc, retries, counts, lockvars, hbeats, bdb_lock_desired, ismaster>>

\* bdb_get_writelock_int.
get_writelock(d) ==
    /\ dg[d] = "readonly"
    /\ bdb_lock_desired' = bdb_lock_desired + 1
    /\ dg' = [dg EXCEPT ![d] = "want"]
    /\ UNCHANGED <<pc, retries, counts, lockvars, hbeats, read_write, ismaster>>

got_writelock(d) ==
    /\ dg[d] = "want" /\ Readers = {} /\ \A e \in Downgrades : dg[e] # "writing"
    /\ bdb_lock_desired' = bdb_lock_desired - 1
    /\ dg' = [dg EXCEPT ![d] = "writing"]
    /\ UNCHANGED <<pc, retries, counts, lockvars, hbeats, read_write, ismaster>>

\* bdb_downgrade_int, whoismaster_rtn and the release of the lock.
downgrade_int(d) ==
    /\ dg[d] = "writing"
    /\ ismaster' = FALSE
    /\ dg' = [dg EXCEPT ![d] = "done"]
    /\ UNCHANGED <<pc, retries, counts, lockvars, hbeats, bdb_lock_desired, read_write>>

\* bdb_abort_prepared_thd, as long as the downgrade waits for the lock:
\* __txn_abort_prepared_waiters looks at the prepares that recovery found.
abort_prepared_thd ==
    LET objs == {o \in Obj : holder[o] = Prepare}
    IN  /\ \E d \in Downgrades : dg[d] \in {"readonly", "want"}
        /\ bdb_lock_desired > 0
        /\ \E o \in objs : Waiters(o) # {}
        /\ Abort(objs)
        /\ UNCHANGED <<retries, counts, lockvars, hbeats, envvars>>

\* A recovered prepare is resolved by its coordinator's decision.
resolve_recovered(o) ==
    /\ holder[o] = Prepare
    /\ holder' = [holder EXCEPT ![o] = None]
    /\ UNCHANGED <<pc, retries, counts, discarded, hbeats, envvars>>

-----------------------------------------------------------------------------
\* What a block processor does by itself, and what the coordinators decide.
Proceed(b) ==
    \/ toblock(b) \/ toblock_main(b) \/ trans_start(b) \/ write_preamble(b)
    \/ lock_get(b) \/ lock_promoted(b)
    \/ nomaster(b) \/ deadlock(b) \/ commit(b) \/ tran_prepare(b) \/ prepare_failed(b)
    \/ prepared(b) \/ resolve(b) \/ lock_desired_abort(b) \/ lock_desired(b)
    \/ discard_wait(b) \/ discard_go(b) \/ trans_discard_prepared(b) \/ leave(b)

Decide == \/ \E b \in Bp : has_committed(b) \/ has_aborted(b)
          \/ \E o \in Obj : resolve_recovered(o)

Downgrade(d) ==
    set_read_only(d) \/ get_writelock(d) \/ got_writelock(d) \/ downgrade_int(d)

Next == \/ \E b \in Bp : Proceed(b)
        \/ \E d \in Downgrades : Downgrade(d)
        \/ abort_prepared_thd
        \/ Decide

Safe == Init /\ [][Next]_vars

\* Threads run; a decision may never come, and a downgrade may never begin.
Spec == /\ Safe
        /\ \A b \in Bp : WF_vars(Proceed(b))
        /\ \A d \in Downgrades : WF_vars(dg[d] # "idle" /\ Downgrade(d))
        /\ WF_vars(abort_prepared_thd)

-----------------------------------------------------------------------------
TypeOK ==
    /\ pc \in [Bp -> Inside \cup {"toblock", "outer", "rejected", "done"}]
    /\ retries \in [Bp -> 0..gbl_maxretries]
    /\ blkcnt \in Nat /\ prepared_count \in Nat
    /\ holder \in [Obj -> Bp \cup {None, Prepare}]
    /\ hbeats \subseteq Participants
    /\ dg \in [Downgrades -> {"idle", "readonly", "want", "writing", "done"}]
    /\ bdb_lock_desired \in Nat
    /\ read_write \in BOOLEAN /\ ismaster \in BOOLEAN
    /\ discarded \subseteq Obj

\* blkcnt is the number of block processors in toblock_main, and
\* prepared_count that of those between their prepare and the decision, on
\* every path through failures, retries and discards.
CountsTrue ==
    /\ blkcnt = Cardinality({b \in Bp : pc[b] \in Inside})
    /\ prepared_count = Cardinality({b \in Bp : pc[b] \in Prepared})

\* What a block processor is about to discard nobody waits for: the count of
\* write-waiters that toblock_main_int aborts the process on is zero.
NoWriteWaiters == \A b \in Bp : pc[b] = "drop" => Waiters(wants[b]) = {}

\* The rows of a discarded prepared transaction, which the next master will
\* protect again, are not written in between: nobody gets, or waits for, a
\* lock that a prepared transaction has discarded.
NotOverwritten == \A o \in discarded : holder[o] = None /\ Waiters(o) = {}

\* A downgrade that waits for the bdb lock gets it, whether or not any
\* coordinator ever decides.
DowngradeGetsLock == \A d \in Downgrades : dg[d] = "want" ~> dg[d] = "done"

\* A participant's heartbeats follow its block processor: they are on as long
\* as it may still prepare or waits for the decision, through any number of
\* retries, so that its coordinator does not give it up; and they are off once
\* it has ended, so that the coordinator does not wait for it.  One that
\* toblock or toblock_main rejects is the exception: nothing turns them off.
HeartbeatsFollow ==
    \A b \in Participants :
        /\ pc[b] \in {"discard", "drop", "leaving", "done"} => b \notin hbeats
        /\ pc[b] \notin {"resolved", "discard", "drop", "leaving", "done"} => b \in hbeats
=============================================================================
