------------------------------ MODULE BdbLock ------------------------------
(***************************************************************************)
(* The bdb lock (bdb/bdblock.c): one reader/writer lock that every thread  *)
(* of the database holds in read mode while it works, and that a change of *)
(* master or a log truncation takes in write mode.                         *)
(*                                                                         *)
(* Each thread keeps a reference count (thread_lock_info_type).  A thread  *)
(* that asks for the write lock while it has the read lock gives the read  *)
(* lock up first, remembers its count, and gets it back when the write     *)
(* lock is released.  The rwlock prefers readers, as the C library's does: *)
(* it can be read-locked while a writer waits.  What brings the writer     *)
(* forward is bdb_lock_desired, which sql statements look at               *)
(* (recover_deadlock in db/sqlglue.c).                                     *)
(*                                                                         *)
(* A Worker makes Requests requests, each of nested calls, at most         *)
(* MaxCalls deep and at most MaxGets in number.  A User runs sql           *)
(* statements for ever.                                                    *)
(***************************************************************************)
EXTENDS Integers, Sequences, FiniteSets

CONSTANTS Worker, User, MaxCalls, MaxGets, Requests, None

ASSUME ThreadAssumption ==
    /\ Worker \cap User = {} /\ None \notin Worker \cup User
    /\ IsFiniteSet(Worker)
    /\ MaxCalls \in Nat /\ MaxGets \in Nat /\ Requests \in Nat

Thread == Worker \cup User

VARIABLES locktype, lockref, readlockref, \* of each thread
          rdlocked, wrlocked,  \* the rwlock: its readers and its writer
          bdb_lock_desired,
          pc, ret,             \* where a thread is, and where it goes on with the read lock
          calls,               \* history: the calls of a thread that are not released yet
          gets, requests       \* calls of a worker in this request, and requests left

info == <<locktype, lockref, readlockref>>
vars == <<info, rdlocked, wrlocked, bdb_lock_desired, pc, ret, calls, gets, requests>>

Init == /\ locktype = [t \in Thread |-> "NOLOCK"]
        /\ lockref = [t \in Thread |-> 0] /\ readlockref = [t \in Thread |-> 0]
        /\ rdlocked = {} /\ wrlocked = None
        /\ bdb_lock_desired = 0
        /\ pc = [t \in Thread |-> "run"] /\ ret = [t \in Thread |-> "run"]
        /\ calls = [t \in Thread |-> <<>>]
        /\ gets = [t \in Worker |-> 0] /\ requests = [t \in Worker |-> Requests]

-----------------------------------------------------------------------------
\* The first read lock of a thread: granted unless a writer has the lock, or
\* the thread blocks.  It then goes on at next.
first_readlock(t, next) ==
    \/ /\ wrlocked = None
       /\ rdlocked' = rdlocked \cup {t}
       /\ locktype' = [locktype EXCEPT ![t] = "READLOCK"]
       /\ lockref' = [lockref EXCEPT ![t] = 1]
       /\ pc' = [pc EXCEPT ![t] = next]
       /\ UNCHANGED ret
    \/ /\ wrlocked # None
       /\ pc' = [pc EXCEPT ![t] = "rdwait"] /\ ret' = [ret EXCEPT ![t] = next]
       /\ UNCHANGED <<rdlocked, locktype, lockref>>

\* A thread that blocked in bdb_get_readlock.
rdlock(t) ==
    /\ pc[t] = "rdwait" /\ wrlocked = None
    /\ rdlocked' = rdlocked \cup {t}
    /\ locktype' = [locktype EXCEPT ![t] = "READLOCK"]
    /\ lockref' = [lockref EXCEPT ![t] = 1]
    /\ pc' = [pc EXCEPT ![t] = ret[t]]
    /\ UNCHANGED <<readlockref, wrlocked, bdb_lock_desired, ret, calls, gets, requests>>

Called(t, mode) == calls' = [calls EXCEPT ![t] = Append(@, mode)]

MayCall(t) == /\ pc[t] = "run"
              /\ requests[t] > 0 /\ gets[t] < MaxGets /\ Len(calls[t]) < MaxCalls

bdb_get_readlock(t) ==
    /\ MayCall(t)
    /\ gets' = [gets EXCEPT ![t] = @ + 1]
    /\ Called(t, "R")
    /\ \/ lockref[t] = 0 /\ first_readlock(t, "run")
       \/ /\ lockref[t] > 0
          /\ lockref' = [lockref EXCEPT ![t] = @ + 1]
          /\ UNCHANGED <<rdlocked, locktype, pc, ret>>
    /\ UNCHANGED <<readlockref, wrlocked, bdb_lock_desired, requests>>

\* A faulty variant: the count of an upgraded read lock is not remembered.
bdb_get_writelock_faulty(t) ==
    /\ MayCall(t)
    /\ gets' = [gets EXCEPT ![t] = @ + 1]
    /\ Called(t, "W")
    /\ \/ /\ locktype[t] = "WRITELOCK"
          /\ lockref' = [lockref EXCEPT ![t] = @ + 1]
          /\ UNCHANGED <<readlockref, rdlocked, locktype, pc>>
       \/ /\ locktype[t] # "WRITELOCK"
          /\ lockref' = [lockref EXCEPT ![t] = 0]
          /\ locktype' = [locktype EXCEPT ![t] = "NOLOCK"]
          /\ rdlocked' = rdlocked \ {t}
          /\ pc' = [pc EXCEPT ![t] = "want"]
          /\ UNCHANGED readlockref
    /\ UNCHANGED <<wrlocked, bdb_lock_desired, ret, requests>>

\* bdb_get_writelock_int up to the release of a read lock.
bdb_get_writelock(t) ==
    /\ MayCall(t)
    /\ gets' = [gets EXCEPT ![t] = @ + 1]
    /\ Called(t, "W")
    /\ \/ /\ locktype[t] = "WRITELOCK"
          /\ lockref' = [lockref EXCEPT ![t] = @ + 1]
          /\ UNCHANGED <<readlockref, rdlocked, locktype, pc>>
       \/ /\ locktype[t] # "WRITELOCK"
          /\ readlockref' = [readlockref EXCEPT ![t] = lockref[t]]
          /\ lockref' = [lockref EXCEPT ![t] = 0]
          /\ locktype' = [locktype EXCEPT ![t] = "NOLOCK"]
          /\ rdlocked' = rdlocked \ {t}
          /\ pc' = [pc EXCEPT ![t] = "want"]
    /\ UNCHANGED <<wrlocked, bdb_lock_desired, ret, requests>>

want_writelock(t) ==
    /\ pc[t] = "want"
    /\ bdb_lock_desired' = bdb_lock_desired + 1
    /\ pc' = [pc EXCEPT ![t] = "wrwait"]
    /\ UNCHANGED <<info, rdlocked, wrlocked, ret, calls, gets, requests>>

\* A faulty variant: the writer does not wait for readers.
wrlock_faulty(t) ==
    /\ pc[t] = "wrwait" /\ wrlocked = None
    /\ wrlocked' = t
    /\ pc' = [pc EXCEPT ![t] = "got"]
    /\ UNCHANGED <<info, rdlocked, bdb_lock_desired, ret, calls, gets, requests>>

\* trywrlock, or wrlock when that was busy.
wrlock(t) ==
    /\ pc[t] = "wrwait" /\ wrlocked = None /\ rdlocked = {}
    /\ wrlocked' = t
    /\ pc' = [pc EXCEPT ![t] = "got"]
    /\ UNCHANGED <<info, rdlocked, bdb_lock_desired, ret, calls, gets, requests>>

got_writelock(t) ==
    /\ pc[t] = "got"
    /\ bdb_lock_desired' = bdb_lock_desired - 1
    /\ locktype' = [locktype EXCEPT ![t] = "WRITELOCK"]
    /\ lockref' = [lockref EXCEPT ![t] = @ + 1]
    /\ pc' = [pc EXCEPT ![t] = "run"]
    /\ UNCHANGED <<readlockref, rdlocked, wrlocked, ret, calls, gets, requests>>

\* The rwlock without thread t.
Unlock(t) == /\ rdlocked' = rdlocked \ {t}
             /\ wrlocked' = IF wrlocked = t THEN None ELSE wrlocked

\* bdb_rellock of the call made last; the last reference of an upgraded lock
\* is followed by the reacquisition of the read lock.
bdb_rellock(t) ==
    /\ pc[t] = "run" /\ t \in Worker /\ calls[t] # <<>>
    /\ calls' = [calls EXCEPT ![t] = SubSeq(@, 1, Len(@) - 1)]
    /\ lockref' = [lockref EXCEPT ![t] = @ - 1]
    /\ \/ /\ lockref[t] > 1
          /\ UNCHANGED <<locktype, rdlocked, wrlocked, pc>>
       \/ /\ lockref[t] = 1
          /\ Unlock(t)
          /\ locktype' = [locktype EXCEPT ![t] = "NOLOCK"]
          /\ pc' = [pc EXCEPT ![t] = IF readlockref[t] > 0 THEN "reread" ELSE "run"]
    /\ UNCHANGED <<readlockref, bdb_lock_desired, ret, gets, requests>>

\* The loop that calls bdb_get_readlock readlockref times, of which only the
\* first call may block.
reread(t) ==
    /\ pc[t] = "reread" /\ wrlocked = None
    /\ rdlocked' = rdlocked \cup {t}
    /\ locktype' = [locktype EXCEPT ![t] = "READLOCK"]
    /\ lockref' = [lockref EXCEPT ![t] = readlockref[t]]
    /\ readlockref' = [readlockref EXCEPT ![t] = 0]
    /\ pc' = [pc EXCEPT ![t] = "run"]
    /\ UNCHANGED <<wrlocked, bdb_lock_desired, ret, calls, gets, requests>>

\* The end of a request, where bdb_checklock looks at lockref.
end_request(t) ==
    /\ pc[t] = "run" /\ requests[t] > 0 /\ gets[t] > 0 /\ calls[t] = <<>>
    /\ gets' = [gets EXCEPT ![t] = 0]
    /\ requests' = [requests EXCEPT ![t] = @ - 1]
    /\ UNCHANGED <<info, rdlocked, wrlocked, bdb_lock_desired, pc, ret, calls>>

-----------------------------------------------------------------------------
\* A statement: bdb_get_cursortran takes the read lock.
get_cursortran(t) ==
    /\ pc[t] = "run"
    /\ Called(t, "R")
    /\ first_readlock(t, "row")
    /\ UNCHANGED <<readlockref, wrlocked, bdb_lock_desired, gets, requests>>

put_cursortran(t, next) ==
    /\ calls' = [calls EXCEPT ![t] = <<>>]
    /\ lockref' = [lockref EXCEPT ![t] = 0]
    /\ locktype' = [locktype EXCEPT ![t] = "NOLOCK"]
    /\ Unlock(t)
    /\ pc' = [pc EXCEPT ![t] = next]
    /\ UNCHANGED <<readlockref, bdb_lock_desired, ret, gets, requests>>

\* Before each row the statement looks whether the lock is desired, and then
\* lets it go (recover_deadlock).
row(t) ==
    /\ pc[t] = "row"
    /\ \/ bdb_lock_desired > 0 /\ put_cursortran(t, "poll")
       \/ /\ bdb_lock_desired = 0
          /\ pc' = [pc EXCEPT ![t] = "next"]
          /\ UNCHANGED <<info, rdlocked, wrlocked, bdb_lock_desired, ret, calls, gets, requests>>

\* A faulty variant: the statement goes on while the lock is desired.
poll_faulty(t) ==
    /\ pc[t] = "poll"
    /\ Called(t, "R")
    /\ first_readlock(t, "next")
    /\ UNCHANGED <<readlockref, wrlocked, bdb_lock_desired, gets, requests>>

\* poll_on_lock_desired, and get_curtran_flags.
poll(t) ==
    /\ pc[t] = "poll" /\ bdb_lock_desired = 0
    /\ Called(t, "R")
    /\ first_readlock(t, "next")
    /\ UNCHANGED <<readlockref, wrlocked, bdb_lock_desired, gets, requests>>

\* There is another row, or the statement ends.
next_row(t) ==
    /\ pc[t] = "next"
    /\ \/ /\ pc' = [pc EXCEPT ![t] = "row"]
          /\ UNCHANGED <<info, rdlocked, wrlocked, bdb_lock_desired, ret, calls, gets, requests>>
       \/ put_cursortran(t, "run")

-----------------------------------------------------------------------------
Locks(t) == rdlock(t) \/ want_writelock(t) \/ wrlock(t) \/ got_writelock(t) \/ reread(t)
Step(t) == \/ t \in Worker /\ \/ bdb_get_readlock(t) \/ bdb_get_writelock(t)
                              \/ bdb_rellock(t) \/ end_request(t)
           \/ t \in User /\ (get_cursortran(t) \/ row(t) \/ poll(t) \/ next_row(t))
           \/ Locks(t)

Next == \E t \in Thread : Step(t)

Safe == Init /\ [][Next]_vars

\* The scheduler runs every thread, nobody waits in a call that can return,
\* and a request has an end.
Spec == Safe /\ \A t \in Thread : WF_vars(Step(t))

-----------------------------------------------------------------------------
TypeOK ==
    /\ locktype \in [Thread -> {"NOLOCK", "READLOCK", "WRITELOCK"}]
    /\ lockref \in [Thread -> Nat] /\ readlockref \in [Thread -> Nat]
    /\ rdlocked \subseteq Thread /\ wrlocked \in Thread \cup {None}
    /\ bdb_lock_desired \in Nat
    /\ pc \in [Thread -> {"run", "want", "wrwait", "got", "reread", "rdwait", "row", "poll", "next"}]
    /\ ret \in [Thread -> {"run", "row", "next"}]
    /\ calls \in [Thread -> Seq({"R", "W"})]
    /\ gets \in [Worker -> Nat] /\ requests \in [Worker -> Nat]

\* Whatever a thread believes it holds (locktype), it does hold, and nobody
\* else works under the read lock while one works under the write lock.
Exclusion ==
    /\ \A t \in Thread : /\ locktype[t] = "READLOCK" <=> t \in rdlocked
                         /\ locktype[t] = "WRITELOCK" => wrlocked = t
    /\ wrlocked # None => rdlocked = {}

FirstW(s) == CHOOSE k \in DOMAIN s : s[k] = "W" /\ \A j \in 1..k-1 : s[j] = "R"

\* The counts follow the calls that a thread has not released: the read calls
\* before the first write call are in readlockref, and all are back in lockref
\* after the write calls are released.
CountsCalls ==
    \A t \in Thread : pc[t] \notin {"rdwait", "want", "wrwait", "got", "reread"} =>
       LET c == calls[t]
       IN  IF \E k \in DOMAIN c : c[k] = "W"
           THEN /\ locktype[t] = "WRITELOCK"
                /\ lockref[t] = Len(c) - FirstW(c) + 1 /\ readlockref[t] = FirstW(c) - 1
           ELSE /\ locktype[t] = IF c = <<>> THEN "NOLOCK" ELSE "READLOCK"
                /\ lockref[t] = Len(c) /\ readlockref[t] = 0

\* bdb_lock_desired counts the threads between their wish for the write lock
\* and its grant: nobody is asked to leave for a writer that has been served.
DesiredCounts == bdb_lock_desired = Cardinality({t \in Worker : pc[t] \in {"wrwait", "got"}})

\* Everyone who asks for the bdb lock gets it: two threads that upgrade a read
\* lock do not wait for each other, and sql that never ends lets a writer in.
Granted == \A t \in Worker : pc[t] \in {"rdwait", "want", "reread"} ~> pc[t] = "run"
=============================================================================
