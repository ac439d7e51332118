--------------------------- MODULE BdbLockProofs ---------------------------
(***************************************************************************)
(* Exclusion, the counts of a thread and the desired count of the bdb      *)
(* lock, for any number of threads and any depth of calls.                 *)
(*                                                                         *)
(* Shape says of one thread how its fields, its outstanding calls and the  *)
(* rwlock belong together at each point of a call, also where the thread   *)
(* has given up the read lock it upgrades and holds nothing.  A step of a  *)
(* thread restores its own Shape and leaves alone what the Shape of        *)
(* another thread speaks of.                                               *)
(***************************************************************************)
EXTENDS BdbLock, FiniteSetTheorems, TLAPS

AllR(c) == \A k \in 1..Len(c) : c[k] = "R"

Between == {"rdwait", "want", "wrwait", "got", "reread"}

\* The fields and the calls of thread t.
Counts(t) ==
    /\ pc[t] \in Between => locktype[t] = "NOLOCK" /\ lockref[t] = 0
    /\ pc[t] = "rdwait" => /\ Len(calls[t]) = 1 /\ AllR(calls[t]) /\ readlockref[t] = 0
                           /\ t \in User => ret[t] # "run"
    /\ pc[t] \in {"want", "wrwait", "got"} =>
          /\ Len(calls[t]) = readlockref[t] + 1
          /\ calls[t][readlockref[t] + 1] = "W"
          /\ \A k \in 1..readlockref[t] : calls[t][k] = "R"
    /\ pc[t] = "reread" => /\ readlockref[t] > 0
                           /\ Len(calls[t]) = readlockref[t] /\ AllR(calls[t])
    /\ pc[t] \notin Between =>
          /\ locktype[t] = "NOLOCK" => calls[t] = <<>> /\ lockref[t] = 0 /\ readlockref[t] = 0
          /\ locktype[t] = "READLOCK" =>
                /\ Len(calls[t]) > 0 /\ AllR(calls[t])
                /\ lockref[t] = Len(calls[t]) /\ readlockref[t] = 0
          /\ locktype[t] = "WRITELOCK" =>
                /\ lockref[t] > 0 /\ lockref[t] = Len(calls[t]) - readlockref[t]
                /\ calls[t][readlockref[t] + 1] = "W"
                /\ \A k \in 1..readlockref[t] : calls[t][k] = "R"

\* Where a thread that runs sql may be.
SqlThread(t) ==
    t \in User => /\ pc[t] \in {"run", "rdwait", "row", "poll", "next"}
                  /\ pc[t] \in {"run", "poll"} => locktype[t] = "NOLOCK"
                  /\ pc[t] \in {"row", "next"} => locktype[t] = "READLOCK"

Shape(t) == /\ Counts(t) /\ SqlThread(t)
            /\ t \in rdlocked <=> locktype[t] = "READLOCK"
            /\ wrlocked = t <=> (pc[t] = "got" \/ locktype[t] = "WRITELOCK")

Rwlock == wrlocked # None => rdlocked = {}

Wanting == {t \in Worker : pc[t] \in {"wrwait", "got"}}

IInv == /\ TypeOK /\ Rwlock /\ DesiredCounts
        /\ \A t \in Thread : Shape(t)

-----------------------------------------------------------------------------
\* All that the shape of u speaks of is left alone.
Same(u) ==
    /\ locktype'[u] = locktype[u] /\ lockref'[u] = lockref[u]
    /\ readlockref'[u] = readlockref[u] /\ calls'[u] = calls[u]
    /\ pc'[u] = pc[u] /\ ret'[u] = ret[u]
    /\ u \in rdlocked' <=> u \in rdlocked
    /\ wrlocked' = u <=> wrlocked = u

\* A step of thread t leaves the others alone.
Others(t) == \A u \in Thread \ {t} : Same(u)

\* A thread that a step leaves alone keeps its shape.
LEMMA ShapeSame ==
    ASSUME NEW u \in Thread, Same(u), Shape(u)
    PROVE  Shape(u)'
<1>1. Counts(u)' BY DEF Same, Shape, Counts, AllR
<1>2. SqlThread(u)' BY DEF Same, Shape, SqlThread
<1> QED BY <1>1, <1>2 DEF Same, Shape

\* A step of t's leaves the shapes of the other threads' lock infos alone.
LEMMA ShapeFrame ==
    ASSUME NEW t \in Thread, Others(t), \A u \in Thread : Shape(u)
    PROVE  \A u \in Thread \ {t} : Shape(u)'
  BY ShapeSame DEF Others

-----------------------------------------------------------------------------
\* Facts about no calls at all.
LEMMA NoCalls == AllR(<<>>) /\ Len(<<>>) = 0 /\ DOMAIN <<>> = {}
  BY DEF AllR

\* A thread outside the calls, with nothing or with read locks.
LEMMA CountsNone ==
    ASSUME NEW t, pc'[t] \notin Between, locktype'[t] = "NOLOCK",
           calls'[t] = <<>>, lockref'[t] = 0, readlockref'[t] = 0
    PROVE  Counts(t)'
  BY DEF Counts, Between

\* A thread whose calls are all get_readlock has counted them in lockref.
LEMMA CountsRead ==
    ASSUME NEW t, pc'[t] \notin Between, locktype'[t] = "READLOCK",
           Len(calls'[t]) > 0, AllR(calls'[t]), lockref'[t] = Len(calls'[t]), readlockref'[t] = 0
    PROVE  Counts(t)'
  BY DEF Counts, Between

\* No thread has called, and none holds the lock.
LEMMA InitInv == Init => IInv
<1> SUFFICES ASSUME Init PROVE IInv OBVIOUS
<1> USE DEF Init
<1>1. TypeOK BY ThreadAssumption DEF TypeOK
<1>2. Rwlock BY DEF Rwlock
<1>3. DesiredCounts
  <2>1. {t \in Worker : pc[t] \in {"wrwait", "got"}} = {} BY DEF Thread
  <2> QED BY <2>1, FS_EmptySet DEF DesiredCounts
<1>4. \A t \in Thread : Shape(t)
  BY ThreadAssumption DEF Shape, Counts, SqlThread, AllR, Between, Thread
<1> QED BY <1>1, <1>2, <1>3, <1>4 DEF IInv

-----------------------------------------------------------------------------
(***************************************************************************)
(* Type correctness.                                                       *)
(***************************************************************************)
\* A step of thread t changes the calls of t only.
LEMMA TypeCalls ==
    ASSUME TypeOK, NEW t \in Thread, NEW m \in {"R", "W"}, Called(t, m)
    PROVE  calls' \in [Thread -> Seq({"R", "W"})]
  BY DEF TypeOK, Called

\* bdb_get_readlock of a thread without a reference keeps the types.
LEMMA TypeFirst ==
    ASSUME TypeOK, NEW t \in Thread, NEW n \in {"run", "row", "next"}, first_readlock(t, n)
    PROVE  /\ locktype' \in [Thread -> {"NOLOCK", "READLOCK", "WRITELOCK"}]
           /\ lockref' \in [Thread -> Nat]
           /\ rdlocked' \subseteq Thread
           /\ pc' \in [Thread -> {"run", "want", "wrwait", "got", "reread", "rdwait", "row", "poll", "next"}]
           /\ ret' \in [Thread -> {"run", "row", "next"}]
<1>1. locktype \in [Thread -> {"NOLOCK", "READLOCK", "WRITELOCK"}] BY DEF TypeOK
<1>2. lockref \in [Thread -> Nat] BY DEF TypeOK
<1>3. pc \in [Thread -> {"run", "want", "wrwait", "got", "reread", "rdwait", "row", "poll", "next"}]
  BY DEF TypeOK
<1>4. ret \in [Thread -> {"run", "row", "next"}] /\ rdlocked \subseteq Thread BY DEF TypeOK
<1>5. locktype' \in [Thread -> {"NOLOCK", "READLOCK", "WRITELOCK"}] BY <1>1 DEF first_readlock
<1>6. lockref' \in [Thread -> Nat] BY <1>2 DEF first_readlock
<1>7. pc' \in [Thread -> {"run", "want", "wrwait", "got", "reread", "rdwait", "row", "poll", "next"}]
  BY <1>3 DEF first_readlock
<1>8. ret' \in [Thread -> {"run", "row", "next"}] /\ rdlocked' \subseteq Thread
  BY <1>4 DEF first_readlock
<1> QED BY <1>5, <1>6, <1>7, <1>8

\* put_curtran keeps the types.
LEMMA TypePut ==
    ASSUME TypeOK, NEW t \in Thread, NEW n \in {"poll", "run"}, put_cursortran(t, n)
    PROVE  TypeOK'
  BY DEF TypeOK, put_cursortran, Unlock

\* Every step keeps the type invariant.
LEMMA TypeStep ==
    ASSUME IInv, NEW t \in Thread, Step(t)
    PROVE  TypeOK'
<1> USE DEF IInv
<1>1. CASE t \in Worker /\ bdb_get_readlock(t)
  <2>1. calls' \in [Thread -> Seq({"R", "W"})] BY <1>1, TypeCalls DEF bdb_get_readlock
  <2>8. gets \in [Worker -> Nat] BY DEF TypeOK
  <2>9. gets' = [gets EXCEPT ![t] = @ + 1] BY <1>1 DEF bdb_get_readlock
  <2>2. gets' \in [Worker -> Nat] BY <1>1, <2>8, <2>9
  <2>3. CASE lockref[t] = 0 /\ first_readlock(t, "run")
    BY <1>1, <2>1, <2>2, <2>3, TypeFirst DEF bdb_get_readlock, TypeOK
  <2>4. CASE lockref[t] > 0
    <3>1. lockref[t] \in Nat BY DEF TypeOK
    <3>2. lockref' = [lockref EXCEPT ![t] = @ + 1] /\ UNCHANGED <<rdlocked, locktype, pc, ret>>
      BY <1>1, <2>4, <3>1 DEF bdb_get_readlock
    <3>3. lockref' \in [Thread -> Nat] BY <3>2 DEF TypeOK
    <3> QED BY <1>1, <2>1, <2>2, <3>2, <3>3 DEF bdb_get_readlock, TypeOK
  <2> QED BY <1>1, <2>3, <2>4 DEF bdb_get_readlock
<1>2. CASE t \in Worker /\ bdb_get_writelock(t)
  <2>1. calls' \in [Thread -> Seq({"R", "W"})] BY <1>2, TypeCalls DEF bdb_get_writelock
  <2>8. gets \in [Worker -> Nat] BY DEF TypeOK
  <2>9. gets' = [gets EXCEPT ![t] = @ + 1] BY <1>2 DEF bdb_get_writelock
  <2>2. gets' \in [Worker -> Nat] BY <1>2, <2>8, <2>9
  <2>0. lockref \in [Thread -> Nat] /\ readlockref \in [Thread -> Nat] BY DEF TypeOK
  <2>3. lockref' \in [Thread -> Nat] /\ readlockref' \in [Thread -> Nat]
    BY <1>2, <2>0 DEF bdb_get_writelock
  <2>4. locktype' \in [Thread -> {"NOLOCK", "READLOCK", "WRITELOCK"}] /\ rdlocked' \subseteq Thread
    BY <1>2 DEF bdb_get_writelock, TypeOK
  <2>5. pc' \in [Thread -> {"run", "want", "wrwait", "got", "reread", "rdwait", "row", "poll", "next"}]
    BY <1>2 DEF bdb_get_writelock, TypeOK
  <2> QED BY <1>2, <2>1, <2>2, <2>3, <2>4, <2>5 DEF bdb_get_writelock, TypeOK
<1>3. CASE t \in Worker /\ bdb_rellock(t)
  <2>1. calls[t] \in Seq({"R", "W"}) /\ Len(calls[t]) - 1 \in Nat
    BY <1>3 DEF bdb_rellock, TypeOK
  <2>2. SubSeq(calls[t], 1, Len(calls[t]) - 1) \in Seq({"R", "W"}) BY <2>1
  <2>3. calls' \in [Thread -> Seq({"R", "W"})] BY <1>3, <2>2 DEF bdb_rellock, TypeOK
  <2>4. lockref' \in [Thread -> Nat] BY <1>3 DEF bdb_rellock, TypeOK
  <2> QED BY <1>3, <2>3, <2>4 DEF bdb_rellock, TypeOK, Unlock
<1>4. CASE t \in Worker /\ end_request(t)
  BY <1>4 DEF end_request, TypeOK, info
<1>5. CASE t \in User /\ get_cursortran(t)
  <2>1. calls' \in [Thread -> Seq({"R", "W"})] BY <1>5, TypeCalls DEF get_cursortran
  <2> QED BY <1>5, <2>1, TypeFirst DEF get_cursortran, TypeOK
<1>6. CASE t \in User /\ row(t)
  BY <1>6, TypePut DEF row, TypeOK, info
<1>7. CASE t \in User /\ poll(t)
  <2>1. calls' \in [Thread -> Seq({"R", "W"})] BY <1>7, TypeCalls DEF poll
  <2> QED BY <1>7, <2>1, TypeFirst DEF poll, TypeOK
<1>8. CASE t \in User /\ next_row(t)
  BY <1>8, TypePut DEF next_row, TypeOK, info
<1>9. CASE rdlock(t) BY <1>9 DEF rdlock, TypeOK
<1>10. CASE want_writelock(t) BY <1>10 DEF want_writelock, TypeOK, info
<1>11. CASE wrlock(t) BY <1>11 DEF wrlock, TypeOK, info
<1>12. CASE got_writelock(t)
  <2>1. t \in Wanting
    BY <1>12 DEF got_writelock, Wanting, Shape, SqlThread, Thread
  <2>2. IsFiniteSet(Wanting) BY ThreadAssumption, FS_Subset DEF Wanting
  <2>3. bdb_lock_desired = Cardinality(Wanting) BY DEF DesiredCounts, Wanting
  <2>4. bdb_lock_desired # 0 BY <2>1, <2>2, <2>3, FS_EmptySet
  <2> QED BY <1>12, <2>4 DEF got_writelock, TypeOK
<1>13. CASE reread(t) BY <1>13 DEF reread, TypeOK
<1> QED
  BY <1>1, <1>2, <1>3, <1>4, <1>5, <1>6, <1>7, <1>8, <1>9, <1>10, <1>11, <1>12, <1>13 DEF Step, Locks

-----------------------------------------------------------------------------
(***************************************************************************)
(* What each step does to the shape of its thread.                         *)
(***************************************************************************)
Moves(t) == Shape(t)' /\ Others(t) /\ Rwlock'

\* Nobody holds the rwlock for writing when a thread holds nothing and reads.
LEMMA MovesFirst ==
    ASSUME IInv, NEW t \in Thread, NEW n \in {"run", "row", "next"},
           pc[t] \notin Between, locktype[t] = "NOLOCK", first_readlock(t, n),
           Called(t, "R"), UNCHANGED <<readlockref, wrlocked>>,
           t \in User => n # "run"
    PROVE  Moves(t)
<1>1. Shape(t) /\ calls[t] = <<>> /\ readlockref[t] = 0 BY DEF IInv, Shape, Counts
<1>2. calls'[t] = <<"R">> BY <1>1 DEF Called, IInv, TypeOK
<1>3. Others(t) BY DEF Others, Same, first_readlock, Called, IInv, TypeOK
<1>4. t # None BY ThreadAssumption DEF Thread
<1>5. CASE wrlocked = None
  <2>1. /\ locktype'[t] = "READLOCK" /\ lockref'[t] = 1 /\ pc'[t] = n
        /\ readlockref'[t] = 0 /\ t \in rdlocked' /\ wrlocked' = None
    BY <1>1, <1>5 DEF first_readlock, IInv, TypeOK
  <2>0. Len(calls'[t]) = 1 /\ AllR(calls'[t]) BY <1>2 DEF AllR
  <2>3. pc'[t] \notin Between BY <2>1 DEF Between
  <2>6. lockref'[t] = Len(calls'[t]) /\ Len(calls'[t]) > 0 BY <2>0, <2>1
  <2>4. Counts(t)' BY <2>0, <2>1, <2>3, <2>6, CountsRead
  <2>5. SqlThread(t)' BY <2>1 DEF SqlThread
  <2>2. Shape(t)' BY <1>4, <2>1, <2>4, <2>5 DEF Shape
  <2> QED BY <1>3, <2>1, <2>2 DEF Moves, Rwlock
<1>6. CASE wrlocked # None
  <2>1. /\ locktype'[t] = "NOLOCK" /\ lockref'[t] = 0 /\ pc'[t] = "rdwait" /\ ret'[t] = n
        /\ readlockref'[t] = 0 /\ rdlocked' = rdlocked /\ wrlocked' = wrlocked
    <3>1. lockref[t] = 0 BY <1>1 DEF Shape, Counts
    <3> QED BY <1>1, <1>6, <3>1 DEF first_readlock, IInv, TypeOK
  <2>2. t \notin rdlocked /\ wrlocked # t BY <1>1 DEF Shape, Between
  <2>0. Len(calls'[t]) = 1 /\ AllR(calls'[t]) BY <1>2 DEF AllR
  <2>4. Counts(t)' BY <2>0, <2>1 DEF Counts, Between
  <2>5. SqlThread(t)' BY <2>1 DEF SqlThread
  <2>3. Shape(t)' BY <2>1, <2>2, <2>4, <2>5 DEF Shape
  <2> QED BY <1>3, <2>1, <2>3 DEF Moves, Rwlock, IInv
<1> QED BY <1>5, <1>6

\* bdb_get_readlock keeps the caller's counts true.
LEMMA MovesReadlock ==
    ASSUME IInv, NEW t \in Worker, bdb_get_readlock(t)
    PROVE  Moves(t)
<1> t \in Thread /\ t \notin User BY ThreadAssumption DEF Thread
<1>1. Shape(t) /\ pc[t] = "run" /\ pc[t] \notin Between BY DEF IInv, bdb_get_readlock, MayCall, Between
<1>2. CASE lockref[t] = 0
  <2>1. locktype[t] = "NOLOCK"
    <3>1. locktype[t] = "READLOCK" => Len(calls[t]) > 0 /\ lockref[t] = Len(calls[t])
      BY <1>1 DEF Shape, Counts
    <3>2. locktype[t] = "WRITELOCK" => lockref[t] > 0 BY <1>1 DEF Shape, Counts
    <3>3. locktype[t] \in {"NOLOCK", "READLOCK", "WRITELOCK"} BY DEF IInv, TypeOK
    <3> QED BY <1>2, <3>1, <3>2, <3>3
  <2>2. first_readlock(t, "run") BY <1>2 DEF bdb_get_readlock
  <2> QED BY <1>1, <2>1, <2>2, MovesFirst DEF bdb_get_readlock
<1>3. CASE lockref[t] # 0
  <2>1. /\ lockref' = [lockref EXCEPT ![t] = @ + 1]
        /\ UNCHANGED <<rdlocked, locktype, pc, ret, readlockref, wrlocked>> /\ Called(t, "R")
    BY <1>3 DEF bdb_get_readlock
  <2>2. Others(t) BY <2>1 DEF Others, Same, Called, IInv, TypeOK
  <2>3. calls[t] \in Seq({"R", "W"}) /\ lockref[t] \in Nat /\ readlockref[t] \in Nat BY DEF IInv, TypeOK
  <2>4. calls'[t] = Append(calls[t], "R") /\ lockref'[t] = lockref[t] + 1
    BY <2>1 DEF Called, IInv, TypeOK
  <2>5. /\ Len(calls'[t]) = Len(calls[t]) + 1
        /\ \A k \in 1..Len(calls[t]) : calls'[t][k] = calls[t][k]
        /\ calls'[t][Len(calls[t]) + 1] = "R"
    BY <2>3, <2>4
  <2>6. Counts(t)'
    <3>1. CASE locktype[t] = "READLOCK"
      <4>1. AllR(calls[t]) /\ lockref[t] = Len(calls[t]) /\ readlockref[t] = 0
        BY <1>1, <3>1 DEF Shape, Counts
      <4>2. Len(calls[t]) \in Nat BY <2>3
      <4>3. AllR(calls'[t])
        BY <2>5, <4>1, <4>2 DEF AllR
      <4>4. Len(calls'[t]) > 0 /\ lockref'[t] = Len(calls'[t])
        <5>1. Len(calls'[t]) = Len(calls[t]) + 1 /\ lockref'[t] = Len(calls[t]) + 1
          BY <2>4, <2>5, <4>1
        <5> QED BY <4>2, <5>1
      <4> QED BY <1>1, <2>1, <3>1, <4>1, <4>3, <4>4 DEF Counts, Between
    <3>2. CASE locktype[t] = "WRITELOCK"
      <4>1. /\ lockref[t] > 0 /\ lockref[t] = Len(calls[t]) - readlockref[t]
            /\ calls[t][readlockref[t] + 1] = "W"
            /\ \A k \in 1..readlockref[t] : calls[t][k] = "R"
        BY <1>1, <3>2 DEF Shape, Counts
      <4>2. readlockref[t] + 1 \in 1..Len(calls[t]) /\ 1..readlockref[t] \subseteq 1..Len(calls[t])
        <5>1. lockref[t] > 0 /\ lockref[t] = Len(calls[t]) - readlockref[t] BY <4>1
        <5>2. Len(calls[t]) \in Nat BY <2>3
        <5>3. readlockref[t] + 1 <= Len(calls[t]) BY <2>3, <5>1, <5>2
        <5>4. readlockref[t] \in Nat BY <2>3
        <5> QED BY <5>2, <5>3, <5>4
      <4>3. lockref'[t] > 0 /\ lockref'[t] = Len(calls'[t]) - readlockref[t]
        BY <2>3, <2>4, <2>5, <4>1
      <4>4. /\ calls'[t][readlockref[t] + 1] = "W"
            /\ \A k \in 1..readlockref[t] : calls'[t][k] = "R"
        BY <2>5, <4>1, <4>2
      <4> QED BY <1>1, <2>1, <3>2, <4>3, <4>4 DEF Counts, Between
    <3>3. locktype[t] # "NOLOCK" BY <1>1, <1>3 DEF Shape, Counts
    <3> QED BY <3>1, <3>2, <3>3 DEF IInv, TypeOK
  <2>7. Shape(t)' BY <1>1, <2>1, <2>6 DEF Shape, SqlThread
  <2> QED BY <2>1, <2>2, <2>7 DEF Moves, Rwlock, IInv
<1> QED BY <1>2, <1>3

\* bdb_get_writelock, up to the wait, keeps the caller's counts true.
LEMMA MovesWritelock ==
    ASSUME IInv, NEW t \in Worker, bdb_get_writelock(t)
    PROVE  Moves(t)
<1> t \in Thread /\ t \notin User BY ThreadAssumption DEF Thread
<1>1. Shape(t) /\ pc[t] = "run" /\ pc[t] \notin Between BY DEF IInv, bdb_get_writelock, MayCall, Between
<1>2. calls[t] \in Seq({"R", "W"}) /\ lockref[t] \in Nat /\ readlockref[t] \in Nat BY DEF IInv, TypeOK
<1>3. calls'[t] = Append(calls[t], "W") BY DEF bdb_get_writelock, Called, IInv, TypeOK
<1>4. /\ Len(calls'[t]) = Len(calls[t]) + 1
      /\ \A k \in 1..Len(calls[t]) : calls'[t][k] = calls[t][k]
      /\ calls'[t][Len(calls[t]) + 1] = "W"
  BY <1>2, <1>3
<1>5. Others(t) BY DEF Others, Same, bdb_get_writelock, Called, IInv, TypeOK
<1>6. CASE locktype[t] = "WRITELOCK"
  <2>1. /\ lockref'[t] = lockref[t] + 1
        /\ UNCHANGED <<readlockref, rdlocked, locktype, pc, wrlocked>>
    BY <1>6 DEF bdb_get_writelock, IInv, TypeOK
  <2>2. /\ lockref[t] > 0 /\ lockref[t] = Len(calls[t]) - readlockref[t]
        /\ calls[t][readlockref[t] + 1] = "W"
        /\ \A k \in 1..readlockref[t] : calls[t][k] = "R"
    BY <1>1, <1>6 DEF Shape, Counts
  <2>3. readlockref[t] + 1 \in 1..Len(calls[t]) /\ 1..readlockref[t] \subseteq 1..Len(calls[t])
    <3>1. lockref[t] > 0 /\ lockref[t] = Len(calls[t]) - readlockref[t] BY <2>2
    <3>2. Len(calls[t]) \in Nat BY <1>2
    <3>3. readlockref[t] + 1 <= Len(calls[t]) BY <1>2, <3>1, <3>2
    <3>4. readlockref[t] \in Nat BY <1>2
    <3> QED BY <3>2, <3>3, <3>4
  <2>4. lockref'[t] > 0 /\ lockref'[t] = Len(calls'[t]) - readlockref[t]
    <3>1. Len(calls[t]) \in Nat BY <1>2
    <3>2. Len(calls'[t]) = Len(calls[t]) + 1 /\ lockref'[t] = lockref[t] + 1 BY <1>4, <2>1
    <3>3. lockref[t] \in Nat /\ readlockref[t] \in Nat BY <1>2
    <3>4. lockref[t] > 0 /\ lockref[t] = Len(calls[t]) - readlockref[t] BY <2>2
    <3> QED BY <3>1, <3>2, <3>3, <3>4
  <2>5. /\ calls'[t][readlockref[t] + 1] = "W"
        /\ \A k \in 1..readlockref[t] : calls'[t][k] = "R"
    BY <1>4, <2>2, <2>3
  <2>6. Counts(t)' BY <1>1, <1>6, <2>1, <2>4, <2>5 DEF Counts, Between
  <2>7. Shape(t)' BY <1>1, <2>1, <2>6 DEF Shape, SqlThread
  <2> QED BY <1>5, <2>1, <2>7 DEF Moves, Rwlock, IInv
<1>7. CASE locktype[t] # "WRITELOCK"
  <2>1. /\ lockref'[t] = 0 /\ readlockref'[t] = lockref[t] /\ locktype'[t] = "NOLOCK"
        /\ rdlocked' = rdlocked \ {t} /\ wrlocked' = wrlocked /\ pc'[t] = "want"
    BY <1>7 DEF bdb_get_writelock, IInv, TypeOK
  <2>2. lockref[t] = Len(calls[t]) /\ AllR(calls[t])
    <3>1. CASE locktype[t] = "NOLOCK"
      <4>1. calls[t] = <<>> /\ lockref[t] = 0 BY <1>1, <3>1 DEF Shape, Counts
      <4> QED BY <4>1, NoCalls
    <3>2. CASE locktype[t] = "READLOCK" BY <1>1, <3>2 DEF Shape, Counts
    <3> QED BY <1>7, <3>1, <3>2 DEF IInv, TypeOK
  <2>3. /\ Len(calls'[t]) = readlockref'[t] + 1
        /\ calls'[t][readlockref'[t] + 1] = "W"
        /\ \A k \in 1..readlockref'[t] : calls'[t][k] = "R"
    BY <1>4, <2>1, <2>2 DEF AllR
  <2>4. Counts(t)' BY <2>1, <2>3 DEF Counts, Between
  <2>5. wrlocked # t BY <1>1, <1>7 DEF Shape
  <2>6. Shape(t)' BY <2>1, <2>4, <2>5 DEF Shape, SqlThread
  <2> QED BY <1>5, <2>1, <2>6 DEF Moves, Rwlock, IInv
<1> QED BY <1>6, <1>7

\* bdb_rellock undoes the last call in the caller's counts.
LEMMA MovesRellock ==
    ASSUME IInv, NEW t \in Worker, bdb_rellock(t)
    PROVE  Moves(t)
<1> t \in Thread /\ t \notin User BY ThreadAssumption DEF Thread
<1>1. Shape(t) /\ pc[t] = "run" /\ pc[t] \notin Between /\ calls[t] # <<>>
  BY DEF IInv, bdb_rellock, Between
<1>2. calls[t] \in Seq({"R", "W"}) /\ lockref[t] \in Nat /\ readlockref[t] \in Nat BY DEF IInv, TypeOK
<1>3. Len(calls[t]) \in Nat /\ Len(calls[t]) > 0 BY <1>1, <1>2
<1>4. calls'[t] = SubSeq(calls[t], 1, Len(calls[t]) - 1) BY DEF bdb_rellock, IInv, TypeOK
<1>5. /\ Len(calls'[t]) = Len(calls[t]) - 1
      /\ \A k \in 1..(Len(calls[t]) - 1) : calls'[t][k] = calls[t][k]
  BY <1>2, <1>3, <1>4
<1>6. Others(t)
  <2>1. t # None BY ThreadAssumption DEF Thread
  <2>2. \A u \in Thread : u # None BY ThreadAssumption DEF Thread
  <2> QED BY <2>1, <2>2 DEF Others, Same, bdb_rellock, Unlock, IInv, TypeOK
<1>7. lockref'[t] = lockref[t] - 1 /\ readlockref' = readlockref BY DEF bdb_rellock, IInv, TypeOK
<1>8. locktype[t] # "NOLOCK" BY <1>1 DEF Shape, Counts
<1>9. CASE locktype[t] = "READLOCK"
  <2>1. AllR(calls[t]) /\ lockref[t] = Len(calls[t]) /\ readlockref[t] = 0
    BY <1>1, <1>9 DEF Shape, Counts
  <2>2. AllR(calls'[t]) BY <1>3, <1>5, <2>1 DEF AllR
  <2>3. CASE lockref[t] > 1
    <3>1. UNCHANGED <<locktype, rdlocked, wrlocked, pc>> BY <1>2, <2>3 DEF bdb_rellock
    <3>2. Len(calls'[t]) > 0 /\ lockref'[t] = Len(calls'[t]) BY <1>3, <1>5, <1>7, <2>1, <2>3
    <3>3. Counts(t)' BY <1>1, <1>7, <1>9, <2>1, <2>2, <3>1, <3>2 DEF Counts, Between
    <3>4. Shape(t)' BY <1>1, <3>1, <3>3 DEF Shape, SqlThread
    <3> QED BY <1>6, <3>1, <3>4 DEF Moves, Rwlock, IInv
  <2>4. CASE lockref[t] = 1
    <3>1. /\ locktype'[t] = "NOLOCK" /\ rdlocked' = rdlocked \ {t} /\ pc'[t] = "run"
          /\ wrlocked' = IF wrlocked = t THEN None ELSE wrlocked
      BY <2>1, <2>4 DEF bdb_rellock, Unlock, IInv, TypeOK
    <3>2. calls'[t] = <<>>
      <4>1. Len(calls[t]) = 1 BY <2>1, <2>4
      <4> QED BY <1>2, <1>4, <4>1
    <3>3. lockref'[t] = 0 BY <1>7, <2>4
    <3>4. Counts(t)' BY <1>7, <2>1, <3>1, <3>2, <3>3 DEF Counts, Between
    <3>5. t # None BY ThreadAssumption DEF Thread
    <3>6. Shape(t)' BY <3>1, <3>4, <3>5 DEF Shape, SqlThread
    <3> QED BY <1>6, <3>1, <3>6 DEF Moves, Rwlock, IInv
  <2>5. lockref[t] > 0 BY <1>3, <2>1
  <2>6. lockref[t] > 1 \/ lockref[t] = 1 BY <1>2, <2>5
  <2> QED BY <2>3, <2>4, <2>6
<1>10. CASE locktype[t] = "WRITELOCK"
  <2>1. /\ lockref[t] > 0 /\ lockref[t] = Len(calls[t]) - readlockref[t]
        /\ calls[t][readlockref[t] + 1] = "W"
        /\ \A k \in 1..readlockref[t] : calls[t][k] = "R"
    BY <1>1, <1>10 DEF Shape, Counts
  <2>0. lockref[t] > 0 /\ Len(calls[t]) = lockref[t] + readlockref[t]
    <3>1. lockref[t] > 0 /\ lockref[t] = Len(calls[t]) - readlockref[t] BY <2>1
    <3> QED BY <1>2, <1>3, <3>1
  <2>2. \A k \in 1..readlockref[t] : calls'[t][k] = "R"
    <3>0. readlockref[t] <= Len(calls[t]) - 1 BY <1>2, <1>3, <2>0
    <3>1. 1..readlockref[t] \subseteq 1..(Len(calls[t]) - 1) BY <1>2, <1>3, <3>0
    <3> QED BY <1>5, <2>1, <3>1
  <2>3. CASE lockref[t] > 1
    <3>1. UNCHANGED <<locktype, rdlocked, wrlocked, pc>> BY <1>2, <2>3 DEF bdb_rellock
    <3>2. lockref'[t] > 0 /\ lockref'[t] = Len(calls'[t]) - readlockref[t]
      <4>1. Len(calls'[t]) = Len(calls[t]) - 1 BY <1>5
      <4> QED BY <1>2, <1>7, <2>0, <2>3, <4>1
    <3>3. readlockref[t] + 1 \in 1..(Len(calls[t]) - 1) BY <1>2, <2>0, <2>3
    <3>4. calls'[t][readlockref[t] + 1] = "W" BY <1>5, <2>1, <3>3
    <3>5. Counts(t)' BY <1>1, <1>7, <1>10, <2>2, <3>1, <3>2, <3>4 DEF Counts, Between
    <3>6. Shape(t)' BY <1>1, <3>1, <3>5 DEF Shape, SqlThread
    <3> QED BY <1>6, <3>1, <3>6 DEF Moves, Rwlock, IInv
  <2>4. CASE lockref[t] = 1
    <3>1. /\ locktype'[t] = "NOLOCK" /\ rdlocked' = rdlocked \ {t}
          /\ pc'[t] = IF readlockref[t] > 0 THEN "reread" ELSE "run"
          /\ wrlocked' = IF wrlocked = t THEN None ELSE wrlocked
      BY <2>4 DEF bdb_rellock, Unlock, IInv, TypeOK
    <3>2. Len(calls'[t]) = readlockref[t]
      <4>1. Len(calls'[t]) = Len(calls[t]) - 1 /\ Len(calls[t]) \in Nat BY <1>3, <1>5
      <4>2. 1 = Len(calls[t]) - readlockref[t] BY <2>1, <2>4
      <4> QED BY <1>2, <4>1, <4>2
    <3>3. lockref'[t] = 0 BY <1>7, <2>4
    <3>4. AllR(calls'[t]) BY <2>2, <3>2 DEF AllR
    <3>5. readlockref[t] = 0 => calls'[t] = <<>> BY <1>2, <1>4, <2>1, <2>4
    <3>6. Counts(t)'
      <4>1. CASE readlockref[t] = 0
        <5>1. pc'[t] = "run" /\ pc'[t] \notin Between BY <3>1, <4>1 DEF Between
        <5> QED BY <1>7, <3>1, <3>3, <3>5, <4>1, <5>1, CountsNone
      <4>2. CASE readlockref[t] > 0
        BY <1>7, <3>1, <3>2, <3>3, <3>4, <4>2 DEF Counts, Between
      <4> QED BY <1>2, <4>1, <4>2
    <3>7. t # None BY ThreadAssumption DEF Thread
    <3>8. Shape(t)' BY <3>1, <3>6, <3>7 DEF Shape, SqlThread
    <3> QED BY <1>6, <3>1, <3>8 DEF Moves, Rwlock, IInv
  <2> QED BY <1>2, <2>1, <2>3, <2>4
<1> QED BY <1>8, <1>9, <1>10 DEF IInv, TypeOK

\* Obtaining the rwlock keeps the thread's counts true and the lock exclusive.
LEMMA MovesLocks ==
    ASSUME IInv, NEW t \in Thread, Locks(t)
    PROVE  Moves(t)
<1>1. Shape(t) BY DEF IInv
<1>2. t # None /\ \A u \in Thread : u # None BY ThreadAssumption DEF Thread
<1>3. calls[t] \in Seq({"R", "W"}) /\ lockref[t] \in Nat /\ readlockref[t] \in Nat BY DEF IInv, TypeOK
<1>4. CASE rdlock(t)
  <2>1. /\ locktype'[t] = "READLOCK" /\ lockref'[t] = 1 /\ pc'[t] = ret[t]
        /\ readlockref'[t] = readlockref[t] /\ calls'[t] = calls[t]
        /\ t \in rdlocked' /\ wrlocked' = None
    BY <1>4 DEF rdlock, IInv, TypeOK
  <2>2. ret[t] \in {"run", "row", "next"} BY DEF IInv, TypeOK
  <2>3. /\ Len(calls[t]) = 1 /\ AllR(calls[t]) /\ readlockref[t] = 0
        /\ t \in User => ret[t] # "run"
    BY <1>1, <1>4 DEF Shape, Counts, rdlock
  <2>4. Counts(t)'
    <3>1. pc'[t] \notin Between BY <2>1, <2>2 DEF Between
    <3>2. AllR(calls'[t]) /\ Len(calls'[t]) = 1 /\ readlockref'[t] = 0 BY <2>1, <2>3
    <3>3. Len(calls'[t]) > 0 /\ lockref'[t] = Len(calls'[t]) /\ locktype'[t] = "READLOCK" BY <2>1, <3>2
    <3> QED BY <3>1, <3>2, <3>3, CountsRead
  <2>5. SqlThread(t)' BY <2>1, <2>2, <2>3 DEF SqlThread
  <2>6. Shape(t)' BY <1>2, <2>1, <2>2, <2>4, <2>5 DEF Shape
  <2>7. Others(t) BY <1>4 DEF Others, Same, rdlock, IInv, TypeOK
  <2> QED BY <2>1, <2>6, <2>7 DEF Moves, Rwlock
<1>5. CASE want_writelock(t)
  <2>1. pc[t] = "want" /\ pc'[t] = "wrwait" /\ UNCHANGED <<info, rdlocked, wrlocked, ret, calls>>
    BY <1>5 DEF want_writelock, IInv, TypeOK
  <2>2. Counts(t)' /\ SqlThread(t)' BY <1>1, <2>1 DEF Shape, Counts, SqlThread, Between, info
  <2>3. Shape(t)' BY <1>1, <2>1, <2>2 DEF Shape, info
  <2>4. Others(t) BY <1>5 DEF Others, Same, want_writelock, info, IInv, TypeOK
  <2> QED BY <2>1, <2>3, <2>4 DEF Moves, Rwlock, IInv
<1>6. CASE wrlock(t)
  <2>1. /\ pc[t] = "wrwait" /\ pc'[t] = "got" /\ UNCHANGED <<info, rdlocked, ret, calls>>
        /\ wrlocked' = t /\ rdlocked = {} /\ wrlocked = None
    BY <1>6 DEF wrlock, IInv, TypeOK
  <2>2. Counts(t)' /\ SqlThread(t)' BY <1>1, <2>1 DEF Shape, Counts, SqlThread, Between, info
  <2>3. Shape(t)' BY <1>1, <2>1, <2>2 DEF Shape, info
  <2>4. Others(t) BY <1>2, <1>6, <2>1 DEF Others, Same, wrlock, info, IInv, TypeOK
  <2> QED BY <2>1, <2>3, <2>4 DEF Moves, Rwlock, IInv
<1>7. CASE got_writelock(t)
  <2>1. /\ pc[t] = "got" /\ pc'[t] = "run" /\ locktype'[t] = "WRITELOCK" /\ lockref'[t] = lockref[t] + 1
        /\ UNCHANGED <<readlockref, rdlocked, wrlocked, ret, calls>>
    BY <1>7 DEF got_writelock, IInv, TypeOK
  <2>2. /\ lockref[t] = 0 /\ locktype[t] = "NOLOCK" /\ wrlocked = t
        /\ Len(calls[t]) = readlockref[t] + 1
        /\ calls[t][readlockref[t] + 1] = "W"
        /\ \A k \in 1..readlockref[t] : calls[t][k] = "R"
    BY <1>1, <2>1 DEF Shape, Counts, Between
  <2>3. lockref'[t] > 0 /\ lockref'[t] = Len(calls[t]) - readlockref[t]
    BY <1>3, <2>1, <2>2
  <2>4. t \notin User BY <1>1, <2>1 DEF Shape, SqlThread
  <2>5. Counts(t)' /\ SqlThread(t)' BY <2>1, <2>2, <2>3, <2>4 DEF Counts, SqlThread, Between
  <2>6. Shape(t)' BY <1>1, <2>1, <2>2, <2>5 DEF Shape
  <2>7. Others(t) BY <1>7 DEF Others, Same, got_writelock, IInv, TypeOK
  <2> QED BY <2>1, <2>6, <2>7 DEF Moves, Rwlock, IInv
<1>8. CASE reread(t)
  <2>1. /\ pc[t] = "reread" /\ pc'[t] = "run" /\ locktype'[t] = "READLOCK" /\ calls'[t] = calls[t]
        /\ lockref'[t] = readlockref[t] /\ readlockref'[t] = 0
        /\ t \in rdlocked' /\ wrlocked = None /\ wrlocked' = None
    BY <1>8 DEF reread, IInv, TypeOK
  <2>2. readlockref[t] > 0 /\ Len(calls[t]) = readlockref[t] /\ AllR(calls[t])
    BY <1>1, <2>1 DEF Shape, Counts
  <2>3. t \notin User BY <1>1, <2>1 DEF Shape, SqlThread
  <2>4. Counts(t)' /\ SqlThread(t)' BY <2>1, <2>2, <2>3 DEF Counts, SqlThread, Between
  <2>5. Shape(t)' BY <1>2, <2>1, <2>4 DEF Shape
  <2>6. Others(t) BY <1>8 DEF Others, Same, reread, IInv, TypeOK
  <2> QED BY <2>1, <2>5, <2>6 DEF Moves, Rwlock
<1> QED BY <1>4, <1>5, <1>6, <1>7, <1>8 DEF Locks

\* An SQL thread that puts its cursor transaction gives its only reference up.
LEMMA MovesPut ==
    ASSUME IInv, NEW t \in User, NEW n \in {"poll", "run"}, put_cursortran(t, n),
           pc[t] \in {"row", "next"}
    PROVE  Moves(t)
<1> t \in Thread BY DEF Thread
<1>1. Shape(t) BY DEF IInv
<1>2. t # None /\ \A u \in Thread : u # None BY ThreadAssumption DEF Thread
<1>3. locktype[t] = "READLOCK" BY <1>1 DEF Shape, SqlThread
<1>4. readlockref[t] = 0 BY <1>1, <1>3 DEF Shape, Counts, Between
<1>5. /\ calls'[t] = <<>> /\ lockref'[t] = 0 /\ locktype'[t] = "NOLOCK" /\ pc'[t] = n
      /\ readlockref' = readlockref /\ ret' = ret /\ rdlocked' = rdlocked \ {t}
      /\ wrlocked' = IF wrlocked = t THEN None ELSE wrlocked
  BY DEF put_cursortran, Unlock, IInv, TypeOK
<1>6. Counts(t)' /\ SqlThread(t)' BY <1>4, <1>5 DEF Counts, SqlThread, Between
<1>7. Shape(t)' BY <1>2, <1>5, <1>6 DEF Shape
<1>8. Others(t) BY <1>2 DEF Others, Same, put_cursortran, Unlock, IInv, TypeOK
<1> QED BY <1>5, <1>7, <1>8 DEF Moves, Rwlock, IInv

\* A step that changes nothing but the place of a statement.
LEMMA MovesRow ==
    ASSUME IInv, NEW t \in User, pc[t] \in {"row", "next"}, NEW n \in {"row", "next"},
           pc' = [pc EXCEPT ![t] = n],
           UNCHANGED <<info, rdlocked, wrlocked, ret, calls>>
    PROVE  Moves(t)
<1> t \in Thread BY DEF Thread
<1>1. Shape(t) BY DEF IInv
<1>2. pc'[t] = n BY DEF IInv, TypeOK
<1>3. Counts(t)' /\ SqlThread(t)' BY <1>1, <1>2 DEF Shape, Counts, SqlThread, Between, info
<1>4. Shape(t)' BY <1>1, <1>2, <1>3 DEF Shape, info
<1>5. Others(t) BY DEF Others, Same, info, IInv, TypeOK
<1> QED BY <1>4, <1>5 DEF Moves, Rwlock, IInv

\* Every step keeps its thread's shape and the exclusion of the rwlock.
LEMMA StepMoves ==
    ASSUME IInv, NEW t \in Thread, Step(t)
    PROVE  Moves(t)
<1>1. CASE t \in Worker /\ bdb_get_readlock(t) BY <1>1, MovesReadlock
<1>2. CASE t \in Worker /\ bdb_get_writelock(t) BY <1>2, MovesWritelock
<1>3. CASE t \in Worker /\ bdb_rellock(t) BY <1>3, MovesRellock
<1>4. CASE t \in Worker /\ end_request(t)
  <2>1. UNCHANGED <<info, rdlocked, wrlocked, pc, ret, calls>> BY <1>4 DEF end_request
  <2>2. Shape(t)' BY <2>1, ShapeSame DEF IInv, Same, info
  <2>3. Others(t) BY <2>1 DEF Others, Same, info
  <2> QED BY <2>1, <2>2, <2>3 DEF Moves, Rwlock, IInv
<1>5. CASE t \in User /\ get_cursortran(t)
  <2>1. pc[t] = "run" /\ locktype[t] = "NOLOCK" BY <1>5 DEF get_cursortran, IInv, Shape, SqlThread
  <2> QED BY <1>5, <2>1, MovesFirst DEF get_cursortran, Between
<1>6. CASE t \in User /\ row(t)
  <2>1. CASE bdb_lock_desired > 0 /\ put_cursortran(t, "poll")
    BY <1>6, <2>1, MovesPut DEF row
  <2>2. CASE ~(bdb_lock_desired > 0 /\ put_cursortran(t, "poll"))
    BY <1>6, <2>2, MovesRow DEF row
  <2> QED BY <2>1, <2>2
<1>7. CASE t \in User /\ poll(t)
  <2>1. pc[t] = "poll" /\ locktype[t] = "NOLOCK" BY <1>7 DEF poll, IInv, Shape, SqlThread
  <2> QED BY <1>7, <2>1, MovesFirst DEF poll, Between
<1>8. CASE t \in User /\ next_row(t)
  <2>1. CASE put_cursortran(t, "run") BY <1>8, <2>1, MovesPut DEF next_row
  <2>2. CASE ~put_cursortran(t, "run") BY <1>8, <2>2, MovesRow DEF next_row
  <2> QED BY <2>1, <2>2
<1>9. CASE Locks(t) BY <1>9, MovesLocks
<1> QED BY <1>1, <1>2, <1>3, <1>4, <1>5, <1>6, <1>7, <1>8, <1>9 DEF Step

-----------------------------------------------------------------------------
(***************************************************************************)
(* The desired count.                                                      *)
(***************************************************************************)
LEMMA SameDesired ==
    ASSUME IInv, NEW t \in Thread, Others(t), bdb_lock_desired' = bdb_lock_desired,
           pc'[t] \in {"wrwait", "got"} <=> pc[t] \in {"wrwait", "got"}
    PROVE  DesiredCounts'
<1>1. Wanting' = Wanting BY DEF Wanting, Others, Same, Thread
<1> QED BY <1>1 DEF Wanting, DesiredCounts, IInv

\* Every step keeps bdb_lock_desired the number of waiting writers.
LEMMA StepDesired ==
    ASSUME IInv, NEW t \in Thread, Step(t)
    PROVE  DesiredCounts'
<1>1. Others(t) /\ Shape(t) BY StepMoves DEF Moves, IInv
<1>2. IsFiniteSet(Wanting) BY ThreadAssumption, FS_Subset DEF Wanting
<1>3. bdb_lock_desired = Cardinality(Wanting) /\ bdb_lock_desired \in Nat
  BY DEF DesiredCounts, Wanting, IInv, TypeOK
<1>4. CASE want_writelock(t)
  <2>1. pc[t] = "want" /\ pc'[t] = "wrwait" /\ bdb_lock_desired' = bdb_lock_desired + 1
    BY <1>4 DEF want_writelock, IInv, TypeOK
  <2>2. t \in Worker BY <1>1, <2>1 DEF Shape, SqlThread, Thread
  <2>3. t \notin Wanting /\ Wanting' = Wanting \cup {t}
    BY <1>1, <2>1, <2>2 DEF Wanting, Others, Same, Thread
  <2>4. Cardinality(Wanting') = Cardinality(Wanting) + 1 BY <1>2, <2>3, FS_AddElement
  <2> QED BY <1>3, <2>1, <2>4 DEF DesiredCounts, Wanting
<1>5. CASE got_writelock(t)
  <2>1. pc[t] = "got" /\ pc'[t] = "run" /\ bdb_lock_desired' = bdb_lock_desired - 1
    BY <1>5 DEF got_writelock, IInv, TypeOK
  <2>2. t \in Worker BY <1>1, <2>1 DEF Shape, SqlThread, Thread
  <2>3. t \in Wanting /\ Wanting' = Wanting \ {t}
    BY <1>1, <2>1, <2>2 DEF Wanting, Others, Same, Thread
  <2>4. Cardinality(Wanting') = Cardinality(Wanting) - 1 BY <1>2, <2>3, FS_RemoveElement
  <2> QED BY <1>3, <2>1, <2>4 DEF DesiredCounts, Wanting
<1>6. CASE wrlock(t)
  BY <1>1, <1>6, SameDesired DEF wrlock, IInv, TypeOK
<1>7. CASE rdlock(t)
  <2>1. pc'[t] \in {"run", "row", "next"} BY <1>7 DEF rdlock, IInv, TypeOK
  <2> QED BY <1>1, <1>7, <2>1, SameDesired DEF rdlock
<1>8. CASE reread(t)
  BY <1>1, <1>8, SameDesired DEF reread, IInv, TypeOK
<1>9. CASE t \in Worker /\ bdb_get_readlock(t)
  <2>1. pc[t] = "run" /\ bdb_lock_desired' = bdb_lock_desired /\ pc'[t] \in {"run", "rdwait"}
    BY <1>9 DEF bdb_get_readlock, MayCall, first_readlock, IInv, TypeOK
  <2> QED BY <1>1, <2>1, SameDesired
<1>10. CASE t \in Worker /\ bdb_get_writelock(t)
  <2>1. pc[t] = "run" /\ bdb_lock_desired' = bdb_lock_desired /\ pc'[t] \in {"run", "want"}
    BY <1>10 DEF bdb_get_writelock, MayCall, IInv, TypeOK
  <2> QED BY <1>1, <2>1, SameDesired
<1>11. CASE t \in Worker /\ bdb_rellock(t)
  <2>1. pc[t] = "run" /\ bdb_lock_desired' = bdb_lock_desired /\ pc'[t] \in {"run", "reread"}
    BY <1>11 DEF bdb_rellock, IInv, TypeOK
  <2> QED BY <1>1, <2>1, SameDesired
<1>12. CASE t \in Worker /\ end_request(t)
  BY <1>1, <1>12, SameDesired DEF end_request
<1>13. CASE t \in User /\ (get_cursortran(t) \/ poll(t))
  <2>1. pc[t] \in {"run", "poll"} /\ bdb_lock_desired' = bdb_lock_desired
    BY <1>13 DEF get_cursortran, poll
  <2>2. pc'[t] \in {"row", "next", "rdwait"}
    BY <1>13 DEF get_cursortran, poll, first_readlock, IInv, TypeOK
  <2> QED BY <1>1, <2>1, <2>2, SameDesired
<1>14. CASE t \in User /\ (row(t) \/ next_row(t))
  <2>1. pc[t] \in {"row", "next"} /\ bdb_lock_desired' = bdb_lock_desired
    BY <1>14 DEF row, next_row, put_cursortran
  <2>2. pc'[t] \in {"row", "next", "run", "poll"}
    BY <1>14 DEF row, next_row, put_cursortran, IInv, TypeOK
  <2> QED BY <1>1, <2>1, <2>2, SameDesired
<1> QED
  BY <1>4, <1>5, <1>6, <1>7, <1>8, <1>9, <1>10, <1>11, <1>12, <1>13, <1>14 DEF Step, Locks

-----------------------------------------------------------------------------
\* The invariant is inductive.
LEMMA NextInv == IInv /\ [Next]_vars => IInv'
<1> SUFFICES ASSUME IInv, [Next]_vars PROVE IInv' OBVIOUS
<1>1. CASE \E t \in Thread : Step(t)
  <2>1. PICK t \in Thread : Step(t) BY <1>1
  <2>2. Moves(t) BY <2>1, StepMoves
  <2>3. \A u \in Thread \ {t} : Shape(u)' BY <2>2, ShapeFrame DEF Moves, IInv
  <2>4. TypeOK' BY <2>1, TypeStep
  <2>5. DesiredCounts' BY <2>1, StepDesired
  <2> QED BY <2>2, <2>3, <2>4, <2>5 DEF IInv, Moves
<1>2. CASE UNCHANGED vars
  <2>1. UNCHANGED <<locktype, lockref, readlockref, rdlocked, wrlocked, bdb_lock_desired, pc, ret, calls, gets, requests>>
    BY <1>2 DEF vars, info
  <2>2. TypeOK' /\ Rwlock' BY <2>1 DEF IInv, TypeOK, Rwlock
  <2>3. DesiredCounts' BY <2>1 DEF IInv, DesiredCounts
  <2>4. \A t \in Thread : Shape(t)' BY <2>1, ShapeSame DEF IInv, Same
  <2> QED BY <2>2, <2>3, <2>4 DEF IInv
<1> QED BY <1>1, <1>2 DEF Next

\* The inductive invariant holds throughout.
THEOREM Invariance == Safe => []IInv
<1> QED BY InitInv, NextInv, PTL DEF Safe

\* Whatever a thread believes it holds it holds, and the write lock of
\* bdb_get_writelock excludes every reader, for any number of threads.
THEOREM LockExcludes == Safe => []Exclusion
<1>1. IInv => Exclusion
  BY DEF IInv, Exclusion, Shape, Rwlock
<1> QED BY <1>1, Invariance, PTL

\* bdb_lock_desired is exactly the number of threads that wait for the write
\* lock or have just got it.
THEOREM DesiredIsTrue == Safe => []DesiredCounts
<1>1. IInv => DesiredCounts BY DEF IInv
<1> QED BY <1>1, Invariance, PTL

\* The first write call is where readlockref says it is.
LEMMA FirstWIs ==
    ASSUME NEW c \in Seq({"R", "W"}), NEW k \in Nat, k < Len(c),
           c[k + 1] = "W", \A j \in 1..k : c[j] = "R"
    PROVE  FirstW(c) = k + 1
<1> DEFINE P(x) == x \in DOMAIN c /\ c[x] = "W" /\ \A j \in 1..x-1 : c[j] = "R"
<1>1. P(k + 1) OBVIOUS
<1>2. ASSUME NEW x, P(x) PROVE x = k + 1
  <2>1. x \in 1..Len(c) BY <1>2
  <2>2. x > k BY <1>2, <2>1
  <2>3. ~(k + 1 < x) BY <1>2, <2>1
  <2> QED BY <2>1, <2>2, <2>3
<1> QED BY <1>1, <1>2 DEF FirstW

\* The counts of every thread are those of its outstanding calls: bdb_rellock
\* restores the read count of an upgraded lock, however deep the calls nest.
THEOREM CountsFollowCalls == Safe => []CountsCalls
<1>1. IInv => CountsCalls
  <2> SUFFICES ASSUME IInv, NEW t \in Thread, pc[t] \notin Between
      PROVE  IF \E k \in DOMAIN calls[t] : calls[t][k] = "W"
             THEN /\ locktype[t] = "WRITELOCK"
                  /\ lockref[t] = Len(calls[t]) - FirstW(calls[t]) + 1
                  /\ readlockref[t] = FirstW(calls[t]) - 1
             ELSE /\ locktype[t] = IF calls[t] = <<>> THEN "NOLOCK" ELSE "READLOCK"
                  /\ lockref[t] = Len(calls[t]) /\ readlockref[t] = 0
    BY DEF CountsCalls, Between
  <2>1. calls[t] \in Seq({"R", "W"}) /\ lockref[t] \in Nat /\ readlockref[t] \in Nat BY DEF IInv, TypeOK
  <2>2. Counts(t) BY DEF IInv, Shape
  <2>3. CASE locktype[t] = "NOLOCK"
    <3>1. calls[t] = <<>> /\ lockref[t] = 0 /\ readlockref[t] = 0 BY <2>2, <2>3 DEF Counts
    <3> QED BY <2>3, <3>1, NoCalls
  <2>4. CASE locktype[t] = "READLOCK"
    <3>1. /\ Len(calls[t]) > 0 /\ AllR(calls[t])
          /\ lockref[t] = Len(calls[t]) /\ readlockref[t] = 0
      BY <2>2, <2>4 DEF Counts
    <3>4. DOMAIN calls[t] = 1..Len(calls[t]) BY <2>1
    <3>5. \A k \in 1..Len(calls[t]) : calls[t][k] = "R" BY <3>1 DEF AllR
    <3>2. ~ \E k \in DOMAIN calls[t] : calls[t][k] = "W" BY <3>4, <3>5
    <3>3. calls[t] # <<>> BY <3>1
    <3> QED BY <2>4, <3>1, <3>2, <3>3
  <2>5. CASE locktype[t] = "WRITELOCK"
    <3>1. /\ lockref[t] > 0 /\ lockref[t] = Len(calls[t]) - readlockref[t]
          /\ calls[t][readlockref[t] + 1] = "W"
          /\ \A k \in 1..readlockref[t] : calls[t][k] = "R"
      BY <2>2, <2>5 DEF Counts
    <3>2. Len(calls[t]) \in Nat BY <2>1
    <3>3. readlockref[t] < Len(calls[t]) BY <2>1, <3>1, <3>2
    <3>4. FirstW(calls[t]) = readlockref[t] + 1 BY <2>1, <3>1, <3>3, FirstWIs
    <3>5. readlockref[t] + 1 \in DOMAIN calls[t] BY <2>1, <3>2, <3>3
    <3>6. lockref[t] = Len(calls[t]) - (readlockref[t] + 1) + 1 BY <2>1, <3>1, <3>2
    <3>7. \E k \in DOMAIN calls[t] : calls[t][k] = "W" BY <3>1, <3>5
    <3>8. readlockref[t] = (readlockref[t] + 1) - 1 BY <2>1
    <3> QED BY <2>5, <3>4, <3>6, <3>7, <3>8
  <2> QED BY <2>3, <2>4, <2>5 DEF IInv, TypeOK
<1> QED BY <1>1, Invariance, PTL
=============================================================================
