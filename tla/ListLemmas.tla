----------------------------- MODULE ListLemmas -----------------------------
(***************************************************************************)
(* What the operations of the lists of util/list.c do to a list that       *)
(* holds no element twice: listc_atl and listc_abl (to the top and the     *)
(* bottom), listc_rtl (off the top) and listc_rfl (an element, wherever it *)
(* is).  The queues and free lists of the thread pool and of the request   *)
(* queue are such lists.                                                   *)
(***************************************************************************)
EXTENDS Listc, SequenceTheorems, TLAPS

\* The elements of a list, by their places.
LEMMA ElementAt ==
    ASSUME NEW S, NEW s \in Seq(S)
    PROVE  /\ Len(s) \in Nat /\ DOMAIN s = 1..Len(s)
           /\ Range(s) \subseteq S
           /\ \A x : x \in Range(s) <=> \E k \in 1..Len(s) : s[k] = x
  BY LenProperties, ElementOfSeq DEF Range

\* A list without elements.
LEMMA EmptyList ==
    /\ IsInjective(<<>>) /\ Range(<<>>) = {} /\ Len(<<>>) = 0
    /\ \A S : <<>> \in Seq(S)
    /\ \A S : \A s \in Seq(S) : s = <<>> <=> Range(s) = {}
<1>1. IsInjective(<<>>) /\ Range(<<>>) = {} /\ Len(<<>>) = 0 BY DEF IsInjective, Range
<1>2. \A S : <<>> \in Seq(S) BY EmptySeq
<1>3. ASSUME NEW S, NEW s \in Seq(S), s # <<>> PROVE s[1] \in Range(s)
  <2>1. Len(s) \in Nat \ {0} BY <1>3, EmptySeq
  <2>2. 1 \in 1..Len(s) BY <2>1
  <2> QED BY <2>2, ElementAt
<1> QED BY <1>1, <1>2, <1>3

\* listc_atl: the element is at the top, before the others.
LEMMA AddToTop ==
    ASSUME NEW S, NEW s \in Seq(S), NEW e \in S
    PROVE  /\ <<e>> \o s \in Seq(S)
           /\ Len(<<e>> \o s) = Len(s) + 1
           /\ (<<e>> \o s)[1] = e
           /\ \A k \in 1..Len(s) : (<<e>> \o s)[k + 1] = s[k]
           /\ Range(<<e>> \o s) = {e} \cup Range(s)
           /\ IsInjective(s) /\ e \notin Range(s) => IsInjective(<<e>> \o s)
<1> DEFINE t == <<e>> \o s
<1>1. Len(s) \in Nat BY LenProperties
<1>2. <<e>> \in Seq(S) /\ Len(<<e>>) = 1 /\ <<e>>[1] = e OBVIOUS
<1>3. /\ t \in Seq(S) /\ Len(t) = 1 + Len(s)
      /\ \A i \in 1 .. 1 + Len(s) : t[i] = IF i <= 1 THEN <<e>>[i] ELSE s[i - 1]
  BY <1>2, ConcatProperties
<1>4. t[1] = e BY <1>1, <1>2, <1>3
<1>5. ASSUME NEW k \in 1..Len(s) PROVE t[k + 1] = s[k]
  <2>1. k + 1 \in 1 .. 1 + Len(s) /\ ~(k + 1 <= 1) /\ (k + 1) - 1 = k BY <1>1
  <2> QED BY <2>1, <1>3
<1>6. ASSUME NEW k \in 1..Len(t) PROVE k = 1 \/ (k - 1 \in 1..Len(s) /\ t[k] = s[k - 1])
  <2>1. k # 1 => k - 1 \in 1..Len(s) /\ ~(k <= 1) /\ k \in 1 .. 1 + Len(s) BY <1>1, <1>3
  <2> QED BY <2>1, <1>3
<1> HIDE DEF t
<1>7. Range(t) = {e} \cup Range(s)
  <2>1. ASSUME NEW x \in Range(t) PROVE x \in {e} \cup Range(s)
    <3>1. PICK k \in 1..Len(t) : t[k] = x BY <1>3, ElementAt
    <3> QED BY <3>1, <1>6, <1>4, ElementAt
  <2>2. e \in Range(t)
    <3>1. 1 \in 1..Len(t) BY <1>1, <1>3
    <3> QED BY <3>1, <1>3, <1>4, ElementAt
  <2>3. ASSUME NEW x \in Range(s) PROVE x \in Range(t)
    <3>1. PICK k \in 1..Len(s) : s[k] = x BY ElementAt
    <3>2. k + 1 \in 1..Len(t) BY <1>1, <1>3
    <3> QED BY <3>1, <3>2, <1>3, <1>5, ElementAt
  <2> QED BY <2>1, <2>2, <2>3
<1>8. ASSUME IsInjective(s), e \notin Range(s) PROVE IsInjective(t)
  <2>1. DOMAIN t = 1..Len(t) /\ DOMAIN s = 1..Len(s) BY <1>3, ElementAt
  <2>2. ASSUME NEW a \in 1..Len(t), NEW b \in 1..Len(t), t[a] = t[b] PROVE a = b
    <3>1. \A k \in 1..Len(s) : s[k] # e BY <1>8, ElementAt
    <3>2. a = 1 <=> b = 1 BY <2>2, <3>1, <1>4, <1>6
    <3>3. a # 1 => a - 1 = b - 1 BY <2>2, <3>2, <1>6, <1>8, <2>1 DEF IsInjective
    <3> QED BY <3>2, <3>3
  <2> QED BY <2>1, <2>2 DEF IsInjective
<1> QED BY <1>1, <1>3, <1>4, <1>5, <1>7, <1>8 DEF t

\* listc_abl: the element is at the bottom, after the others.
LEMMA AddToBottom ==
    ASSUME NEW S, NEW s \in Seq(S), NEW e \in S
    PROVE  /\ Append(s, e) \in Seq(S)
           /\ Len(Append(s, e)) = Len(s) + 1
           /\ Append(s, e)[Len(s) + 1] = e
           /\ \A k \in 1..Len(s) : Append(s, e)[k] = s[k]
           /\ Range(Append(s, e)) = Range(s) \cup {e}
           /\ IsInjective(s) /\ e \notin Range(s) => IsInjective(Append(s, e))
<1> DEFINE t == Append(s, e)
<1>1. Len(s) \in Nat BY LenProperties
<1>2. /\ t \in Seq(S) /\ Len(t) = Len(s) + 1
      /\ \A i \in 1 .. Len(s) : t[i] = s[i]
      /\ t[Len(s) + 1] = e
  BY AppendProperties
<1> HIDE DEF t
<1>3. \A k \in 1..Len(t) : k = Len(s) + 1 \/ k \in 1..Len(s) BY <1>1, <1>2
<1>4. Range(t) = Range(s) \cup {e}
  <2>1. ASSUME NEW x \in Range(t) PROVE x \in Range(s) \cup {e}
    <3>1. PICK k \in 1..Len(t) : t[k] = x BY <1>2, ElementAt
    <3> QED BY <3>1, <1>2, <1>3, ElementAt
  <2>2. e \in Range(t)
    <3>1. Len(s) + 1 \in 1..Len(t) BY <1>1, <1>2
    <3> QED BY <3>1, <1>2, ElementAt
  <2>3. ASSUME NEW x \in Range(s) PROVE x \in Range(t)
    <3>1. PICK k \in 1..Len(s) : s[k] = x BY ElementAt
    <3>2. k \in 1..Len(t) BY <1>1, <1>2
    <3> QED BY <3>1, <3>2, <1>2, ElementAt
  <2> QED BY <2>1, <2>2, <2>3
<1>5. ASSUME IsInjective(s), e \notin Range(s) PROVE IsInjective(t)
  <2>1. DOMAIN t = 1..Len(t) /\ DOMAIN s = 1..Len(s) BY <1>2, ElementAt
  <2>2. ASSUME NEW a \in 1..Len(t), NEW b \in 1..Len(t), t[a] = t[b] PROVE a = b
    <3>1. \A k \in 1..Len(s) : s[k] # e BY <1>5, ElementAt
    <3> QED BY <2>2, <3>1, <1>2, <1>3, <1>5, <2>1 DEF IsInjective
  <2> QED BY <2>1, <2>2 DEF IsInjective
<1> QED BY <1>2, <1>4, <1>5 DEF t

\* What is left of a list when its first n elements are taken off.
LEMMA TakeOff ==
    ASSUME NEW S, NEW s \in Seq(S), NEW n \in 0..Len(s)
    PROVE  LET t == SubSeq(s, n + 1, Len(s))
           IN  /\ t \in Seq(S)
               /\ Len(t) = Len(s) - n
               /\ \A k \in 1..Len(t) : t[k] = s[n + k]
               /\ \A x : x \in Range(t) <=> \E k \in n + 1 .. Len(s) : s[k] = x
               /\ IsInjective(s) => IsInjective(t)
<1> DEFINE t == SubSeq(s, n + 1, Len(s))
<1>1. Len(s) \in Nat /\ n \in Nat /\ n <= Len(s) BY LenProperties
<1>2. \A i \in n + 1 .. Len(s) : s[i] \in S
  <2>1. \A i \in n + 1 .. Len(s) : i \in 1..Len(s) BY <1>1
  <2> QED BY <2>1, ElementOfSeq
<1>3. /\ t \in Seq(S)
      /\ Len(t) = IF n + 1 <= Len(s) THEN Len(s) - (n + 1) + 1 ELSE 0
      /\ \A i \in 1 .. Len(s) - (n + 1) + 1 : t[i] = s[(n + 1) + i - 1]
  <2>1. n + 1 \in Int /\ Len(s) \in Int BY <1>1
  <2> HIDE DEF t
  <2> QED BY <1>2, <2>1, SubSeqProperties DEF t
<1> HIDE DEF t
<1>4. Len(t) = Len(s) - n /\ Len(s) - (n + 1) + 1 = Len(s) - n BY <1>1, <1>3
<1>5. ASSUME NEW k \in 1..Len(t) PROVE t[k] = s[n + k] /\ n + k \in n + 1 .. Len(s)
  <2>1. (n + 1) + k - 1 = n + k /\ k \in 1 .. Len(s) - (n + 1) + 1 BY <1>1, <1>4
  <2>2. n + k \in n + 1 .. Len(s) BY <1>1, <1>4
  <2> QED BY <2>1, <2>2, <1>3
<1>6. ASSUME NEW x PROVE x \in Range(t) <=> \E k \in n + 1 .. Len(s) : s[k] = x
  <2>1. ASSUME x \in Range(t) PROVE \E k \in n + 1 .. Len(s) : s[k] = x
    <3>1. PICK k \in 1..Len(t) : t[k] = x BY <2>1, <1>3, ElementAt
    <3> QED BY <3>1, <1>5
  <2>2. ASSUME NEW k \in n + 1 .. Len(s), s[k] = x PROVE x \in Range(t)
    <3>1. k - n \in 1..Len(t) /\ n + (k - n) = k BY <1>1, <1>4
    <3>2. t[k - n] = x BY <3>1, <1>5, <2>2
    <3> QED BY <3>1, <3>2, <1>3, ElementAt
  <2> QED BY <2>1, <2>2
<1>7. ASSUME IsInjective(s) PROVE IsInjective(t)
  <2>1. DOMAIN t = 1..Len(t) /\ DOMAIN s = 1..Len(s) BY <1>3, ElementAt
  <2>2. ASSUME NEW a \in 1..Len(t), NEW b \in 1..Len(t), t[a] = t[b] PROVE a = b
    <3>1. n + a \in 1..Len(s) /\ n + b \in 1..Len(s) BY <1>1, <1>5
    <3>2. n + a = n + b BY <2>2, <3>1, <1>5, <1>7, <2>1 DEF IsInjective
    <3> QED BY <3>2, <1>1
  <2> QED BY <2>1, <2>2 DEF IsInjective
<1> QED BY <1>3, <1>4, <1>5, <1>6, <1>7 DEF t

\* listc_rtl: the element at the top comes off.
LEMMA RemoveTop ==
    ASSUME NEW S, NEW s \in Seq(S), s # <<>>
    PROVE  /\ Head(s) \in Range(s)
           /\ Tail(s) \in Seq(S)
           /\ Range(Tail(s)) \subseteq Range(s)
           /\ IsInjective(s) => IsInjective(Tail(s)) /\ Range(Tail(s)) = Range(s) \ {Head(s)}
<1>1. Len(s) \in Nat /\ Len(s) > 0 /\ 1 \in 0..Len(s) /\ 1 \in 1..Len(s) /\ DOMAIN s = 1..Len(s)
  BY EmptySeq, ElementAt
<1>2. Tail(s) = SubSeq(s, 1 + 1, Len(s)) BY TailIsSubSeq
<1>3. Head(s) = s[1] OBVIOUS
<1>4. /\ Tail(s) \in Seq(S)
      /\ \A x : x \in Range(Tail(s)) <=> \E k \in 1 + 1 .. Len(s) : s[k] = x
      /\ IsInjective(s) => IsInjective(Tail(s))
  <2>1. PICK n \in 0..Len(s) : n = 1 BY <1>1
  <2> DEFINE t == SubSeq(s, n + 1, Len(s))
  <2>2. /\ t \in Seq(S)
        /\ \A x : x \in Range(t) <=> \E k \in n + 1 .. Len(s) : s[k] = x
        /\ IsInjective(s) => IsInjective(t)
    BY TakeOff
  <2>3. Tail(s) = t BY <1>2, <2>1
  <2> HIDE DEF t
  <2> QED BY <2>1, <2>2, <2>3
<1>5. \A k \in 1..Len(s) : k = 1 \/ k \in 1 + 1 .. Len(s) BY <1>1
<1>6. \A k \in 1 + 1 .. Len(s) : k \in 1..Len(s) /\ k # 1 BY <1>1
<1>7. Range(Tail(s)) \subseteq Range(s) BY <1>4, <1>6, ElementAt
<1>8. ASSUME IsInjective(s) PROVE Range(Tail(s)) = Range(s) \ {Head(s)}
  <2>1. \A k \in 1 + 1 .. Len(s) : s[k] # s[1] BY <1>8, <1>6, <1>1 DEF IsInjective
  <2>2. ASSUME NEW x \in Range(s), x # s[1] PROVE x \in Range(Tail(s))
    <3>1. PICK k \in 1..Len(s) : s[k] = x BY ElementAt
    <3> QED BY <3>1, <2>2, <1>4, <1>5
  <2> QED BY <2>1, <2>2, <1>3, <1>4, <1>7
<1> QED BY <1>1, <1>3, <1>4, <1>7, <1>8, ElementAt

\* The place of an element of a list that holds none twice.
LEMMA PlaceOf ==
    ASSUME NEW S, NEW s \in Seq(S), IsInjective(s), NEW p \in 1..Len(s)
    PROVE  listc_rfl(s, s[p]) = SubSeq(s, 1, p - 1) \o SubSeq(s, p + 1, Len(s))
<1>1. Len(s) \in Nat /\ DOMAIN s = 1..Len(s) BY ElementAt
<1>2. {k \in DOMAIN s : s[k] = s[p]} = {p} BY <1>1 DEF IsInjective
<1>3. (CHOOSE k \in {p} : TRUE) = p OBVIOUS
<1> QED BY <1>2, <1>3 DEF listc_rfl

\* An element that is not there.
LEMMA RemoveAbsent ==
    ASSUME NEW S, NEW s \in Seq(S), NEW e, e \notin Range(s)
    PROVE  listc_rfl(s, e) = s
  BY ElementAt DEF listc_rfl

\* x is ahead of y in a list.
Ahead(s, x, y) == \E j, k \in 1..Len(s) : j < k /\ s[j] = x /\ s[k] = y

\* listc_rfl: the element is gone and the others keep their order.
LEMMA RemoveElement ==
    ASSUME NEW S, NEW s \in Seq(S), IsInjective(s), NEW e
    PROVE  LET t == listc_rfl(s, e)
           IN  /\ t \in Seq(S)
               /\ IsInjective(t)
               /\ Range(t) = Range(s) \ {e}
               /\ \A x, y : Ahead(t, x, y) <=> Ahead(s, x, y) /\ x # e /\ y # e
<1> DEFINE t == listc_rfl(s, e)
<1>1. Len(s) \in Nat /\ DOMAIN s = 1..Len(s) BY ElementAt
<1>2. CASE e \notin Range(s)
  <2>1. t = s BY <1>2, RemoveAbsent
  <2>2. \A k \in 1..Len(s) : s[k] # e BY <1>2, ElementAt
  <2> HIDE DEF t
  <2>3. \A x, y : Ahead(t, x, y) <=> Ahead(s, x, y) /\ x # e /\ y # e BY <2>1, <2>2 DEF Ahead
  <2> QED BY <1>2, <2>1, <2>3 DEF t
<1>3. CASE e \in Range(s)
  <2>1. PICK p \in 1..Len(s) : s[p] = e BY <1>3, ElementAt
  <2>3. t = SubSeq(s, 1, p - 1) \o SubSeq(s, p + 1, Len(s)) BY <2>1, PlaceOf
  <2> DEFINE u == SubSeq(s, 1, p - 1)
             v == SubSeq(s, p + 1, Len(s))
  <2>4. /\ u \in Seq(S) /\ Len(u) = IF 1 <= p - 1 THEN p - 1 - 1 + 1 ELSE 0
        /\ \A i \in 1 .. p - 1 - 1 + 1 : u[i] = s[1 + i - 1]
    <3>1. \A i \in 1 .. p - 1 : s[i] \in S
      <4>1. \A i \in 1 .. p - 1 : i \in 1..Len(s) BY <1>1
      <4> QED BY <4>1, ElementOfSeq
    <3>2. 1 \in Int /\ p - 1 \in Int BY <1>1
    <3> QED BY <3>1, <3>2, SubSeqProperties
  <2>5. v \in Seq(S) /\ Len(v) = Len(s) - p /\ \A k \in 1..Len(v) : v[k] = s[p + k]
    <3>1. p \in 0..Len(s) BY <1>1
    <3> QED BY <3>1, TakeOff
  <2> HIDE DEF u, v, t
  <2>6. Len(u) = p - 1 /\ \A i \in 1 .. p - 1 : u[i] = s[i] BY <1>1, <2>4
  <2>7. /\ t \in Seq(S) /\ Len(t) = Len(u) + Len(v)
        /\ \A i \in 1 .. Len(u) + Len(v) : t[i] = IF i <= Len(u) THEN u[i] ELSE v[i - Len(u)]
    BY <2>3, <2>4, <2>5, ConcatProperties DEF u, v
  <2>8. Len(t) = Len(s) - 1 BY <1>1, <2>5, <2>6, <2>7
  <2> DEFINE at(i) == IF i < p THEN i ELSE i + 1
  <2>9. ASSUME NEW i \in 1..Len(t) PROVE t[i] = s[at(i)] /\ at(i) \in 1..Len(s) /\ at(i) # p
    <3>1. CASE i < p
      <4>1. i <= Len(u) /\ i \in 1 .. p - 1 /\ i \in 1..Len(s) /\ i \in 1 .. Len(u) + Len(v)
        BY <1>1, <2>6, <2>7, <2>8, <3>1
      <4> QED BY <4>1, <2>6, <2>7, <3>1
    <3>2. CASE ~(i < p)
      <4>1. /\ ~(i <= Len(u)) /\ i - Len(u) \in 1..Len(v) /\ p + (i - Len(u)) = i + 1
            /\ i + 1 \in 1..Len(s) /\ i + 1 # p /\ i \in 1 .. Len(u) + Len(v)
        BY <1>1, <2>5, <2>6, <2>7, <2>8, <3>2
      <4>2. t[i] = v[i - Len(u)] BY <4>1, <2>7
      <4>3. v[i - Len(u)] = s[p + (i - Len(u))] BY <4>1, <2>5
      <4> QED BY <4>1, <4>2, <4>3, <3>2
    <3> QED BY <3>1, <3>2
  <2>10. ASSUME NEW k \in 1..Len(s), k # p
         PROVE  \E i \in 1..Len(t) : at(i) = k
    <3>1. CASE k < p
      <4>1. k \in 1..Len(t) BY <1>1, <2>8, <3>1
      <4> QED BY <4>1, <3>1
    <3>2. CASE k > p
      <4>1. k - 1 \in 1..Len(t) /\ ~(k - 1 < p) /\ (k - 1) + 1 = k BY <1>1, <2>8, <3>2
      <4> QED BY <4>1
    <3> QED BY <3>1, <3>2, <2>10, <1>1
  <2>11. \A i, j \in 1..Len(t) : (at(i) < at(j) <=> i < j) /\ (at(i) = at(j) <=> i = j)
    BY <1>1, <2>8
  <2> HIDE DEF at
  <2>12. \A k \in 1..Len(s) : s[k] = e <=> k = p BY <1>1, <2>1 DEF IsInjective
  <2>13. Range(t) = Range(s) \ {e}
    <3>1. ASSUME NEW x \in Range(t) PROVE x \in Range(s) /\ x # e
      <4>1. PICK i \in 1..Len(t) : t[i] = x BY <2>7, ElementAt
      <4> QED BY <4>1, <2>9, <2>12, ElementAt
    <3>2. ASSUME NEW x \in Range(s), x # e PROVE x \in Range(t)
      <4>1. PICK k \in 1..Len(s) : s[k] = x BY ElementAt
      <4>2. k # p BY <4>1, <3>2, <2>12
      <4>3. PICK i \in 1..Len(t) : at(i) = k BY <4>2, <2>10
      <4> QED BY <4>1, <4>3, <2>7, <2>9, ElementAt
    <3> QED BY <3>1, <3>2
  <2>14. IsInjective(t)
    <3>1. DOMAIN t = 1..Len(t) BY <2>7, ElementAt
    <3>2. ASSUME NEW a \in 1..Len(t), NEW b \in 1..Len(t), t[a] = t[b] PROVE a = b
      <4>1. at(a) = at(b) BY <3>2, <2>9, <1>1 DEF IsInjective
      <4> QED BY <4>1, <2>11
    <3> QED BY <3>1, <3>2 DEF IsInjective
  <2>15. ASSUME NEW x, NEW y PROVE Ahead(t, x, y) <=> Ahead(s, x, y) /\ x # e /\ y # e
    <3>1. ASSUME Ahead(t, x, y) PROVE Ahead(s, x, y) /\ x # e /\ y # e
      <4>1. PICK i \in 1..Len(t), j \in 1..Len(t) : i < j /\ t[i] = x /\ t[j] = y
        BY <3>1 DEF Ahead
      <4>2. at(i) < at(j) BY <4>1, <2>11
      <4> QED BY <4>1, <4>2, <2>9, <2>12 DEF Ahead
    <3>2. ASSUME Ahead(s, x, y), x # e, y # e PROVE Ahead(t, x, y)
      <4>1. PICK j \in 1..Len(s), k \in 1..Len(s) : j < k /\ s[j] = x /\ s[k] = y
        BY <3>2 DEF Ahead
      <4>2. j # p /\ k # p BY <4>1, <3>2, <2>12
      <4>3. PICK a \in 1..Len(t) : at(a) = j BY <4>2, <2>10
      <4>4. PICK b \in 1..Len(t) : at(b) = k BY <4>2, <2>10
      <4>5. a < b BY <4>1, <4>3, <4>4, <2>11
      <4> QED BY <4>1, <4>3, <4>4, <4>5, <2>9 DEF Ahead
    <3> QED BY <3>1, <3>2
  <2> QED BY <2>7, <2>13, <2>14, <2>15 DEF t
<1> QED BY <1>2, <1>3

\* Two elements of a list without repetitions are in the order of their places.
LEMMA AheadPlaces ==
    ASSUME NEW S, NEW s \in Seq(S), IsInjective(s), NEW j \in 1..Len(s), NEW k \in 1..Len(s)
    PROVE  Ahead(s, s[j], s[k]) <=> j < k
  BY ElementAt DEF Ahead, IsInjective

\* What is added to the bottom has the others ahead of it.
LEMMA AheadBottom ==
    ASSUME NEW S, NEW s \in Seq(S), NEW e \in S, NEW x, NEW y
    PROVE  Ahead(Append(s, e), x, y) <=> Ahead(s, x, y) \/ (x \in Range(s) /\ y = e)
<1> DEFINE t == Append(s, e)
<1>1. /\ Len(s) \in Nat /\ Len(t) = Len(s) + 1 /\ t[Len(s) + 1] = e
      /\ \A k \in 1..Len(s) : t[k] = s[k]
  BY ElementAt, AddToBottom
<1>2. \A z : z \in Range(s) <=> \E k \in 1..Len(s) : s[k] = z BY ElementAt
<1> HIDE DEF t
<1>3. ASSUME NEW j \in 1..Len(t), NEW k \in 1..Len(t), j < k, t[j] = x, t[k] = y
      PROVE  Ahead(s, x, y) \/ (x \in Range(s) /\ y = e)
  <2>1. j \in 1..Len(s) BY <1>1, <1>3
  <2>2. CASE k = Len(s) + 1 BY <1>1, <1>2, <1>3, <2>1, <2>2
  <2>3. CASE k # Len(s) + 1
    <3>1. k \in 1..Len(s) BY <1>1, <2>3
    <3> QED BY <1>1, <1>3, <2>1, <3>1 DEF Ahead
  <2> QED BY <2>2, <2>3
<1>4. ASSUME Ahead(s, x, y) PROVE Ahead(t, x, y)
  <2>1. PICK j, k \in 1..Len(s) : j < k /\ s[j] = x /\ s[k] = y BY <1>4 DEF Ahead
  <2>2. j \in 1..Len(t) /\ k \in 1..Len(t) BY <1>1
  <2> QED BY <1>1, <2>1, <2>2 DEF Ahead
<1>5. ASSUME x \in Range(s), y = e PROVE Ahead(t, x, y)
  <2>1. PICK j \in 1..Len(s) : s[j] = x BY <1>2, <1>5
  <2>2. j \in 1..Len(t) /\ Len(s) + 1 \in 1..Len(t) /\ j < Len(s) + 1 BY <1>1
  <2> QED BY <1>1, <1>5, <2>1, <2>2 DEF Ahead
<1>6. Ahead(t, x, y) => Ahead(s, x, y) \/ (x \in Range(s) /\ y = e) BY <1>3 DEF Ahead
<1> QED BY <1>4, <1>5, <1>6 DEF t

\* Nothing is ahead of the top.
LEMMA AheadTop ==
    ASSUME NEW S, NEW s \in Seq(S), IsInjective(s), s # <<>>, NEW x
    PROVE  ~Ahead(s, x, Head(s))
<1>1. Len(s) \in Nat /\ Len(s) > 0 /\ DOMAIN s = 1..Len(s) /\ 1 \in 1..Len(s) BY EmptySeq, ElementAt
<1>2. Head(s) = s[1] OBVIOUS
<1>3. ASSUME NEW j \in 1..Len(s), NEW k \in 1..Len(s), j < k, s[k] = s[1] PROVE FALSE
  BY <1>1, <1>3 DEF IsInjective
<1> QED BY <1>2, <1>3 DEF Ahead

\* What has all others ahead of it is the bottom.
LEMMA AheadLast ==
    ASSUME NEW S, NEW s \in Seq(S), IsInjective(s), NEW z \in Range(s),
           \A x \in Range(s) : x # z => Ahead(s, x, z)
    PROVE  s # <<>> /\ listc_bot(s) = z
<1>1. Len(s) \in Nat /\ DOMAIN s = 1..Len(s) BY ElementAt
<1>2. PICK k \in 1..Len(s) : s[k] = z BY ElementAt
<1>3. Len(s) \in 1..Len(s) /\ s[Len(s)] \in Range(s) BY <1>1, <1>2, ElementAt
<1>4. CASE s[Len(s)] # z
  <2>1. PICK i, j \in 1..Len(s) : i < j /\ s[i] = s[Len(s)] BY <1>3, <1>4 DEF Ahead
  <2>2. i = Len(s) BY <1>1, <1>3, <2>1 DEF IsInjective
  <2> QED BY <1>1, <2>1, <2>2
<1>5. s # <<>> BY <1>1, <1>3, EmptyList
<1> QED BY <1>4, <1>5 DEF listc_bot
=============================================================================
