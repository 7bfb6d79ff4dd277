--------------------------- MODULE WaiterListProofs ---------------------------
(***************************************************************************)
(* Proof that AtomicsWait implements WaiterList: one list shared by all    *)
(* locations, records that threads, timers, notifications and teardown     *)
(* race to complete, and completions that travel through the ready list    *)
(* and the microtask queues, are one queue per location whose records end  *)
(* once and whose ends are told once, truthfully.                          *)
(***************************************************************************)
EXTENDS AtomicsWaitProofs, FiniteSetTheorems

\* A list without repetitions is as long as the set of its members.
LEMMA LengthIsCardinality ==
  ASSUME NEW W, NEW q \in Seq(W), NoDup(q)
  PROVE  /\ Len(q) = Cardinality(Members(q))
         /\ q \in [1..Cardinality(Members(q)) -> Members(q)]
<1>1. Len(q) \in Nat /\ q \in [1..Len(q) -> W] OBVIOUS
<1>2. q \in [1..Len(q) -> Members(q)] BY <1>1 DEF Members
<1>3. q \in Bijection(1..Len(q), Members(q))
  <2>1. \A i, j \in 1..Len(q) : q[i] = q[j] => i = j BY DEF NoDup
  <2>2. \A v \in Members(q) : \E i \in 1..Len(q) : q[i] = v BY DEF Members
  <2> QED BY <1>2, <2>1, <2>2 DEF Bijection, Injection, Surjection, IsInjective
<1>4. ExistsBijection(1..Len(q), Members(q)) BY <1>3 DEF ExistsBijection
<1>5. Cardinality(Members(q)) = Len(q) BY <1>1, <1>4, FS_CountingElements
<1> QED BY <1>2, <1>5

\* Only one list holds the records of s that are in S in the order of s.
LEMMA OrderedUnique ==
  ASSUME NEW W, NEW s \in Seq(W), NoDup(s), NEW S,
         NEW q \in Seq(W), NEW r \in Seq(W), Ordered(q, s, S), Ordered(r, s, S)
  PROVE  q = r
<1>1. NoDup(q) /\ NoDup(r) /\ Members(q) = Members(r) BY DEF Ordered
<1>2. Len(q) = Len(r) /\ Len(q) \in Nat BY <1>1, LengthIsCardinality
<1>3. ASSUME NEW i \in 1..Len(q), \A j \in 1..Len(q) : j < i => q[j] = r[j]
      PROVE  q[i] = r[i]
  <2> SUFFICES ASSUME q[i] # r[i] PROVE FALSE OBVIOUS
  <2>1. q[i] \in Members(r) /\ r[i] \in Members(q) BY <1>1, <1>2 DEF Members
  <2>2. PICK j \in 1..Len(q) : r[j] = q[i] BY <1>2, <2>1 DEF Members
  <2>3. PICK k \in 1..Len(q) : q[k] = r[i] BY <2>1 DEF Members
  <2>4. i < j
    <3>1. j # i BY <2>2
    <3>2. ~(j < i)
      <4> SUFFICES ASSUME j < i PROVE FALSE OBVIOUS
      <4>1. q[j] = q[i] BY <1>3, <2>2
      <4> QED BY <1>1, <4>1 DEF NoDup
    <3> QED BY <3>1, <3>2
  <2>5. i < k
    <3>1. k # i BY <2>3
    <3>2. ~(k < i)
      <4> SUFFICES ASSUME k < i PROVE FALSE OBVIOUS
      <4>1. r[k] = r[i] BY <1>3, <2>3
      <4> QED BY <1>1, <1>2, <4>1 DEF NoDup
    <3> QED BY <3>1, <3>2
  <2>6. PICK a, b \in 1..Len(s) : a < b /\ s[a] = q[i] /\ s[b] = r[i] BY <2>3, <2>5 DEF Ordered
  <2>7. PICK c, d \in 1..Len(s) : c < d /\ s[c] = r[i] /\ s[d] = q[i] BY <1>2, <2>2, <2>4 DEF Ordered
  <2>8. a = d /\ b = c BY <2>6, <2>7 DEF NoDup
  <2> QED BY <2>6, <2>7, <2>8
<1>4. \A i \in 1..Len(q) : q[i] = r[i]
  <2> SUFFICES ASSUME \E i \in 1..Len(q) : q[i] # r[i] PROVE FALSE OBVIOUS
  <2> DEFINE T == {i \in 1..Len(q) : q[i] # r[i]}
  <2>1. T # {} OBVIOUS
  <2>2. T \subseteq 1..Len(q) /\ 1..Len(q) \subseteq Nat BY <1>2
  <2>3. PICK x \in T : \A y \in T : x <= y BY <2>1, <2>2, LeastNat
  <2>4. \A j \in 1..Len(q) : j < x => q[j] = r[j] BY <2>3
  <2> QED BY <1>3, <2>3, <2>4
<1> QED BY <1>2, <1>4

\* The queue of what is in S grows with the list when the new record is in it.
LEMMA OrderedAppend ==
  ASSUME NEW W, NEW s \in Seq(W), NoDup(s), NEW w \in W, w \notin Members(s),
         NEW S, NEW T, Members(s) \cap S = Members(s) \cap T,
         NEW q \in Seq(W), Ordered(q, s, S)
  PROVE  /\ w \in T => Ordered(Append(q, w), Append(s, w), T)
         /\ w \notin T => Ordered(q, Append(s, w), T)
<1> DEFINE t == Append(s, w)
           r == Append(q, w)
<1>1. /\ Len(s) \in Nat /\ Len(t) = Len(s) + 1 /\ t[Len(s) + 1] = w
      /\ \A i \in 1..Len(s) : t[i] = s[i]
  BY AppendProperties
<1>2. Members(t) = Members(s) \cup {w} BY AppendProperty
<1>3. /\ Len(q) \in Nat /\ Len(r) = Len(q) + 1 /\ r[Len(q) + 1] = w
      /\ \A i \in 1..Len(q) : r[i] = q[i]
  BY AppendProperties
<1>4. Members(q) = Members(s) \cap T /\ NoDup(q) /\ w \notin Members(q) BY DEF Ordered
<1>5. Members(r) = Members(q) \cup {w} /\ NoDup(r) BY <1>4, AppendProperty
<1> HIDE DEF t, r
<1>6. ASSUME NEW i \in 1..Len(q), NEW j \in 1..Len(q), i < j
      PROVE  \E k, m \in 1..Len(t) : k < m /\ t[k] = q[i] /\ t[m] = q[j]
  <2>1. PICK k, m \in 1..Len(s) : k < m /\ s[k] = q[i] /\ s[m] = q[j] BY <1>6 DEF Ordered
  <2>2. k \in 1..Len(t) /\ m \in 1..Len(t) /\ t[k] = s[k] /\ t[m] = s[m] BY <1>1
  <2> QED BY <2>1, <2>2
<1>7. ASSUME w \in T PROVE Ordered(r, t, T)
  <2>1. Members(r) = Members(t) \cap T BY <1>2, <1>4, <1>5, <1>7
  <2>2. ASSUME NEW i \in 1..Len(r), NEW j \in 1..Len(r), i < j
        PROVE  \E k, m \in 1..Len(t) : k < m /\ t[k] = r[i] /\ t[m] = r[j]
    <3>1. i \in 1..Len(q) /\ r[i] = q[i] BY <1>3, <2>2
    <3>2. CASE j \in 1..Len(q)
      <4>1. r[j] = q[j] BY <1>3, <3>2
      <4>2. \E k, m \in 1..Len(t) : k < m /\ t[k] = q[i] /\ t[m] = q[j] BY <1>6, <2>2, <3>1, <3>2
      <4> QED BY <3>1, <4>1, <4>2
    <3>3. CASE j = Len(q) + 1
      <4>1. q[i] \in Members(s) BY <1>4, <3>1 DEF Members
      <4>2. PICK k \in 1..Len(s) : s[k] = q[i] BY <4>1 DEF Members
      <4>3. k \in 1..Len(t) /\ t[k] = q[i] /\ k < Len(s) + 1 /\ Len(s) + 1 \in 1..Len(t)
        BY <1>1, <4>2
      <4>4. r[j] = w BY <1>3, <3>3
      <4> QED BY <1>1, <3>1, <4>3, <4>4
    <3> QED BY <1>3, <3>2, <3>3
  <2> QED BY <1>5, <2>1, <2>2 DEF Ordered
<1>8. ASSUME w \notin T PROVE Ordered(q, t, T)
  <2>1. Members(q) = Members(t) \cap T BY <1>2, <1>4, <1>8
  <2> QED BY <1>4, <1>6, <2>1 DEF Ordered
<1> QED BY <1>7, <1>8 DEF r, t

\* A list has a queue of what is in S, and InOrder finds it.
LEMMA InOrderExists ==
  ASSUME NEW W, NEW s \in Seq(W), NoDup(s), NEW S
  PROVE  InOrder(s, S) \in Seq(W) /\ Ordered(InOrder(s, S), s, S)
<1> DEFINE Bad(t) == NoDup(t) /\ ~\E q \in Seq(W) : Ordered(q, t, S)
           N == {n \in Nat : \E t \in Seq(W) : Len(t) = n /\ Bad(t)}
<1>1. N = {}
  <2> SUFFICES ASSUME N # {} PROVE FALSE OBVIOUS
  <2>1. PICK n \in N : \A m \in N : n <= m BY LeastNat
  <2>2. PICK t \in Seq(W) : Len(t) = n /\ Bad(t) BY <2>1
  <2>3. n \in Nat BY <2>1
  <2>4. CASE n = 0
    <3>1. t = <<>> BY <2>2, <2>4, EmptySeq
    <3>2. Ordered(<<>>, t, S) /\ <<>> \in Seq(W) BY <3>1 DEF Ordered, Members, NoDup
    <3> QED BY <2>2, <3>2
  <2>5. CASE n # 0
    <3> DEFINE u == [i \in 1..(n - 1) |-> t[i]]
               w == t[n]
    <3>1. u \in Seq(W) /\ Len(u) = n - 1 /\ n - 1 \in Nat /\ w \in W
      BY <2>2, <2>3, <2>5, IsASeq, LenProperties
    <3>2. \A i \in 1..(n - 1) : u[i] = t[i] OBVIOUS
    <3> HIDE DEF u, w
    <3>3. NoDup(u) BY <2>2, <2>3, <3>1, <3>2 DEF NoDup
    <3>4. w \notin Members(u)
      <4> SUFFICES ASSUME NEW i \in 1..Len(u), u[i] = w PROVE FALSE BY DEF Members
      <4>1. i \in 1..Len(t) /\ n \in 1..Len(t) /\ i # n /\ t[i] = t[n]
        BY <2>2, <2>3, <2>5, <3>1, <3>2 DEF w
      <4> QED BY <2>2, <4>1 DEF NoDup
    <3>5. t = Append(u, w)
      <4>1. /\ Append(u, w) \in Seq(W) /\ Len(Append(u, w)) = n
            /\ \A i \in 1..(n - 1) : Append(u, w)[i] = u[i]
            /\ Append(u, w)[n] = w
        BY <2>3, <3>1, AppendProperties
      <4>2. \A i \in 1..n : t[i] = Append(u, w)[i]
        <5> SUFFICES ASSUME NEW i \in 1..n PROVE t[i] = Append(u, w)[i] OBVIOUS
        <5>1. i = n \/ i \in 1..(n - 1) BY <2>3
        <5> QED BY <3>2, <4>1, <5>1 DEF w
      <4> QED BY <2>2, <4>1, <4>2
    <3>6. n - 1 \notin N BY <2>1, <2>3, <3>1
    <3>7. PICK q \in Seq(W) : Ordered(q, u, S) BY <3>1, <3>3, <3>6
    <3>8. \/ Ordered(Append(q, w), t, S)
          \/ Ordered(q, t, S)
      BY <3>1, <3>3, <3>4, <3>5, <3>7, OrderedAppend
    <3>9. Append(q, w) \in Seq(W) BY <3>1, <3>7
    <3> QED BY <2>2, <3>7, <3>8, <3>9
  <2> QED BY <2>4, <2>5
<1>2. Len(s) \in Nat OBVIOUS
<1>3. PICK q \in Seq(W) : Ordered(q, s, S) BY <1>1, <1>2
<1> DEFINE M == Members(s) \cap S
<1>4. q \in [1..Cardinality(M) -> M] BY <1>3, LengthIsCardinality DEF Ordered
<1>5. InOrder(s, S) \in [1..Cardinality(M) -> M] /\ Ordered(InOrder(s, S), s, S)
  BY <1>3, <1>4 DEF InOrder
<1>6. M \subseteq W BY DEF Members
<1>7. Cardinality(M) \in Nat
  <2>1. Members(q) = M /\ NoDup(q) BY <1>3 DEF Ordered
  <2>2. Len(q) = Cardinality(M) BY <2>1, LengthIsCardinality
  <2> QED BY <2>2
<1>8. InOrder(s, S) \in Seq(W)
  <2>1. \A i \in 1..Cardinality(M) : InOrder(s, S)[i] \in W BY <1>5, <1>6
  <2>2. InOrder(s, S) = [i \in 1..Cardinality(M) |-> InOrder(s, S)[i]] BY <1>5
  <2> HIDE DEF M
  <2> QED BY <1>7, <2>1, <2>2, IsASeq
<1> QED BY <1>5, <1>8

\* What holds the records of s that are in S in the order of s is InOrder.
LEMMA InOrderIs ==
  ASSUME NEW W, NEW s \in Seq(W), NoDup(s), NEW S, NEW q \in Seq(W), Ordered(q, s, S)
  PROVE  InOrder(s, S) = q
BY InOrderExists, OrderedUnique

\* Unlinking keeps the order of the others.
LEMMA UnlinkOrder ==
  ASSUME NEW W, NEW s \in Seq(W), NoDup(s), NEW w \in Members(s)
  PROVE  /\ \A i, j \in 1..Len(Unlink(s, w)) : i < j =>
              \E k, m \in 1..Len(s) : k < m /\ s[k] = Unlink(s, w)[i] /\ s[m] = Unlink(s, w)[j]
         /\ \A i, j \in 1..Len(s) : i < j /\ s[i] # w /\ s[j] # w =>
              \E k, m \in 1..Len(Unlink(s, w)) :
                k < m /\ Unlink(s, w)[k] = s[i] /\ Unlink(s, w)[m] = s[j]
<1> DEFINE at == CHOOSE i \in 1..Len(s) : s[i] = w
           u == Unlink(s, w)
<1>1. at \in 1..Len(s) /\ s[at] = w BY DEF Members
<1>2. Len(s) \in Nat /\ Len(s) - 1 \in Nat /\ \A i \in 1..Len(s) : s[i] \in W BY <1>1
<1>3. u = [i \in 1..(Len(s) - 1) |-> IF i < at THEN s[i] ELSE s[i + 1]] BY DEF Unlink
<1> HIDE DEF at, u
<1>4. Len(u) = Len(s) - 1
  <2>1. \A i \in 1..(Len(s) - 1) : (IF i < at THEN s[i] ELSE s[i + 1]) \in W BY <1>1, <1>2
  <2> QED BY <1>2, <1>3, <2>1, IsASeq, LenProperties
<1>5. \A i \in 1..Len(u) : u[i] = IF i < at THEN s[i] ELSE s[i + 1] BY <1>3, <1>4
<1>6. ASSUME NEW i \in 1..Len(u), NEW j \in 1..Len(u), i < j
      PROVE  \E k, m \in 1..Len(s) : k < m /\ s[k] = u[i] /\ s[m] = u[j]
  <2> DEFINE k == IF i < at THEN i ELSE i + 1
             m == IF j < at THEN j ELSE j + 1
  <2>1. k \in 1..Len(s) /\ m \in 1..Len(s) /\ k < m BY <1>1, <1>2, <1>4, <1>6
  <2>2. s[k] = u[i] /\ s[m] = u[j] BY <1>5
  <2> QED BY <2>1, <2>2
<1>7. ASSUME NEW i \in 1..Len(s), NEW j \in 1..Len(s), i < j, s[i] # w, s[j] # w
      PROVE  \E k, m \in 1..Len(u) : k < m /\ u[k] = s[i] /\ u[m] = s[j]
  <2> DEFINE k == IF i < at THEN i ELSE i - 1
             m == IF j < at THEN j ELSE j - 1
  <2>1. i # at /\ j # at BY <1>1, <1>7
  <2>2. k \in 1..Len(u) /\ m \in 1..Len(u) /\ k < m BY <1>1, <1>2, <1>4, <1>7, <2>1
  <2>3. u[k] = s[i] /\ u[m] = s[j]
    <3>1. u[k] = s[i]
      <4>1. CASE i < at BY <1>5, <2>2, <4>1
      <4>2. CASE i > at
        <5>1. k = i - 1 /\ ~(k < at) /\ k + 1 = i BY <1>1, <1>2, <4>2
        <5> HIDE DEF k
        <5> QED BY <1>5, <2>2, <5>1
      <4> QED BY <1>1, <1>2, <2>1, <4>1, <4>2
    <3>2. u[m] = s[j]
      <4>1. CASE j < at BY <1>5, <2>2, <4>1
      <4>2. CASE j > at
        <5>1. m = j - 1 /\ ~(m < at) /\ m + 1 = j BY <1>1, <1>2, <4>2
        <5> HIDE DEF m
        <5> QED BY <1>5, <2>2, <5>1
      <4> QED BY <1>1, <1>2, <2>1, <4>1, <4>2
    <3> QED BY <3>1, <3>2
  <2> HIDE DEF k, m
  <2> QED BY <2>2, <2>3
<1> QED BY <1>6, <1>7 DEF u

\* Unlinking a record unlinks it from its queue and leaves the others alone.
LEMMA OrderedUnlink ==
  ASSUME NEW W, NEW s \in Seq(W), NoDup(s), NEW w \in Members(s),
         NEW S, NEW T, (Members(s) \ {w}) \cap S = (Members(s) \ {w}) \cap T,
         NEW q \in Seq(W), Ordered(q, s, S)
  PROVE  /\ w \in S => Ordered(Unlink(q, w), Unlink(s, w), T)
         /\ w \notin S => Ordered(q, Unlink(s, w), T)
<1>1. Members(q) = Members(s) \cap S /\ NoDup(q) BY DEF Ordered
<1>2. Members(Unlink(s, w)) = Members(s) \ {w} BY UnlinkProperties
<1>3. ASSUME NEW v, NEW x, v # w, x # w,
             \E i, j \in 1..Len(s) : i < j /\ s[i] = v /\ s[j] = x
      PROVE  \E k, m \in 1..Len(Unlink(s, w)) :
               k < m /\ Unlink(s, w)[k] = v /\ Unlink(s, w)[m] = x
  <2>1. PICK i, j \in 1..Len(s) : i < j /\ s[i] = v /\ s[j] = x BY <1>3
  <2>2. i < j /\ s[i] # w /\ s[j] # w BY <1>3, <2>1
  <2>3. \E k, m \in 1..Len(Unlink(s, w)) :
          k < m /\ Unlink(s, w)[k] = s[i] /\ Unlink(s, w)[m] = s[j]
    BY <2>2, UnlinkOrder
  <2> QED BY <2>1, <2>3
<1>4. ASSUME w \in S PROVE Ordered(Unlink(q, w), Unlink(s, w), T)
  <2>1. w \in Members(q) BY <1>1, <1>4
  <2> DEFINE r == Unlink(q, w)
  <2>2. r \in Seq(W) /\ NoDup(r) /\ Members(r) = Members(q) \ {w} BY <1>1, <2>1, UnlinkProperties
  <2>3. Members(r) = Members(Unlink(s, w)) \cap T BY <1>1, <1>2, <2>2
  <2>4. \A i, j \in 1..Len(r) : i < j => \E k, m \in 1..Len(q) : k < m /\ q[k] = r[i] /\ q[m] = r[j]
    BY <1>1, <2>1, UnlinkOrder
  <2> HIDE DEF r
  <2>5. ASSUME NEW i \in 1..Len(r), NEW j \in 1..Len(r), i < j
        PROVE  \E k, m \in 1..Len(Unlink(s, w)) :
                 k < m /\ Unlink(s, w)[k] = r[i] /\ Unlink(s, w)[m] = r[j]
    <3>1. PICK k, m \in 1..Len(q) : k < m /\ q[k] = r[i] /\ q[m] = r[j] BY <2>4, <2>5
    <3>2. \E a, b \in 1..Len(s) : a < b /\ s[a] = r[i] /\ s[b] = r[j] BY <3>1 DEF Ordered
    <3>3. r[i] # w /\ r[j] # w BY <2>2 DEF Members
    <3> QED BY <1>3, <3>2, <3>3
  <2> QED BY <2>2, <2>3, <2>5 DEF Ordered, r
<1>5. ASSUME w \notin S PROVE Ordered(q, Unlink(s, w), T)
  <2>1. w \notin Members(q) /\ Members(q) = Members(Unlink(s, w)) \cap T BY <1>1, <1>2, <1>5
  <2>2. ASSUME NEW i \in 1..Len(q), NEW j \in 1..Len(q), i < j
        PROVE  \E k, m \in 1..Len(Unlink(s, w)) :
                 k < m /\ Unlink(s, w)[k] = q[i] /\ Unlink(s, w)[m] = q[j]
    <3>1. \E a, b \in 1..Len(s) : a < b /\ s[a] = q[i] /\ s[b] = q[j] BY <2>2 DEF Ordered
    <3>2. q[i] # w /\ q[j] # w BY <2>1 DEF Members
    <3> QED BY <1>3, <3>1, <3>2
  <2> QED BY <1>1, <2>1, <2>2 DEF Ordered
<1> QED BY <1>4, <1>5

\* The oldest record of S is at the head of the queue of S.
LEMMA OldestIsHead ==
  ASSUME NEW W, NEW s \in Seq(W), NoDup(s), NEW S, Members(s) \cap S # {},
         NEW q \in Seq(W), Ordered(q, s, S)
  PROVE  1 \in 1..Len(q) /\ q[1] = Oldest(s, S)
<1> DEFINE w == Oldest(s, S)
<1>1. w \in Members(s) \cap S BY OldestProperties
<1>2. PICK i \in 1..Len(s) : s[i] = w /\ \A j \in 1..(i - 1) : s[j] \notin S BY OldestProperties
<1> HIDE DEF w
<1>a. Members(q) = Members(s) \cap S BY DEF Ordered
<1>b. w \in Members(q) BY <1>1, <1>a
<1>3. PICK k \in 1..Len(q) : q[k] = w BY <1>b DEF Members
<1>4. Len(q) \in Nat /\ 1 \in 1..Len(q) BY <1>3
<1>5. k = 1
  <2> SUFFICES ASSUME k # 1 PROVE FALSE OBVIOUS
  <2>0. 1 < k BY <1>4
  <2>1. PICK a, b \in 1..Len(s) : a < b /\ s[a] = q[1] /\ s[b] = q[k] BY <1>4, <2>0 DEF Ordered
  <2>2. b = i BY <1>2, <1>3, <2>1 DEF NoDup
  <2>3. a \in 1..(i - 1) BY <2>1, <2>2
  <2>4. q[1] \in S BY <1>a, <1>4 DEF Members
  <2> QED BY <1>2, <2>1, <2>3, <2>4
<1> QED BY <1>3, <1>4, <1>5 DEF w

\* WaiterList removes a record of a queue by its place.
LEMMA WithoutIsUnlink ==
  ASSUME NEW W, NEW q \in Seq(W), NoDup(q), NEW i \in 1..Len(q)
  PROVE  Abstract!Without(q, i) = Unlink(q, q[i]) /\ (i = 1 => Tail(q) = Unlink(q, q[i]))
<1> DEFINE at == CHOOSE j \in 1..Len(q) : q[j] = q[i]
<1>1. at \in 1..Len(q) /\ q[at] = q[i] OBVIOUS
<1>2. at = i BY <1>1 DEF NoDup
<1>3. Unlink(q, q[i]) = [j \in 1..(Len(q) - 1) |-> IF j < at THEN q[j] ELSE q[j + 1]] BY DEF Unlink
<1> HIDE DEF at
<1>4. Unlink(q, q[i]) = [j \in 1..(Len(q) - 1) |-> IF j < i THEN q[j] ELSE q[j + 1]] BY <1>2, <1>3
<1>5. ASSUME i = 1 PROVE Tail(q) = Unlink(q, q[i])
  <2>1. Len(q) \in Nat /\ q # <<>> BY <1>5
  <2>2. /\ Tail(q) \in Seq(W) /\ Len(Tail(q)) = Len(q) - 1
        /\ \A j \in 1..Len(Tail(q)) : Tail(q)[j] = q[j + 1]
    BY <2>1, HeadTailProperties
  <2>3. Tail(q) = [j \in 1..(Len(q) - 1) |-> Tail(q)[j]] BY <2>2, LenProperties
  <2>4. \A j \in 1..(Len(q) - 1) : ~(j < i) BY <1>5
  <2> QED BY <1>4, <2>2, <2>3, <2>4
<1> QED BY <1>4, <1>5 DEF Abstract!Without
-----------------------------------------------------------------------------
\* A step that leaves the list and the places of what is on it alone leaves
\* the queues alone.
LEMMA QueuesKept ==
  ASSUME IInv, NEW l, waiting' = waiting, rec' \in [Waiter -> Records],
         \A w \in Members(waiting) : rec'[w].loc = rec[w].loc
  PROVE  QueueAt(l)' = QueueAt(l)
<1>1. waiting \in Seq(Waiter) /\ NoDup(waiting) BY DEF IInv, TypeOK, WaitListExact
<1> DEFINE S == At(l)
           T == {w \in Waiter : rec'[w].loc = l}
<1>2. Members(waiting) \cap S = Members(waiting) \cap T
  <2>1. Members(waiting) \subseteq Waiter BY <1>1, ElementOfSeq DEF Members
  <2> QED BY <2>1 DEF At
<1>3. InOrder(waiting, S) \in Seq(Waiter) /\ Ordered(InOrder(waiting, S), waiting, S)
  BY <1>1, InOrderExists
<1>4. Ordered(InOrder(waiting, S), waiting, T) BY <1>2, <1>3 DEF Ordered
<1>5. InOrder(waiting, T) = InOrder(waiting, S) BY <1>1, <1>3, <1>4, InOrderIs
<1> QED BY <1>5 DEF QueueAt, At

\* Steps that complete, enqueue and report nothing are invisible.
LEMMA QuietMaps ==
  ASSUME IInv, waiting' = waiting, outcome' = outcome, rec' \in [Waiter -> Records],
         \A w \in Waiter : rec'[w].status = rec[w].status,
         \A w \in Members(waiting) : rec'[w].loc = rec[w].loc
  PROVE  UNCHANGED Abstract!vars
<1>1. \A l \in Loc : QueueAt(l)' = QueueAt(l) BY QueuesKept
<1>2. [l \in Loc |-> QueueAt(l)]' = [l \in Loc |-> QueueAt(l)] BY <1>1
<1>3. [w \in Waiter |-> rec[w].status]' = [w \in Waiter |-> rec[w].status] OBVIOUS
<1>4. [w \in Waiter |-> IF outcome[w] \in {"none", "promise"} THEN "no" ELSE outcome[w]]'
      = [w \in Waiter |-> IF outcome[w] \in {"none", "promise"} THEN "no" ELSE outcome[w]]
  OBVIOUS
<1> QED BY <1>2, <1>3, <1>4 DEF Abstract!vars

\* A thread that leaves Atomics.wait and a promise that is settled report what
\* the record ended with.
LEMMA TellMaps ==
  ASSUME IInv, NEW w \in Waiter, rec[w].status \in Terminal, outcome[w] \in {"none", "promise"},
         rec' = [rec EXCEPT ![w] = Released(@.status)], waiting' = waiting,
         outcome' = [outcome EXCEPT ![w] = rec[w].status]
  PROVE  Abstract!Next
<1>1. rec \in [Waiter -> Records] /\ outcome \in [Waiter -> Outcomes] BY DEF IInv, TypeOK
<1>2. /\ rec' \in [Waiter -> Records] /\ \A v \in Waiter : rec'[v].status = rec[v].status
      /\ \A v \in Waiter \ {w} : rec'[v] = rec[v]
  BY <1>1 DEF Released, Records, Statuses, Terminal, Timeouts
<1>3. w \notin Members(waiting) BY DEF IInv, WaitListExact, Terminal
<1>4. Members(waiting) \subseteq Waiter BY ElementOfSeq DEF IInv, TypeOK, Members
<1>5. \A l \in Loc : QueueAt(l)' = QueueAt(l) BY <1>2, <1>3, <1>4, QueuesKept
<1>6. [l \in Loc |-> QueueAt(l)]' = [l \in Loc |-> QueueAt(l)] BY <1>5
<1>7. [v \in Waiter |-> rec[v].status]' = [v \in Waiter |-> rec[v].status] BY <1>2
<1> DEFINE told == [v \in Waiter |-> IF outcome[v] \in {"none", "promise"} THEN "no" ELSE outcome[v]]
<1>8. told' = [told EXCEPT ![w] = [v \in Waiter |-> rec[v].status][w]] BY <1>1 DEF Terminal
<1>9. told[w] = "no" OBVIOUS
<1> HIDE DEF told
<1>10. Abstract!Tell(w) BY <1>6, <1>7, <1>8, <1>9 DEF Abstract!Tell, Terminal, told
<1> QED BY <1>10 DEF Abstract!Next

\* A record that ends leaves its queue, and no other queue changes.
LEMMA CompletionQueues ==
  ASSUME IInv, NEW w \in Waiter, rec[w].status = "pending", NEW st \in Terminal,
         CompleteLocked(w, st), UNCHANGED <<jobs, outcome>>,
         NEW i \in 1..Len(QueueAt(rec[w].loc)), QueueAt(rec[w].loc)[i] = w
  PROVE  [l \in Loc |-> QueueAt(l)]' =
           [[l \in Loc |-> QueueAt(l)] EXCEPT ![rec[w].loc] = Unlink(@, w)]
<1>1. /\ waiting \in Seq(Waiter) /\ NoDup(waiting) /\ w \in Members(waiting)
      /\ rec[w].loc \in Loc
  BY DEF IInv, TypeOK, WaitListExact, RecordShape
<1>2. /\ rec' \in [Waiter -> Records] /\ \A v \in Waiter \ {w} : rec'[v] = rec[v]
      /\ waiting' \in Seq(Waiter) /\ WaitListExact'
  BY CompleteLockedEffect DEF IInv
<1>3. waiting' = Unlink(waiting, w) BY DEF CompleteLocked
<1>4. Members(waiting) \subseteq Waiter BY <1>1, ElementOfSeq DEF Members
<1>5. ASSUME NEW l \in Loc
      PROVE  QueueAt(l)' = IF l = rec[w].loc THEN Unlink(QueueAt(l), w) ELSE QueueAt(l)
  <2> DEFINE S == At(l)
             T == {v \in Waiter : rec'[v].loc = l}
             q == InOrder(waiting, S)
  <2>1. q \in Seq(Waiter) /\ Ordered(q, waiting, S) BY <1>1, InOrderExists
  <2>2. (Members(waiting) \ {w}) \cap S = (Members(waiting) \ {w}) \cap T BY <1>2, <1>4 DEF At
  <2>3. w \in S <=> l = rec[w].loc BY DEF At
  <2>4. NoDup(waiting') BY <1>2 DEF WaitListExact
  <2>5. QueueAt(l) = q /\ QueueAt(l)' = InOrder(waiting', T) BY DEF QueueAt, At
  <2> HIDE DEF S, T, q
  <2>6. CASE w \in S
    <3>1. Ordered(Unlink(q, w), waiting', T) BY <1>1, <1>3, <2>1, <2>2, <2>6, OrderedUnlink
    <3>2. w \in Members(q) /\ NoDup(q) BY <1>1, <2>1, <2>6 DEF Ordered
    <3>3. Unlink(q, w) \in Seq(Waiter) BY <2>1, <3>2, UnlinkProperties
    <3>4. InOrder(waiting', T) = Unlink(q, w) BY <1>2, <2>4, <3>1, <3>3, InOrderIs
    <3> QED BY <2>3, <2>5, <2>6, <3>4
  <2>7. CASE w \notin S
    <3>1. Ordered(q, waiting', T) BY <1>1, <1>3, <2>1, <2>2, <2>7, OrderedUnlink
    <3>2. InOrder(waiting', T) = q BY <1>2, <2>1, <2>4, <3>1, InOrderIs
    <3> QED BY <2>3, <2>5, <2>7, <3>2
  <2> QED BY <2>6, <2>7
<1> QED BY <1>1, <1>5

\* The statuses and what is told when a record ends.
LEMMA CompletionStates ==
  ASSUME IInv, NEW w \in Waiter, rec[w].status = "pending", NEW st \in Terminal,
         CompleteLocked(w, st), UNCHANGED <<jobs, outcome>>
  PROVE  /\ [v \in Waiter |-> rec[v].status]' = [[v \in Waiter |-> rec[v].status] EXCEPT ![w] = st]
         /\ [v \in Waiter |-> IF outcome[v] \in {"none", "promise"} THEN "no" ELSE outcome[v]]'
            = [v \in Waiter |-> IF outcome[v] \in {"none", "promise"} THEN "no" ELSE outcome[v]]
<1>1. rec'[w].status = st /\ \A v \in Waiter \ {w} : rec'[v] = rec[v]
  BY CompleteLockedEffect DEF IInv
<1> QED BY <1>1

\* A pending record has a place in the queue of its location.
LEMMA PlaceInQueue ==
  ASSUME IInv, NEW w \in Waiter, rec[w].status = "pending"
  PROVE  /\ rec[w].loc \in Loc /\ QueueAt(rec[w].loc) \in Seq(Waiter)
         /\ Ordered(QueueAt(rec[w].loc), waiting, At(rec[w].loc)) /\ NoDup(QueueAt(rec[w].loc))
         /\ \E i \in 1..Len(QueueAt(rec[w].loc)) : QueueAt(rec[w].loc)[i] = w
<1>1. /\ waiting \in Seq(Waiter) /\ NoDup(waiting) /\ w \in Members(waiting)
      /\ rec[w].loc \in Loc
  BY DEF IInv, TypeOK, WaitListExact, RecordShape
<1> DEFINE S == At(rec[w].loc)
           q == InOrder(waiting, S)
<1>2. q \in Seq(Waiter) /\ Ordered(q, waiting, S) BY <1>1, InOrderExists
<1>3. w \in S BY DEF At
<1>4. Members(q) = Members(waiting) \cap S /\ NoDup(q) BY <1>2 DEF Ordered
<1> HIDE DEF S, q
<1>5. \E i \in 1..Len(q) : q[i] = w BY <1>1, <1>3, <1>4 DEF Members
<1> QED BY <1>1, <1>2, <1>4, <1>5 DEF QueueAt, S, q

\* A timeout and an abandonment take a record out of its queue, wherever it is.
LEMMA ExpireMaps ==
  ASSUME IInv, NEW w \in Waiter, rec[w].status = "pending",
         CompleteLocked(w, "timed-out"), UNCHANGED <<jobs, outcome>>
  PROVE  Abstract!Next
<1> DEFINE l == rec[w].loc
           queue == [k \in Loc |-> QueueAt(k)]
           state == [v \in Waiter |-> rec[v].status]
           told == [v \in Waiter |-> IF outcome[v] \in {"none", "promise"} THEN "no" ELSE outcome[v]]
<1>1. /\ l \in Loc /\ QueueAt(l) \in Seq(Waiter) /\ NoDup(QueueAt(l))
      /\ \E i \in 1..Len(QueueAt(l)) : QueueAt(l)[i] = w
  BY PlaceInQueue
<1>2. PICK i \in 1..Len(QueueAt(l)) : QueueAt(l)[i] = w BY <1>1
<1>3. queue' = [queue EXCEPT ![l] = Unlink(@, w)] BY <1>2, CompletionQueues DEF Terminal
<1>4. Abstract!Without(QueueAt(l), i) = Unlink(QueueAt(l), w) BY <1>1, <1>2, WithoutIsUnlink
<1>5. state' = [state EXCEPT ![w] = "timed-out"] /\ told' = told
  BY CompletionStates DEF Terminal
<1>6. queue[l] = QueueAt(l) /\ state[w] = "pending" BY <1>1
<1> HIDE DEF queue, state, told, l
<1>7. queue' = [queue EXCEPT ![l] = Abstract!Without(@, i)] BY <1>3, <1>4, <1>6
<1>8. i \in 1..Len(queue[l]) /\ queue[l][i] = w BY <1>2, <1>6
<1>9. PICK k \in Loc : k = l BY <1>1
<1>10. \E j \in 1..Len(queue[k]) :
         queue[k][j] = w /\ queue' = [queue EXCEPT ![k] = Abstract!Without(@, j)]
  BY <1>7, <1>8, <1>9
<1>11. state[w] = "pending" BY <1>6
<1>12. Abstract!Expire(w, k)
  BY ONLY <1>5, <1>10, <1>11 DEF Abstract!Expire, queue, state, told
<1> QED BY <1>12 DEF Abstract!Next

\* A notification takes the head of the queue of its location.
LEMMA NotifyMaps ==
  ASSUME IInv, NEW l, Members(waiting) \cap At(l) # {},
         CompleteLocked(Oldest(waiting, At(l)), "ok"), UNCHANGED <<jobs, outcome>>
  PROVE  Abstract!Next
<1> DEFINE w == Oldest(waiting, At(l))
           queue == [k \in Loc |-> QueueAt(k)]
           state == [v \in Waiter |-> rec[v].status]
           told == [v \in Waiter |-> IF outcome[v] \in {"none", "promise"} THEN "no" ELSE outcome[v]]
<1>1. waiting \in Seq(Waiter) /\ NoDup(waiting) BY DEF IInv, TypeOK, WaitListExact
<1>2. w \in Members(waiting) \cap At(l) BY <1>1, OldestProperties
<1>3. w \in Waiter /\ rec[w].status = "pending" /\ rec[w].loc = l
  BY <1>2 DEF IInv, WaitListExact, At
<1>4. /\ l \in Loc /\ QueueAt(l) \in Seq(Waiter) /\ NoDup(QueueAt(l))
      /\ Ordered(QueueAt(l), waiting, At(l))
  BY <1>3, PlaceInQueue
<1>5. 1 \in 1..Len(QueueAt(l)) /\ QueueAt(l)[1] = w BY <1>1, <1>4, OldestIsHead
<1> HIDE DEF w
<1>6. CompleteLocked(w, "ok") BY DEF w
<1>7. queue' = [queue EXCEPT ![l] = Unlink(@, w)]
  BY <1>3, <1>5, <1>6, CompletionQueues DEF Terminal
<1>8. Tail(QueueAt(l)) = Unlink(QueueAt(l), w) BY <1>4, <1>5, WithoutIsUnlink
<1>9. state' = [state EXCEPT ![w] = "ok"] /\ told' = told
  BY <1>3, <1>6, CompletionStates DEF Terminal
<1>10. queue[l] = QueueAt(l) /\ state[w] = "pending" BY <1>3, <1>4
<1>11. Head(QueueAt(l)) = w /\ QueueAt(l) # <<>> BY <1>4, <1>5
<1> HIDE DEF queue, state, told
<1>12. queue' = [queue EXCEPT ![l] = Tail(@)] BY <1>7, <1>8, <1>10
<1>13. Abstract!Notify(w, l) BY <1>9, <1>10, <1>11, <1>12 DEF Abstract!Notify, queue, state, told
<1> QED BY <1>3, <1>4, <1>13 DEF Abstract!Next

\* A wait is refused, or goes to the end of the queue of its location.
LEMMA BeginMaps ==
  ASSUME IInv, NEW a \in Agent, NEW w \in Waiter, NEW async \in BOOLEAN, NEW l \in Loc,
         NEW v \in Value, NEW t \in Timeouts, BeginWait(a, w, async, l, v, t)
  PROVE  Abstract!Next
<1> DEFINE status == BeginStatus(word[l], v, async, t)
           queue == [k \in Loc |-> QueueAt(k)]
           state == [x \in Waiter |-> rec[x].status]
           told == [x \in Waiter |-> IF outcome[x] \in {"none", "promise"} THEN "no" ELSE outcome[x]]
<1>1. /\ waiting \in Seq(Waiter) /\ NoDup(waiting) /\ rec \in [Waiter -> Records]
      /\ outcome \in [Waiter -> Outcomes]
      /\ \A x \in Waiter : x \in Members(waiting) <=> rec[x].status = "pending"
  BY DEF IInv, TypeOK, WaitListExact
<1>2. status \in {"not-equal", "timed-out", "pending"} BY DEF BeginStatus
<1>3. rec[w].status = "free" /\ outcome[w] = "none" /\ w \notin Members(waiting)
  BY <1>1 DEF BeginWait, IInv, RecordShape
<1>4. Members(waiting) \subseteq Waiter BY <1>1, ElementOfSeq DEF Members
<1>5. /\ rec' = [rec EXCEPT ![w] = IF status # "pending" THEN Released(status) ELSE
                   [status |-> status, async |-> async, agent |-> a,
                    loc |-> l, expected |-> v, timeout |-> t]]
      /\ waiting' = IF status = "pending" THEN Append(waiting, w) ELSE waiting
      /\ outcome' = [outcome EXCEPT ![w] = IF status # "pending" THEN status
                                           ELSE IF async THEN "promise" ELSE "none"]
  BY DEF BeginWait
<1> HIDE DEF status
<1>6. rec' \in [Waiter -> Records] /\ \A x \in Waiter \ {w} : rec'[x] = rec[x]
  BY <1>1, <1>2, <1>5 DEF Released, Records, Statuses, Terminal, Timeouts
<1>7. CASE status # "pending"
  <2>1. rec'[w].status = status BY <1>1, <1>5, <1>7 DEF Released
  <2>2. state' = [state EXCEPT ![w] = status] BY <1>6, <2>1
  <2>3. told' = [told EXCEPT ![w] = status] BY <1>1, <1>2, <1>5, <1>7
  <2>4. \A k \in Loc : QueueAt(k)' = QueueAt(k) BY <1>3, <1>4, <1>5, <1>6, <1>7, QueuesKept
  <2>5. queue' = queue BY <2>4
  <2>6. state[w] = "free" BY <1>3
  <2> HIDE DEF queue, state, told
  <2>7. Abstract!Refuse(w) BY <1>2, <1>7, <2>2, <2>3, <2>5, <2>6 DEF Abstract!Refuse, queue, state, told
  <2> QED BY <2>7 DEF Abstract!Next
<1>8. CASE status = "pending"
  <2>1. rec'[w].status = "pending" /\ rec'[w].loc = l BY <1>1, <1>5, <1>8
  <2>2. state' = [state EXCEPT ![w] = "pending"] BY <1>6, <2>1
  <2>3. told' = told BY <1>1, <1>3, <1>5, <1>8
  <2>4. waiting' = Append(waiting, w) /\ waiting' \in Seq(Waiter) /\ NoDup(waiting')
    BY <1>1, <1>3, <1>5, <1>8, AppendProperty
  <2>5. ASSUME NEW k \in Loc
        PROVE  QueueAt(k)' = IF k = l THEN Append(QueueAt(k), w) ELSE QueueAt(k)
    <3> DEFINE S == At(k)
               T == {x \in Waiter : rec'[x].loc = k}
               q == InOrder(waiting, S)
    <3>1. q \in Seq(Waiter) /\ Ordered(q, waiting, S) BY <1>1, InOrderExists
    <3>2. Members(waiting) \cap S = Members(waiting) \cap T BY <1>3, <1>4, <1>6 DEF At
    <3>3. w \in T <=> k = l BY <2>1
    <3>4. QueueAt(k) = q /\ QueueAt(k)' = InOrder(waiting', T) BY DEF QueueAt, At
    <3> HIDE DEF S, T, q
    <3>5. CASE w \in T
      <4>1. Ordered(Append(q, w), waiting', T) BY <1>1, <1>3, <2>4, <3>1, <3>2, <3>5, OrderedAppend
      <4>2. Append(q, w) \in Seq(Waiter) BY <3>1
      <4>3. InOrder(waiting', T) = Append(q, w) BY <2>4, <4>1, <4>2, InOrderIs
      <4> QED BY <3>3, <3>4, <3>5, <4>3
    <3>6. CASE w \notin T
      <4>1. Ordered(q, waiting', T) BY <1>1, <1>3, <2>4, <3>1, <3>2, <3>6, OrderedAppend
      <4>2. InOrder(waiting', T) = q BY <2>4, <3>1, <4>1, InOrderIs
      <4> QED BY <3>3, <3>4, <3>6, <4>2
    <3> QED BY <3>5, <3>6
  <2>6. queue' = [queue EXCEPT ![l] = Append(@, w)] BY <2>5
  <2>7. state[w] = "free" BY <1>3
  <2> HIDE DEF queue, state, told
  <2>8. Abstract!Enqueue(w, l) BY <2>2, <2>3, <2>6, <2>7 DEF Abstract!Enqueue, queue, state, told
  <2> QED BY <2>8 DEF Abstract!Next
<1> QED BY <1>7, <1>8
-----------------------------------------------------------------------------
\* Initially no queue holds anything.
LEMMA InitMaps == Init => Abstract!Init
<1> SUFFICES ASSUME Init PROVE Abstract!Init OBVIOUS
<1>1. waiting = <<>> /\ <<>> \in Seq(Waiter) /\ NoDup(waiting) BY DEF Init, NoDup
<1>2. ASSUME NEW l \in Loc PROVE QueueAt(l) = <<>>
  <2>1. Ordered(<<>>, waiting, At(l)) BY <1>1 DEF Ordered, Members, NoDup
  <2> QED BY <1>1, <2>1, InOrderIs DEF QueueAt
<1>3. /\ [w \in Waiter |-> rec[w].status] = [w \in Waiter |-> "free"]
      /\ [w \in Waiter |-> IF outcome[w] \in {"none", "promise"} THEN "no" ELSE outcome[w]]
         = [w \in Waiter |-> "no"]
  BY DEF Init, Released
<1> QED BY <1>2, <1>3 DEF Abstract!Init

\* Every step of the threads, lists and loops is a step of the queues or none.
LEMMA StepMaps ==
  ASSUME IInv, [Next]_vars
  PROVE  Abstract!Next \/ UNCHANGED Abstract!vars
<1>1. /\ waiting \in Seq(Waiter) /\ ready \in Seq(Waiter) /\ rec \in [Waiter -> Records]
      /\ jobs \in [Agent -> Seq(Waiter)] /\ cur \in [Agent -> Waiter \cup {Nil}]
  BY DEF IInv, TypeOK
<1>2. CASE UNCHANGED quiet
  <2>1. UNCHANGED <<waiting, rec, outcome>> BY <1>2 DEF quiet, listVars
  <2> QED BY <1>1, <2>1, QuietMaps
<1>3. ASSUME NEW w \in Waiter, rec[w].status \in Terminal,
             rec' = [rec EXCEPT ![w] = Released(@.status)], waiting' = waiting, outcome' = outcome
      PROVE  UNCHANGED Abstract!vars
  <2>1. /\ rec' \in [Waiter -> Records] /\ \A v \in Waiter : rec'[v].status = rec[v].status
        /\ \A v \in Waiter \ {w} : rec'[v] = rec[v]
    BY <1>1, <1>3 DEF Released, Records, Statuses, Terminal, Timeouts
  <2>2. w \notin Members(waiting) BY <1>3 DEF IInv, WaitListExact, Terminal
  <2>3. Members(waiting) \subseteq Waiter BY <1>1, ElementOfSeq DEF Members
  <2> QED BY <1>3, <2>1, <2>2, <2>3, QuietMaps
<1>4. CASE RecordStep
  <2>0. PICK a \in Agent :
      \/ \E w \in Waiter, async \in BOOLEAN, l \in Loc, v \in Value, t \in Timeouts :
            BeginWait(a, w, async, l, v, t)
      \/ SuspendReturns(a) \/ SuspendTimesOut(a)
      \/ NotifyStep(a) \/ SchedStep(a) \/ ResolveWaiter(a)
      \/ \E w \in Waiter : FireTimer(a, w)
      \/ AbandonWaiting \/ AbandonReady
    BY <1>4 DEF RecordStep
  <2>1. CASE \E w \in Waiter, async \in BOOLEAN, l \in Loc, v \in Value, t \in Timeouts :
               BeginWait(a, w, async, l, v, t)
    BY <2>1, BeginMaps
  <2>2. CASE SuspendReturns(a)
    <3>1. /\ cur[a] \in Waiter /\ outcome[cur[a]] = "none"
          /\ rec[cur[a]].status \in Terminal
      BY <1>1, <2>2 DEF SuspendReturns, IInv, WaitsOnOwnRecord
    <3>2. /\ rec' = [rec EXCEPT ![cur[a]] = Released(@.status)] /\ waiting' = waiting
          /\ outcome' = [outcome EXCEPT ![cur[a]] = rec[cur[a]].status]
      BY <2>2 DEF SuspendReturns
    <3> QED BY <3>1, <3>2, TellMaps
  <2>3. CASE SuspendTimesOut(a)
    <3>1. cur[a] \in Waiter /\ rec[cur[a]].status = "pending"
      BY <1>1, <2>3 DEF SuspendTimesOut, IInv, WaitsOnOwnRecord
    <3>2. CompleteLocked(cur[a], "timed-out") /\ UNCHANGED <<jobs, outcome>>
      BY <2>3 DEF SuspendTimesOut, loopVars
    <3> QED BY <3>1, <3>2, ExpireMaps
  <2>4. CASE NotifyStep(a)
    <3>1. /\ Members(waiting) \cap At(call[a].loc) # {}
          /\ CompleteLocked(Oldest(waiting, At(call[a].loc)), "ok") /\ UNCHANGED <<jobs, outcome>>
      BY <2>4 DEF NotifyStep, NotifyMore, loopVars
    <3> QED BY <3>1, NotifyMaps
  <2>5. CASE SchedStep(a)
    <3>1. UNCHANGED <<waiting, rec, outcome>> BY <2>5 DEF SchedStep
    <3> QED BY <1>1, <3>1, QuietMaps
  <2>6. CASE ResolveWaiter(a)
    <3> DEFINE w == Head(jobs[a])
    <3>1. w \in Members(jobs[a])
      <4>1. jobs[a] \in Seq(Waiter) /\ jobs[a] # <<>> BY <1>1, <2>6 DEF ResolveWaiter
      <4>2. w = jobs[a][1] /\ 1 \in 1..Len(jobs[a]) BY <4>1
      <4> QED BY <4>2 DEF Members
    <3>2. w \in Waiter BY <1>1, <3>1, ElementOfSeq DEF Members
    <3>3. Pending(w) BY <3>1 DEF IInv, CompletionConserved
    <3>4. /\ rec' = [rec EXCEPT ![w] = Released(@.status)] /\ waiting' = waiting
          /\ outcome' = [outcome EXCEPT ![w] = rec[w].status]
      BY <2>6 DEF ResolveWaiter
    <3> HIDE DEF w
    <3>5. rec[w].status \in Terminal /\ outcome[w] \in {"none", "promise"} BY <3>3 DEF Pending
    <3> QED BY <3>2, <3>4, <3>5, TellMaps
  <2>7. ASSUME NEW w \in Waiter, FireTimer(a, w)
        PROVE  Abstract!Next \/ UNCHANGED Abstract!vars
    <3>1. UNCHANGED <<jobs, outcome>> BY <2>7 DEF FireTimer
    <3>2. CASE rec[w].status = "pending"
      <4>1. CompleteLocked(w, "timed-out") BY <2>7, <3>2 DEF FireTimer
      <4> QED BY <3>1, <3>2, <4>1, ExpireMaps
    <3>3. CASE rec[w].status # "pending"
      <4>1. UNCHANGED <<waiting, rec>> BY <2>7, <3>3 DEF FireTimer, listVars
      <4> QED BY <1>1, <3>1, <4>1, QuietMaps
    <3> QED BY <3>2, <3>3
  <2>8. CASE AbandonWaiting
    <3> DEFINE w == Oldest(waiting, Of(tgt))
    <3>1. Members(waiting) \cap Of(tgt) # {} /\ CompleteLocked(w, "timed-out") /\ UNCHANGED <<jobs, outcome>>
      BY <2>8 DEF AbandonWaiting, loopVars
    <3>2. w \in Members(waiting) \cap Of(tgt) BY <1>1, <3>1, OldestProperties
    <3>3. w \in Waiter /\ rec[w].status = "pending" BY <3>2 DEF Of, IInv, WaitListExact
    <3> HIDE DEF w
    <3> QED BY <3>1, <3>3, ExpireMaps
  <2>9. CASE AbandonReady
    <3> DEFINE w == Oldest(ready, Of(tgt))
    <3>1. Members(ready) \cap Of(tgt) # {} BY <2>9 DEF AbandonReady
    <3>2. w \in Members(ready) \cap Of(tgt) BY <1>1, <3>1, OldestProperties
    <3>3. w \in Waiter /\ rec[w].status \in Terminal
      BY <3>2 DEF Of, IInv, CompletionConserved, Pending
    <3>4. rec' = [rec EXCEPT ![w] = Released(@.status)] /\ UNCHANGED <<waiting, outcome>>
      BY <2>9 DEF AbandonReady
    <3> HIDE DEF w
    <3> QED BY <1>3, <3>3, <3>4
  <2> QED BY <2>0, <2>1, <2>2, <2>3, <2>4, <2>5, <2>6, <2>7, <2>8, <2>9
<1> QED BY <1>2, <1>4, QuietOrRecordStep

\* The threads, the one list, the ready list and the event loops implement one
\* first-in-first-out queue per location, in which every wait ends once and the
\* program is told once and told what happened, whatever the agents, locations,
\* values and records.
THEOREM WaitersImplementQueues == Spec => ImplementsWaiterList
<1>1. IInv /\ [Next]_vars => [Abstract!Next]_(Abstract!vars)
  BY StepMaps
<1> QED BY <1>1, InitMaps, InductiveInvariant, PTL DEF Spec, ImplementsWaiterList, Abstract!Spec

\* What the program was told of a wait is never taken back, whatever completes
\* the record late: a timer, a notification or the teardown of its agent.
ReportsAreFinal ==
  [][\A w \in Waiter : outcome[w] \notin {"none", "promise"} => outcome'[w] = outcome[w]]_vars

\* WaiterList tells a program once how its wait ended, and AtomicsWait with it.
THEOREM OutcomesAreFinal == Spec => ReportsAreFinal
<1> DEFINE state == [x \in Waiter |-> rec[x].status]
           told == [x \in Waiter |-> IF outcome[x] \in {"none", "promise"} THEN "no" ELSE outcome[x]]
           P == \A w \in Waiter : outcome[w] \notin {"none", "promise"} => outcome'[w] = outcome[w]
<1>1. ASSUME IInv, Next, NEW w \in Waiter, outcome[w] \notin {"none", "promise"}
      PROVE  outcome'[w] = outcome[w]
  <2>1. /\ outcome \in [Waiter -> Outcomes] /\ outcome' \in [Waiter -> Outcomes]
        /\ rec[w].status # "free"
    BY <1>1, NextInv DEF IInv, TypeOK, RecordShape
  <2>2. state[w] # "free" /\ told[w] = outcome[w] /\ told[w] # "no"
    BY <1>1, <2>1 DEF Outcomes, Terminal
  <2>3. told \in [Waiter -> {"no"} \cup Outcomes] BY <2>1
  <2>4. Abstract!Next \/ UNCHANGED Abstract!vars BY <1>1, StepMaps
  <2>5. told'[w] = told[w]
    <3> HIDE DEF state, told
    <3>1. CASE UNCHANGED Abstract!vars BY <3>1 DEF Abstract!vars, told
    <3>2. ASSUME NEW v \in Waiter, Abstract!Refuse(v) PROVE told'[w] = told[w]
      <4>1. state[v] = "free" /\ \E st : told' = [told EXCEPT ![v] = st]
        BY <3>2 DEF Abstract!Refuse, state, told
      <4> QED BY <2>2, <2>3, <4>1
    <3>3. ASSUME NEW v \in Waiter, Abstract!Tell(v) PROVE told'[w] = told[w]
      <4>1. told[v] = "no" /\ \E st : told' = [told EXCEPT ![v] = st]
        BY <3>3 DEF Abstract!Tell, told
      <4> QED BY <2>2, <2>3, <4>1
    <3>4. ASSUME NEW l \in Loc, NEW v \in Waiter, Abstract!Enqueue(v, l) PROVE told'[w] = told[w]
      BY <3>4 DEF Abstract!Enqueue, told
    <3>5. ASSUME NEW l \in Loc, NEW v \in Waiter, Abstract!Notify(v, l) PROVE told'[w] = told[w]
      BY <3>5 DEF Abstract!Notify, told
    <3>6. ASSUME NEW l \in Loc, NEW v \in Waiter, Abstract!Expire(v, l) PROVE told'[w] = told[w]
      BY <3>6 DEF Abstract!Expire, told
    <3>7. CASE Abstract!Next BY <3>2, <3>3, <3>4, <3>5, <3>6, <3>7 DEF Abstract!Next
    <3> QED BY <2>4, <3>1, <3>7
  <2>6. told'[w] = IF outcome'[w] \in {"none", "promise"} THEN "no" ELSE outcome'[w] OBVIOUS
  <2> HIDE DEF told, state
  <2> QED BY <2>2, <2>5, <2>6
<1>2. IInv /\ [Next]_vars => [P]_vars BY <1>1
<1> HIDE DEF P
<1>3. Spec => [][P]_vars BY <1>2, InductiveInvariant, PTL DEF Spec
<1> QED BY <1>3 DEF ReportsAreFinal, P
=============================================================================
