------------------------------ MODULE Dv3Proofs ------------------------------
(***************************************************************************)
(* Theorems of Dv3Kernel, for every set of executables, base priorities    *)
(* and semaphores: the thread that runs is the right one, no executable is *)
(* lost, the ceilings keep others out, and no check of the kernel fails.   *)
(***************************************************************************)
EXTENDS Dv3Kernel, FiniteSetTheorems, SequenceTheorems, WellFoundedInduction, TLAPS

-----------------------------------------------------------------------------
(* Smallest and largest                                                    *)

LEMMA MinOf ==
  ASSUME NEW T \in SUBSET Nat, T # {}
  PROVE  Min(T) \in T /\ \A y \in T : Min(T) <= y
<1>1. \E d \in T : \A c \in T : ~(<<c, d>> \in OpToRel(<, Nat))
  BY NatLessThanWellFounded, WFMin
<1>2. PICK d \in T : \A c \in T : ~(<<c, d>> \in OpToRel(<, Nat))
  BY <1>1
<1>3. \A c \in T : ~(c < d)
  BY <1>2 DEF OpToRel
<1>4. \A c \in T : c \in Nat /\ d \in Nat
  OBVIOUS
<1>5. \A c \in T : d <= c
  BY <1>3, <1>4
<1> QED
  BY <1>5 DEF Min

LEMMA MaxIs ==
  ASSUME NEW T \in SUBSET Int, NEW x \in T, \A y \in T : y <= x
  PROVE  Max(T) = x
<1>1. \A y \in T : y \in Int /\ x \in Int
  OBVIOUS
<1>2. \A y \in T : x >= y
  BY <1>1
<1>3. Max(T) \in T /\ \A y \in T : Max(T) >= y
  BY <1>2 DEF Max
<1>4. Max(T) >= x /\ Max(T) <= x
  BY <1>1, <1>3
<1>5. Max(T) \in Int /\ x \in Int
  BY <1>1, <1>3
<1> QED
  BY <1>4, <1>5

LEMMA MaxTwo ==
  ASSUME NEW a \in Int, NEW b \in Int
  PROVE  Max({a, b}) = IF a >= b THEN a ELSE b
<1>1. CASE a >= b
  <2>1. \A y \in {a, b} : y <= a
    BY <1>1
  <2>2. Max({a, b}) = a
    BY <2>1, MaxIs
  <2> QED
    BY <1>1, <2>2
<1>2. CASE ~(a >= b)
  <2>1. \A y \in {a, b} : y <= b
    BY <1>2
  <2>2. Max({a, b}) = b
    BY <2>1, MaxIs
  <2> QED
    BY <1>2, <2>2
<1> QED
  BY <1>1, <1>2

-----------------------------------------------------------------------------
(* The list of threads                                                     *)

In(q, x) == \E i \in DOMAIN q : q[i] = x
Distinct(q) == \A i, j \in DOMAIN q : q[i] = q[j] => i = j

\* x stands before y.
Before(q, x, y) == \E i, j \in DOMAIN q : i < j /\ q[i] = x /\ q[j] = y

Ordered(q, prio) == \A x, y \in Thread : Before(q, x, y) => prio[x] >= prio[y]

LEMMA StopAt ==
  ASSUME NEW q \in Seq(Thread), NEW S
  PROVE  /\ Stop(q, S) \in 1 .. Len(q) + 1
         /\ \A i \in 1 .. Len(q) : i < Stop(q, S) => q[i] \notin S
         /\ Stop(q, S) <= Len(q) => q[Stop(q, S)] \in S
<1> DEFINE T == {i \in DOMAIN q : q[i] \in S} \union {Len(q) + 1}
<1>1. Len(q) \in Nat /\ DOMAIN q = 1 .. Len(q)
  OBVIOUS
<1>2. T \in SUBSET Nat /\ T # {}
  BY <1>1
<1>3. Stop(q, S) = Min(T)
  BY DEF Stop
<1>4. Min(T) \in T /\ \A y \in T : Min(T) <= y
  <2> HIDE DEF T
  <2> QED
    BY <1>2, MinOf
<1>5. \/ Min(T) = Len(q) + 1
      \/ Min(T) \in DOMAIN q /\ q[Min(T)] \in S
  BY <1>4
<1>6. \A y \in DOMAIN q : q[y] \in S => Min(T) <= y
  BY <1>4
<1> DEFINE m == Min(T)
<1>7. /\ m \in Nat
      /\ m = Len(q) + 1 \/ (m \in 1 .. Len(q) /\ q[m] \in S)
      /\ \A y \in 1 .. Len(q) : q[y] \in S => m <= y
  BY <1>1, <1>5, <1>6
<1> HIDE DEF m
<1>8. /\ m \in 1 .. Len(q) + 1
      /\ \A i \in 1 .. Len(q) : i < m => q[i] \notin S
      /\ m <= Len(q) => q[m] \in S
  BY <1>1, <1>7
<1> QED
  BY <1>3, <1>8 DEF m

LEMMA Inserted ==
  ASSUME NEW S, NEW q \in Seq(S), NEW x \in S, NEW k \in 1 .. Len(q) + 1
  PROVE  /\ InsertAt(q, k, x) \in Seq(S)
         /\ Len(InsertAt(q, k, x)) = Len(q) + 1
         /\ \A i \in 1 .. Len(q) + 1 :
              InsertAt(q, k, x)[i] = IF i < k THEN q[i] ELSE IF i = k THEN x ELSE q[i - 1]
<1> DEFINE a == SubSeq(q, 1, k - 1)
           b == SubSeq(q, k, Len(q))
<1>1. Len(q) \in Nat /\ k \in Int
  OBVIOUS
<1>2. /\ a \in Seq(S) /\ Len(a) = k - 1
      /\ \A i \in 1 .. k - 1 : a[i] = q[i]
  <2>1. \A i \in 1 .. k - 1 : q[i] \in S
    BY <1>1
  <2> QED
    BY <1>1, <2>1, SubSeqProperties
<1>3. /\ b \in Seq(S) /\ Len(b) = Len(q) - k + 1
      /\ \A i \in 1 .. Len(q) - k + 1 : b[i] = q[k + i - 1]
  <2>1. \A i \in k .. Len(q) : q[i] \in S
    BY <1>1
  <2> QED
    BY <1>1, <2>1, SubSeqProperties
<1>4. <<x>> \in Seq(S) /\ Len(<<x>>) = 1 /\ <<x>>[1] = x
  OBVIOUS
<1> DEFINE c == a \o <<x>>
<1> HIDE DEF a, b
<1>5. /\ c \in Seq(S) /\ Len(c) = k
      /\ \A i \in 1 .. k : c[i] = IF i < k THEN q[i] ELSE x
  <2>0. /\ c \in Seq(S) /\ Len(c) = Len(a) + Len(<<x>>)
        /\ \A i \in 1 .. Len(a) + Len(<<x>>) :
             c[i] = IF i <= Len(a) THEN a[i] ELSE <<x>>[i - Len(a)]
    BY <1>2, <1>4, ConcatProperties
  <2> HIDE DEF c
  <2>1. /\ c \in Seq(S) /\ Len(c) = (k - 1) + 1
        /\ \A i \in 1 .. (k - 1) + 1 : c[i] = IF i <= k - 1 THEN a[i] ELSE <<x>>[i - (k - 1)]
    BY <1>2, <1>4, <2>0
  <2>2. ASSUME NEW i \in 1 .. k PROVE c[i] = IF i < k THEN q[i] ELSE x
    <3>1. CASE i <= k - 1
      BY <1>1, <1>2, <2>1, <3>1
    <3>2. CASE i = k
      BY <1>1, <1>4, <2>1, <3>2
    <3> QED
      BY <1>1, <3>1, <3>2
  <2>3. Len(c) = k
    BY <1>1, <2>1
  <2> QED
    BY <2>1, <2>2, <2>3
<1> HIDE DEF c
<1>6. /\ c \o b \in Seq(S) /\ Len(c \o b) = Len(q) + 1
      /\ \A i \in 1 .. Len(q) + 1 : (c \o b)[i] = IF i <= k THEN c[i] ELSE b[i - k]
  <2>1. /\ c \o b \in Seq(S) /\ Len(c \o b) = Len(c) + Len(b)
        /\ \A i \in 1 .. Len(c) + Len(b) :
             (c \o b)[i] = IF i <= Len(c) THEN c[i] ELSE b[i - Len(c)]
    BY <1>3, <1>5, ConcatProperties
  <2>2. Len(c) = k /\ Len(c) + Len(b) = Len(q) + 1
    BY <1>1, <1>3, <1>5
  <2> QED
    BY <2>1, <2>2
<1>7. InsertAt(q, k, x) = c \o b
  BY DEF InsertAt, a, b, c
<1>8. ASSUME NEW i \in 1 .. Len(q) + 1
      PROVE  (c \o b)[i] = IF i < k THEN q[i] ELSE IF i = k THEN x ELSE q[i - 1]
  <2>0. i \in Int /\ (i <= k \/ i > k)
    BY <1>1
  <2>1. CASE i <= k
    <3>1. (c \o b)[i] = c[i] /\ i \in 1 .. k
      BY <1>1, <1>6, <2>1
    <3> QED
      BY <1>1, <1>5, <2>1, <3>1
  <2>2. CASE i > k
    <3>1. (c \o b)[i] = b[i - k] /\ i - k \in 1 .. Len(q) - k + 1
      BY <1>1, <1>6, <2>2
    <3>2. b[i - k] = q[k + (i - k) - 1]
      BY <1>3, <3>1
    <3> QED
      BY <1>1, <2>2, <3>1, <3>2
  <2> QED
    BY <2>0, <2>1, <2>2
<1> QED
  BY <1>6, <1>7, <1>8

\* ... for all arguments at once.
LEMMA InsertedAny ==
  \A S, q, x, k : q \in Seq(S) /\ x \in S /\ k \in 1 .. Len(q) + 1 =>
    /\ InsertAt(q, k, x) \in Seq(S) /\ Len(InsertAt(q, k, x)) = Len(q) + 1
    /\ \A i \in 1 .. Len(q) + 1 :
         InsertAt(q, k, x)[i] = IF i < k THEN q[i] ELSE IF i = k THEN x ELSE q[i - 1]
  BY Inserted

LEMMA InsertedList ==
  ASSUME NEW q \in Seq(Thread), Distinct(q), NEW t \in Thread, ~In(q, t),
         NEW k \in 1 .. Len(q) + 1
  PROVE  LET n == InsertAt(q, k, t) IN
         /\ n \in Seq(Thread) /\ Distinct(n) /\ n # <<>>
         /\ \A u \in Thread : In(n, u) <=> u = t \/ In(q, u)
         /\ \A u, v \in Thread : Before(n, u, v) =>
              \/ Before(q, u, v)
              \/ u = t /\ \E i \in k .. Len(q) : q[i] = v
              \/ v = t /\ \E i \in 1 .. k - 1 : q[i] = u
<1> DEFINE n == InsertAt(q, k, t)
<1>1. /\ n \in Seq(Thread) /\ Len(n) = Len(q) + 1 /\ Len(q) \in Nat
      /\ \A i \in 1 .. Len(q) + 1 :
           n[i] = IF i < k THEN q[i] ELSE IF i = k THEN t ELSE q[i - 1]
  BY Inserted
<1> HIDE DEF n
<1>2. DOMAIN n = 1 .. Len(q) + 1 /\ DOMAIN q = 1 .. Len(q)
  BY <1>1
<1>3. n[k] = t
  BY <1>1
<1>4. ASSUME NEW i \in DOMAIN n, i # k
      PROVE  IF i < k THEN i \in DOMAIN q /\ n[i] = q[i] /\ n[i] # t
                      ELSE i - 1 \in DOMAIN q /\ n[i] = q[i - 1] /\ n[i] # t
  BY <1>1, <1>2, <1>4 DEF In
<1>5. ASSUME NEW i \in DOMAIN q
      PROVE  IF i < k THEN i \in DOMAIN n /\ n[i] = q[i] ELSE i + 1 \in DOMAIN n /\ n[i + 1] = q[i]
  BY <1>1, <1>2
<1>6. Distinct(n)
  <2> SUFFICES ASSUME NEW i \in DOMAIN n, NEW j \in DOMAIN n, n[i] = n[j]
               PROVE  i = j
    BY DEF Distinct
  <2>1. CASE i = k \/ j = k
    BY <1>2, <1>3, <1>4, <2>1
  <2>2. CASE i # k /\ j # k
    BY <1>2, <1>4, <2>2 DEF Distinct
  <2> QED
    BY <2>1, <2>2
<1>7. \A u \in Thread : In(n, u) <=> u = t \/ In(q, u)
  BY <1>2, <1>3, <1>4, <1>5 DEF In
<1>8. ASSUME NEW u \in Thread, NEW v \in Thread, Before(n, u, v)
      PROVE  \/ Before(q, u, v)
             \/ u = t /\ \E i \in k .. Len(q) : q[i] = v
             \/ v = t /\ \E i \in 1 .. k - 1 : q[i] = u
  <2>1. PICK i, j \in DOMAIN n : i < j /\ n[i] = u /\ n[j] = v
    BY <1>8 DEF Before
  <2>2. CASE i = k
    <3>1. u = t /\ j - 1 \in k .. Len(q) /\ q[j - 1] = v
      BY <1>2, <1>3, <1>4, <2>1, <2>2
    <3> QED
      BY <3>1
  <2>3. CASE j = k
    <3>1. v = t /\ i \in 1 .. k - 1 /\ q[i] = u
      BY <1>2, <1>3, <1>4, <2>1, <2>3
    <3> QED
      BY <3>1
  <2>4. CASE i # k /\ j # k
    <3> DEFINE a == IF i < k THEN i ELSE i - 1
               b == IF j < k THEN j ELSE j - 1
    <3>1. a \in DOMAIN q /\ q[a] = u
      BY <1>4, <2>1, <2>4
    <3>2. b \in DOMAIN q /\ q[b] = v
      BY <1>4, <2>1, <2>4
    <3>3. a < b
      BY <1>2, <2>1, <2>4
    <3> QED
      BY <3>1, <3>2, <3>3 DEF Before
  <2> QED
    BY <2>2, <2>3, <2>4
<1> QED
  BY <1>1, <1>6, <1>7, <1>8 DEF n

\* dv_dllinsertaftersame()
LEMMA AfterSame ==
  ASSUME NEW q \in Seq(Thread), Distinct(q), NEW t \in Thread, ~In(q, t),
         NEW p \in Nat, NEW prio \in [Thread -> Nat], Ordered(q, prio)
  PROVE  LET n == InsertAfterSame(q, t, p, prio) IN
         /\ n \in Seq(Thread) /\ Distinct(n) /\ n # <<>>
         /\ \A u \in Thread : In(n, u) <=> u = t \/ In(q, u)
         /\ \A u, v \in Thread : Before(n, u, v) =>
              \/ Before(q, u, v)
              \/ u = t /\ In(q, v) /\ p > prio[v]
              \/ v = t /\ In(q, u) /\ prio[u] >= p
         /\ Ordered(n, [prio EXCEPT ![t] = p])
<1> DEFINE S == {u \in Thread : prio[u] < p}
           k == Stop(q, S)
           n == InsertAt(q, k, t)
<1>1. /\ k \in 1 .. Len(q) + 1
      /\ \A i \in 1 .. Len(q) : i < k => q[i] \notin S
      /\ k <= Len(q) => q[k] \in S
  <2> HIDE DEF S
  <2> QED
    BY StopAt
<1>2. InsertAfterSame(q, t, p, prio) = n
  BY DEF InsertAfterSame
<1> HIDE DEF k
<1>3. /\ n \in Seq(Thread) /\ Distinct(n) /\ n # <<>>
      /\ \A u \in Thread : In(n, u) <=> u = t \/ In(q, u)
      /\ \A u, v \in Thread : Before(n, u, v) =>
           \/ Before(q, u, v)
           \/ u = t /\ \E i \in k .. Len(q) : q[i] = v
           \/ v = t /\ \E i \in 1 .. k - 1 : q[i] = u
  BY <1>1, InsertedList
<1> HIDE DEF n
<1>4. Len(q) \in Nat /\ DOMAIN q = 1 .. Len(q) /\ \A i \in 1 .. Len(q) : q[i] \in Thread
  OBVIOUS
<1>5. ASSUME NEW i \in k .. Len(q) PROVE In(q, q[i]) /\ p > prio[q[i]]
  <2>1. i \in DOMAIN q /\ k \in DOMAIN q /\ k <= i /\ q[k] \in S
    BY <1>1, <1>4
  <2>2. q[k] \in Thread /\ q[i] \in Thread /\ prio[q[k]] < p
    BY <1>4, <2>1
  <2>3. k = i \/ Before(q, q[k], q[i])
    BY <2>1 DEF Before
  <2>4. prio[q[k]] \in Nat /\ prio[q[i]] \in Nat
    BY <2>2
  <2>5. prio[q[k]] >= prio[q[i]]
    BY <2>2, <2>3, <2>4 DEF Ordered
  <2> QED
    BY <2>1, <2>2, <2>4, <2>5 DEF In
<1>6. ASSUME NEW i \in 1 .. k - 1 PROVE In(q, q[i]) /\ prio[q[i]] >= p
  <2>1. i \in DOMAIN q /\ i < k /\ i \in 1 .. Len(q)
    BY <1>1, <1>4
  <2>2. q[i] \in Thread /\ q[i] \notin S
    BY <1>1, <1>4, <2>1
  <2> QED
    BY <2>1, <2>2 DEF In
<1>7. \A u, v \in Thread : Before(n, u, v) =>
        \/ Before(q, u, v)
        \/ u = t /\ In(q, v) /\ p > prio[v]
        \/ v = t /\ In(q, u) /\ prio[u] >= p
  BY <1>3, <1>5, <1>6
<1>8. Ordered(n, [prio EXCEPT ![t] = p])
  <2> DEFINE new == [prio EXCEPT ![t] = p]
  <2> SUFFICES ASSUME NEW u \in Thread, NEW v \in Thread, Before(n, u, v)
               PROVE  new[u] >= new[v]
    BY DEF Ordered
  <2>1. new[t] = p /\ \A x \in Thread \ {t} : new[x] = prio[x]
    OBVIOUS
  <2>2. CASE Before(q, u, v)
    <3>1. u # t /\ v # t
      BY <2>2 DEF Before, In
    <3> QED
      BY <2>1, <2>2, <3>1 DEF Ordered
  <2>3. CASE u = t /\ In(q, v) /\ p > prio[v]
    <3>1. v # t
      BY <2>3
    <3> QED
      BY <2>1, <2>3, <3>1
  <2>4. CASE v = t /\ In(q, u) /\ prio[u] >= p
    <3>1. u # t
      BY <2>4
    <3> QED
      BY <2>1, <2>4, <3>1
  <2> QED
    BY <1>7, <2>2, <2>3, <2>4
<1> QED
  BY <1>2, <1>3, <1>7, <1>8

\* dv_dllinsertbeforesame_elem()
LEMMA BeforeSame ==
  ASSUME NEW q \in Seq(Thread), Distinct(q), NEW t \in Thread, ~In(q, t),
         NEW p \in Nat, NEW prio \in [Thread -> Nat], Ordered(q, prio)
  PROVE  LET n == InsertBeforeSame(q, t, p, prio) IN
         /\ n \in Seq(Thread) /\ Distinct(n) /\ n # <<>>
         /\ \A u \in Thread : In(n, u) <=> u = t \/ In(q, u)
         /\ \A u, v \in Thread : Before(n, u, v) =>
              \/ Before(q, u, v)
              \/ u = t /\ In(q, v) /\ p >= prio[v]
              \/ v = t /\ In(q, u) /\ prio[u] > p
         /\ Ordered(n, [prio EXCEPT ![t] = p])
<1> DEFINE S == {u \in Thread : prio[u] <= p}
           k == Stop(q, S)
           n == InsertAt(q, k, t)
<1>1. /\ k \in 1 .. Len(q) + 1
      /\ \A i \in 1 .. Len(q) : i < k => q[i] \notin S
      /\ k <= Len(q) => q[k] \in S
  <2> HIDE DEF S
  <2> QED
    BY StopAt
<1>2. InsertBeforeSame(q, t, p, prio) = n
  BY DEF InsertBeforeSame
<1> HIDE DEF k
<1>3. /\ n \in Seq(Thread) /\ Distinct(n) /\ n # <<>>
      /\ \A u \in Thread : In(n, u) <=> u = t \/ In(q, u)
      /\ \A u, v \in Thread : Before(n, u, v) =>
           \/ Before(q, u, v)
           \/ u = t /\ \E i \in k .. Len(q) : q[i] = v
           \/ v = t /\ \E i \in 1 .. k - 1 : q[i] = u
  BY <1>1, InsertedList
<1> HIDE DEF n
<1>4. Len(q) \in Nat /\ DOMAIN q = 1 .. Len(q) /\ \A i \in 1 .. Len(q) : q[i] \in Thread
  OBVIOUS
<1>5. ASSUME NEW i \in k .. Len(q) PROVE In(q, q[i]) /\ p >= prio[q[i]]
  <2>1. i \in DOMAIN q /\ k \in DOMAIN q /\ k <= i /\ q[k] \in S
    BY <1>1, <1>4
  <2>2. q[k] \in Thread /\ q[i] \in Thread /\ prio[q[k]] <= p
    BY <1>4, <2>1
  <2>3. k = i \/ Before(q, q[k], q[i])
    BY <2>1 DEF Before
  <2>4. prio[q[k]] \in Nat /\ prio[q[i]] \in Nat
    BY <2>2
  <2>5. prio[q[k]] >= prio[q[i]]
    BY <2>2, <2>3, <2>4 DEF Ordered
  <2> QED
    BY <2>1, <2>2, <2>4, <2>5 DEF In
<1>6. ASSUME NEW i \in 1 .. k - 1 PROVE In(q, q[i]) /\ prio[q[i]] > p
  <2>1. i \in DOMAIN q /\ i < k /\ i \in 1 .. Len(q)
    BY <1>1, <1>4
  <2>2. q[i] \in Thread /\ q[i] \notin S
    BY <1>1, <1>4, <2>1
  <2> QED
    BY <2>1, <2>2 DEF In
<1>7. \A u, v \in Thread : Before(n, u, v) =>
        \/ Before(q, u, v)
        \/ u = t /\ In(q, v) /\ p >= prio[v]
        \/ v = t /\ In(q, u) /\ prio[u] > p
  BY <1>3, <1>5, <1>6
<1>8. Ordered(n, [prio EXCEPT ![t] = p])
  <2> DEFINE new == [prio EXCEPT ![t] = p]
  <2> SUFFICES ASSUME NEW u \in Thread, NEW v \in Thread, Before(n, u, v)
               PROVE  new[u] >= new[v]
    BY DEF Ordered
  <2>1. new[t] = p /\ \A x \in Thread \ {t} : new[x] = prio[x]
    OBVIOUS
  <2>2. CASE Before(q, u, v)
    <3>1. u # t /\ v # t
      BY <2>2 DEF Before, In
    <3> QED
      BY <2>1, <2>2, <3>1 DEF Ordered
  <2>3. CASE u = t /\ In(q, v) /\ p >= prio[v]
    <3>1. v # t
      BY <2>3
    <3> QED
      BY <2>1, <2>3, <3>1
  <2>4. CASE v = t /\ In(q, u) /\ prio[u] > p
    <3>1. u # t
      BY <2>4
    <3> QED
      BY <2>1, <2>4, <3>1
  <2> QED
    BY <1>7, <2>2, <2>3, <2>4
<1> QED
  BY <1>2, <1>3, <1>7, <1>8

\* The first of the list stands before all others.
LEMMA FirstOf ==
  ASSUME NEW S, NEW q \in Seq(S), q # <<>>, Distinct(q)
  PROVE  /\ Head(q) \in S /\ In(q, Head(q))
         /\ \A u \in S : In(q, u) /\ u # Head(q) => Before(q, Head(q), u)
         /\ \A u \in S : ~Before(q, u, Head(q))
<1>1. Len(q) \in Nat \ {0} /\ DOMAIN q = 1 .. Len(q) /\ Head(q) = q[1]
  OBVIOUS
<1>2. 1 \in DOMAIN q /\ q[1] \in S
  BY <1>1
<1>3. \A u \in S : In(q, u) /\ u # Head(q) => Before(q, Head(q), u)
  BY <1>1, <1>2 DEF In, Before
<1>4. \A u \in S : ~Before(q, u, Head(q))
  BY <1>1, <1>2 DEF Before, Distinct
<1> QED
  BY <1>1, <1>2, <1>3, <1>4 DEF In

\* ... and is taken from it.
LEMMA RestOf ==
  ASSUME NEW S, NEW q \in Seq(S), q # <<>>, Distinct(q)
  PROVE  /\ Tail(q) \in Seq(S) /\ Distinct(Tail(q))
         /\ \A u \in S : In(Tail(q), u) <=> In(q, u) /\ u # Head(q)
         /\ \A u, v \in S : Before(Tail(q), u, v) => Before(q, u, v)
<1> DEFINE r == Tail(q)
<1>1. /\ Len(q) \in Nat \ {0} /\ DOMAIN q = 1 .. Len(q) /\ Head(q) = q[1]
      /\ r \in Seq(S) /\ Len(r) = Len(q) - 1
      /\ \A i \in 1 .. Len(r) : r[i] = q[i + 1]
  BY HeadTailProperties
<1> HIDE DEF r
<1>2. DOMAIN r = 1 .. Len(q) - 1
  BY <1>1
<1>3. \A i \in DOMAIN r : i + 1 \in DOMAIN q /\ r[i] = q[i + 1]
  BY <1>1, <1>2
<1>4. \A i \in DOMAIN q : i # 1 => i - 1 \in DOMAIN r /\ r[i - 1] = q[i]
  BY <1>1, <1>2
<1>5. Distinct(r)
  <2> SUFFICES ASSUME NEW i \in DOMAIN r, NEW j \in DOMAIN r, r[i] = r[j] PROVE i = j
    BY DEF Distinct
  <2>1. i + 1 = j + 1
    BY <1>3 DEF Distinct
  <2> QED
    BY <1>2, <2>1
<1>6. ASSUME NEW u \in S PROVE In(r, u) <=> In(q, u) /\ u # Head(q)
  <2>1. ASSUME In(r, u) PROVE In(q, u) /\ u # Head(q)
    <3>1. PICK i \in DOMAIN r : r[i] = u
      BY <2>1 DEF In
    <3>2. i + 1 \in DOMAIN q /\ q[i + 1] = u /\ i + 1 # 1 /\ 1 \in DOMAIN q
      BY <1>1, <1>2, <1>3, <3>1
    <3> QED
      BY <1>1, <3>2 DEF In, Distinct
  <2>2. ASSUME In(q, u), u # Head(q) PROVE In(r, u)
    BY <1>1, <1>4, <2>2 DEF In
  <2> QED
    BY <2>1, <2>2
<1>7. ASSUME NEW u \in S, NEW v \in S, Before(r, u, v) PROVE Before(q, u, v)
  <2>1. PICK i, j \in DOMAIN r : i < j /\ r[i] = u /\ r[j] = v
    BY <1>7 DEF Before
  <2>2. i + 1 < j + 1
    BY <1>2, <2>1
  <2> QED
    BY <1>3, <2>1, <2>2 DEF Before
<1> QED
  BY <1>1, <1>5, <1>6, <1>7 DEF r

-----------------------------------------------------------------------------
(* The inductive invariant                                                 *)

\* The application keeps the rules.
Disciplined == Liberties = {}

ThreadType ==
  /\ exestate \in [Exe -> {"idle", "active", "suspended", "sleep"}]
  /\ thrstate \in [Thread -> {"idle", "running", "ready"}]
  /\ thrprio \in [Thread -> Nat]
  /\ threxe \in [Thread -> Exe \union {None}]
  /\ jobqueue \in [Thread -> Seq(Exe)]
  /\ threadqueue \in Seq(Thread)
  /\ current \in Thread \union {None}

SemType ==
  /\ semtaken \in [Exe -> Sem \union {None}]
  /\ created \subseteq Sem
  /\ owner \in [Sem -> Exe \union {None}]
  /\ link \in [Sem -> Sem \union {None}]
  /\ oldprio \in [Sem -> Int] /\ ceiling \in [Sem -> Int] /\ count \in [Sem -> Int]

\* The list has the threads that are occupied, by priority; an executable is on the
\* thread of its base priority, at that priority or raised above it.
Listed ==
  /\ threadqueue # <<>> /\ Distinct(threadqueue) /\ Ordered(threadqueue, thrprio)
  /\ \A t \in Thread :
       /\ threxe[t] # None <=> In(threadqueue, t)
       /\ thrstate[t] = "idle" <=> threxe[t] = None
       /\ threxe[t] # None => BasePrio[threxe[t]] = t /\ thrprio[t] >= t
  /\ threxe[BasePrio[Idle]] = Idle

\* Who makes calls is the first of the list.
Calling ==
  /\ current # None => threxe[current] # None
  /\ pc = "app" => current = Head(threadqueue)

\* An active executable is on its thread or waits for it.
Jobs ==
  /\ \A e \in Exe : exestate[e] = "active" =>
       threxe[BasePrio[e]] = e \/ In(jobqueue[BasePrio[e]], e)
  /\ \A t \in Thread :
       /\ threxe[t] # None =>
            exestate[threxe[t]] = "active" /\ ~In(jobqueue[t], threxe[t])
       /\ Distinct(jobqueue[t])
       /\ \A e \in Exe : In(jobqueue[t], e) => BasePrio[e] = t /\ exestate[e] = "active"
       /\ jobqueue[t] # <<>> => threxe[t] # None

\* A sleeping executable is in the queue of sleepers, once.
Sleepers ==
  /\ sleepqueue \in Seq([exe : Exe, key : Int]) /\ now \in Nat
  /\ \A i, j \in DOMAIN sleepqueue : sleepqueue[i].exe = sleepqueue[j].exe => i = j
  /\ \A e \in Exe :
       exestate[e] = "sleep" <=> \E i \in DOMAIN sleepqueue : sleepqueue[i].exe = e

\* The owner of a semaphore keeps its thread, at least at the ceiling; only threads
\* above the ceiling stand before it.
Owned ==
  /\ \A s \in Sem : owner[s] # None =>
       /\ s \in created /\ count[s] = 0
       /\ threxe[BasePrio[owner[s]]] = owner[s]
       /\ thrprio[BasePrio[owner[s]]] >= ceiling[s]
       /\ \A t \in Thread :
            Before(threadqueue, t, BasePrio[owner[s]]) => t > ceiling[s]
  /\ \A s \in created : owner[s] = None => count[s] = 1

\* A thread is raised by a semaphore that its executable owns.
Raised ==
  \A t \in Thread : threxe[t] # None /\ thrprio[t] # t =>
    \E s \in Sem : owner[s] = threxe[t] /\ thrprio[t] = ceiling[s]

\* r ranks the semaphores in the order in which their owner has taken them: its list has
\* them all, the last first, each with the priority that came from those before it.
Held(r) ==
  /\ r \in [Sem -> Nat]
  /\ \A s, u \in Sem : owner[s] # None /\ owner[s] = owner[u] /\ r[s] = r[u] => s = u
  /\ \A e \in Exe :
       IF semtaken[e] = None THEN \A s \in Sem : owner[s] # e
       ELSE /\ owner[semtaken[e]] = e
            /\ \A s \in Sem : owner[s] = e => r[s] <= r[semtaken[e]]
  /\ \A s \in Sem : owner[s] # None =>
       /\ IF link[s] = None THEN \A u \in Sem : owner[u] = owner[s] => r[s] <= r[u]
          ELSE /\ owner[link[s]] = owner[s] /\ r[link[s]] < r[s]
               /\ \A u \in Sem : owner[u] = owner[s] /\ r[u] < r[s] => r[u] <= r[link[s]]
       /\ oldprio[s] >= BasePrio[owner[s]]
       /\ \A u \in Sem : owner[u] = owner[s] /\ r[u] < r[s] => oldprio[s] >= ceiling[u]
       /\ \/ oldprio[s] = BasePrio[owner[s]]
          \/ \E u \in Sem : owner[u] = owner[s] /\ r[u] < r[s] /\ oldprio[s] = ceiling[u]

Core == ThreadType /\ SemType /\ Listed /\ Jobs /\ Owned /\ Raised
Inv(r) == Core /\ Calling /\ Sleepers /\ Held(r) /\ panic = "none"

-----------------------------------------------------------------------------
(* Job queues                                                              *)

LEMMA Base == \A e \in Exe : BasePrio[e] \in Thread /\ BasePrio[e] \in Nat
BY ExeAssumption DEF Thread

LEMMA ThreadNat == \A t \in Thread : t \in Nat
BY ExeAssumption DEF Thread

LEMMA Appended ==
  ASSUME NEW S, NEW q \in Seq(S), NEW x \in S, Distinct(q), ~In(q, x)
  PROVE  /\ Append(q, x) \in Seq(S) /\ Distinct(Append(q, x)) /\ Append(q, x) # <<>>
         /\ \A y \in S : In(Append(q, x), y) <=> In(q, y) \/ y = x
<1> DEFINE n == Append(q, x)
<1>1. /\ n \in Seq(S) /\ n # <<>> /\ Len(n) = Len(q) + 1 /\ Len(q) \in Nat
      /\ \A i \in 1 .. Len(q) : n[i] = q[i]
      /\ n[Len(q) + 1] = x
  BY AppendProperties
<1> HIDE DEF n
<1>2. DOMAIN n = 1 .. Len(q) + 1 /\ DOMAIN q = 1 .. Len(q)
  BY <1>1
<1>3. \A i \in DOMAIN n : IF i = Len(q) + 1 THEN n[i] = x
                          ELSE i \in DOMAIN q /\ n[i] = q[i] /\ n[i] # x
  BY <1>1, <1>2 DEF In
<1>4. Distinct(n)
  BY <1>3 DEF Distinct
<1>5. \A y \in S : In(n, y) <=> In(q, y) \/ y = x
  BY <1>1, <1>2, <1>3 DEF In
<1> QED
  BY <1>1, <1>4, <1>5 DEF n

LEMMA DistinctLength ==
  ASSUME NEW X, NEW q \in Seq(X), Distinct(q), NEW S, IsFiniteSet(S),
         \A i \in DOMAIN q : q[i] \in S
  PROVE  Len(q) <= Cardinality(S)
<1>1. Len(q) \in Nat /\ DOMAIN q = 1 .. Len(q) /\ q \in [1 .. Len(q) -> S]
  OBVIOUS
<1>2. IsFiniteSet(1 .. Len(q)) /\ Cardinality(1 .. Len(q)) = Len(q)
  <2>1. 1 \in Int /\ Len(q) \in Int
    BY <1>1
  <2>2. /\ IsFiniteSet(1 .. Len(q))
        /\ Cardinality(1 .. Len(q)) = IF 1 > Len(q) THEN 0 ELSE Len(q) - 1 + 1
    BY <2>1, FS_Interval
  <2> QED
    BY <1>1, <2>2
<1>3. Cardinality(S) \in Nat
  BY FS_CardinalityType
<1>4. ~(Cardinality(S) < Len(q))
  <2> SUFFICES ASSUME Cardinality(S) < Len(q) PROVE FALSE
    OBVIOUS
  <2>1. \E i, j \in 1 .. Len(q) : i # j /\ q[i] = q[j]
    BY <1>1, <1>2, FS_PigeonHole
  <2> QED
    BY <1>1, <2>1 DEF Distinct
<1> QED
  BY <1>1, <1>3, <1>4

\* dv_thread_rb_length(): there is room for every executable of the thread.
LEMMA RbLengthEnough ==
  ASSUME NEW n \in Nat
  PROVE  RbLength(n) \in Nat /\ RbLength(n) >= n
<1>1. n % RoundRb \in 0 .. RoundRb - 1 /\ RoundRb \in Nat /\ MinRb \in Nat
  BY NumberAssumption
<1> QED
  BY <1>1 DEF RbLength

LEMMA JobRoom ==
  ASSUME Core, NEW e \in Exe, exestate[e] # "active"
  PROVE  Len(jobqueue[BasePrio[e]]) < RbLength(NExe(BasePrio[e]))
<1> DEFINE t == BasePrio[e]
           S == {x \in Exe : BasePrio[x] = t}
           q == jobqueue[t]
<1>1. t \in Thread /\ q \in Seq(Exe) /\ Distinct(q)
  BY Base DEF Core, ThreadType, Jobs
<1>2. IsFiniteSet(S) /\ IsFiniteSet(S \ {e}) /\ Cardinality(S) \in Nat
      /\ Cardinality(S \ {e}) = Cardinality(S) - 1
  BY ExeAssumption, FS_Subset, FS_RemoveElement, FS_CardinalityType
<1>3. \A i \in DOMAIN q : q[i] \in S \ {e}
  <2> SUFFICES ASSUME NEW i \in DOMAIN q PROVE q[i] \in S \ {e}
    OBVIOUS
  <2>1. q[i] \in Exe /\ In(q, q[i])
    BY <1>1 DEF In
  <2> QED
    BY <1>1, <2>1 DEF Core, Jobs
<1> HIDE DEF S, q
<1>4. Len(q) <= Cardinality(S) - 1
  BY <1>1, <1>2, <1>3, DistinctLength
<1>5. NExe(t) = Cardinality(S)
  BY DEF NExe, S
<1>6. RbLength(Cardinality(S)) \in Nat /\ RbLength(Cardinality(S)) >= Cardinality(S)
  BY <1>2, RbLengthEnough
<1>7. Len(q) \in Nat
  BY <1>1
<1> QED
  BY <1>2, <1>4, <1>5, <1>6, <1>7 DEF q

-----------------------------------------------------------------------------
(* Starting and removing an executable                                     *)

\* What no change of the threads touches
SemSame == UNCHANGED <<created, owner, link, oldprio, ceiling, count, semtaken>>

LEMMA ActivateKeeps ==
  ASSUME Core, NEW e \in Exe, exestate[e] # "active", Activate(e), SemSame
  PROVE  Core' /\ exestate' = [exestate EXCEPT ![e] = "active"] /\ current' = current
<1> DEFINE t == BasePrio[e]
<1>1. ThreadType /\ SemType /\ Listed /\ Jobs /\ Owned /\ Raised
  BY DEF Core
<1>2. /\ t \in Thread /\ t \in Nat
      /\ \A u \in Thread : thrprio[u] \in Nat /\ u \in Nat /\ jobqueue[u] \in Seq(Exe)
      /\ threadqueue \in Seq(Thread) /\ thrprio \in [Thread -> Nat]
  BY <1>1, Base, ThreadNat DEF ThreadType
<1>3. /\ exestate' = [exestate EXCEPT ![e] = "active"] /\ current' = current
      /\ exestate'[e] = "active" /\ \A x \in Exe \ {e} : exestate'[x] = exestate[x]
      /\ exestate' \in [Exe -> {"idle", "active", "suspended", "sleep"}]
  BY <1>1 DEF Activate, ThreadType
<1>4. SemType'
  BY <1>1 DEF SemType, SemSame
<1>5. threxe[t] # e /\ ~In(jobqueue[t], e)
  BY <1>1, <1>2, ExeAssumption DEF Jobs
<1>6. CASE thrstate[t] = "idle"
  <2> DEFINE n == InsertAfterSame(threadqueue, t, t, thrprio)
  <2>1. /\ threxe' = [threxe EXCEPT ![t] = e] /\ thrstate' = [thrstate EXCEPT ![t] = "ready"]
        /\ thrprio' = [thrprio EXCEPT ![t] = t] /\ threadqueue' = n
        /\ jobqueue' = jobqueue
    BY <1>6 DEF Activate, Occupy
  <2>2. threxe[t] = None /\ ~In(threadqueue, t) /\ jobqueue[t] = <<>>
    BY <1>1, <1>2, <1>6 DEF Listed, Jobs
  <2>3. /\ n \in Seq(Thread) /\ Distinct(n) /\ n # <<>>
        /\ \A u \in Thread : In(n, u) <=> u = t \/ In(threadqueue, u)
        /\ \A u, v \in Thread : Before(n, u, v) =>
             \/ Before(threadqueue, u, v)
             \/ u = t /\ In(threadqueue, v) /\ t > thrprio[v]
             \/ v = t /\ In(threadqueue, u) /\ thrprio[u] >= t
        /\ Ordered(n, [thrprio EXCEPT ![t] = t])
    BY <1>1, <1>2, <2>2, AfterSame DEF Listed
  <2> HIDE DEF n
  <2>4. /\ threxe'[t] = e /\ thrstate'[t] = "ready" /\ thrprio'[t] = t
        /\ \A u \in Thread \ {t} :
             threxe'[u] = threxe[u] /\ thrstate'[u] = thrstate[u] /\ thrprio'[u] = thrprio[u]
    BY <1>1, <1>2, <2>1 DEF ThreadType
  <2>5. ThreadType'
    BY <1>1, <1>2, <1>3, <2>1, <2>3 DEF ThreadType
  <2>6. e # None /\ BasePrio[Idle] \in Thread /\ Idle # None
    BY ExeAssumption, Base
  <2>7. Listed'
    <3>1. threadqueue' # <<>> /\ Distinct(threadqueue') /\ Ordered(threadqueue', thrprio')
      BY <2>1, <2>3
    <3>2. ASSUME NEW u \in Thread
          PROVE  /\ threxe'[u] # None <=> In(threadqueue', u)
                 /\ thrstate'[u] = "idle" <=> threxe'[u] = None
                 /\ threxe'[u] # None => BasePrio[threxe'[u]] = u /\ thrprio'[u] >= u
      <4>1. CASE u = t
        BY <1>2, <2>1, <2>3, <2>4, <2>6, <4>1
      <4>2. CASE u # t
        BY <1>1, <1>2, <2>1, <2>3, <2>4, <4>2 DEF Listed
      <4> QED
        BY <4>1, <4>2
    <3>3. threxe'[BasePrio[Idle]] = Idle
      BY <1>1, <2>2, <2>4, <2>6 DEF Listed
    <3> QED
      BY <3>1, <3>2, <3>3 DEF Listed
  <2>8. Jobs'
    <3>1. ASSUME NEW x \in Exe, exestate'[x] = "active"
          PROVE  threxe'[BasePrio[x]] = x \/ In(jobqueue'[BasePrio[x]], x)
      <4>1. CASE x = e
        BY <2>4, <4>1
      <4>2. CASE x # e
        BY <1>1, <1>3, <2>1, <2>2, <2>4, <3>1, <4>2, Base, ExeAssumption DEF Jobs
      <4> QED
        BY <4>1, <4>2
    <3>2. ASSUME NEW u \in Thread
          PROVE  /\ threxe'[u] # None =>
                      exestate'[threxe'[u]] = "active" /\ ~In(jobqueue'[u], threxe'[u])
                 /\ Distinct(jobqueue'[u])
                 /\ \A x \in Exe : In(jobqueue'[u], x) =>
                      BasePrio[x] = u /\ exestate'[x] = "active"
                 /\ jobqueue'[u] # <<>> => threxe'[u] # None
      <4>1. /\ Distinct(jobqueue'[u])
            /\ \A x \in Exe : In(jobqueue'[u], x) => BasePrio[x] = u /\ exestate'[x] = "active"
        BY <1>1, <1>3, <2>1 DEF Jobs
      <4>2. CASE u = t
        BY <1>3, <1>5, <2>1, <2>2, <2>4, <4>1, <4>2
      <4>3. CASE u # t
        <5>1. threxe[u] \in Exe \union {None} /\ threxe'[u] = threxe[u]
          BY <1>1, <2>4, <4>3 DEF ThreadType
        <5>2. threxe[u] # None => threxe[u] \in Exe /\ exestate[threxe[u]] = "active"
          BY <1>1, <5>1 DEF Jobs
        <5>3. threxe[u] # None => exestate'[threxe[u]] = "active"
          BY <1>3, <5>2
        <5> QED
          BY <1>1, <2>1, <4>1, <5>1, <5>3 DEF Jobs
      <4> QED
        BY <4>2, <4>3
    <3> QED
      BY <3>1, <3>2 DEF Jobs
  <2>9. Owned'
    <3>1. ASSUME NEW s \in Sem, owner[s] # None
          PROVE  /\ BasePrio[owner[s]] \in Thread /\ BasePrio[owner[s]] # t
                 /\ \A u \in Thread : Before(n, u, BasePrio[owner[s]]) => u > ceiling[s]
      <4> DEFINE o == BasePrio[owner[s]]
      <4>1. owner[s] \in Exe /\ o \in Thread /\ threxe[o] = owner[s] /\ thrprio[o] >= ceiling[s]
        BY <1>1, <3>1, Base DEF Owned, SemType
      <4>2. o # t
        BY <2>2, <3>1, <4>1
      <4>3. ceiling[s] \in Int /\ thrprio[o] \in Nat
        BY <1>1, <1>2, <4>1 DEF SemType
      <4>4. ASSUME NEW u \in Thread, Before(n, u, o) PROVE u > ceiling[s]
        <5>1. \/ Before(threadqueue, u, o)
              \/ u = t /\ t > thrprio[o]
          BY <2>3, <4>1, <4>2, <4>4
        <5>2. Before(threadqueue, u, o) => u > ceiling[s]
          BY <1>1, <3>1 DEF Owned
        <5> QED
          BY <1>2, <4>1, <4>3, <5>1, <5>2
      <4> QED
        BY <4>1, <4>2, <4>4
    <3> QED
      BY <1>1, <2>1, <2>4, <3>1 DEF Owned, SemSame
  <2>10. Raised'
    BY <1>1, <2>4 DEF Raised, SemSame
  <2> QED
    BY <1>3, <1>4, <2>5, <2>7, <2>8, <2>9, <2>10 DEF Core
<1>7. CASE thrstate[t] # "idle"
  <2>1. /\ jobqueue' = [jobqueue EXCEPT ![t] = Append(@, e)]
        /\ UNCHANGED <<threxe, thrstate, thrprio, threadqueue>>
    BY <1>7, JobRoom DEF Activate
  <2>2. threxe[t] # None
    BY <1>1, <1>2, <1>7 DEF Listed
  <2>3. /\ jobqueue'[t] = Append(jobqueue[t], e)
        /\ \A u \in Thread \ {t} : jobqueue'[u] = jobqueue[u]
    BY <1>1, <1>2, <2>1 DEF ThreadType
  <2>4. /\ jobqueue'[t] \in Seq(Exe) /\ Distinct(jobqueue'[t])
        /\ \A x \in Exe : In(jobqueue'[t], x) <=> In(jobqueue[t], x) \/ x = e
    BY <1>1, <1>2, <1>5, <2>3, Appended DEF Jobs
  <2>5. ThreadType'
    BY <1>1, <1>2, <1>3, <2>1, <2>3, <2>4 DEF ThreadType
  <2>6. Listed' /\ Raised' /\ Owned'
    BY <1>1, <2>1 DEF Listed, Raised, Owned, SemSame
  <2>7. Jobs'
    <3>1. ASSUME NEW x \in Exe, exestate'[x] = "active"
          PROVE  threxe'[BasePrio[x]] = x \/ In(jobqueue'[BasePrio[x]], x)
      <4>1. CASE x = e
        BY <2>4, <4>1
      <4>2. CASE x # e
        BY <1>1, <1>3, <2>1, <2>3, <2>4, <3>1, <4>2, Base DEF Jobs
      <4> QED
        BY <4>1, <4>2
    <3>2. ASSUME NEW u \in Thread
          PROVE  /\ threxe'[u] # None =>
                      exestate'[threxe'[u]] = "active" /\ ~In(jobqueue'[u], threxe'[u])
                 /\ Distinct(jobqueue'[u])
                 /\ \A x \in Exe : In(jobqueue'[u], x) =>
                      BasePrio[x] = u /\ exestate'[x] = "active"
                 /\ jobqueue'[u] # <<>> => threxe'[u] # None
      <4>1. threxe[u] \in Exe \union {None} /\ threxe'[u] = threxe[u]
        BY <1>1, <2>1 DEF ThreadType
      <4>2. threxe[u] # None => threxe[u] \in Exe /\ exestate'[threxe[u]] = "active"
        BY <1>1, <1>3, <4>1 DEF Jobs
      <4>3. CASE u = t
        BY <1>1, <1>3, <1>5, <2>2, <2>4, <4>1, <4>2, <4>3 DEF Jobs
      <4>4. CASE u # t
        BY <1>1, <1>3, <2>3, <4>1, <4>2, <4>4 DEF Jobs
      <4> QED
        BY <4>3, <4>4
    <3> QED
      BY <3>1, <3>2 DEF Jobs
  <2> QED
    BY <1>3, <1>4, <2>5, <2>6, <2>7 DEF Core
<1> QED
  BY <1>6, <1>7

\* Who makes calls occupies the first thread of the list.
LEMMA Caller ==
  ASSUME Core, Calling, pc = "app"
  PROVE  /\ current = Head(threadqueue) /\ current \in Thread /\ current \in Nat
         /\ Me \in Exe /\ Me # None /\ threxe[current] = Me /\ BasePrio[Me] = current
         /\ thrprio[current] \in Nat /\ thrprio[current] >= current
         /\ \A t \in Thread : threxe[t] # None /\ t # current =>
              Before(threadqueue, current, t)
         /\ \A t \in Thread : ~Before(threadqueue, t, current)
<1>1. /\ current = Head(threadqueue) /\ threadqueue \in Seq(Thread) /\ threadqueue # <<>>
      /\ Distinct(threadqueue)
  BY DEF Core, Calling, Listed, ThreadType
<1>2. /\ current \in Thread /\ In(threadqueue, current)
      /\ \A t \in Thread : In(threadqueue, t) /\ t # current => Before(threadqueue, current, t)
      /\ \A t \in Thread : ~Before(threadqueue, t, current)
  BY <1>1, FirstOf
<1>3. threxe[current] # None /\ threxe[current] \in Exe \union {None}
  BY <1>2 DEF Core, Listed, ThreadType
<1>4. current \in Nat /\ thrprio[current] \in Nat
  BY <1>2, ThreadNat DEF Core, ThreadType
<1>5. \A t \in Thread : threxe[t] # None => In(threadqueue, t)
  BY DEF Core, Listed
<1> QED
  BY <1>1, <1>2, <1>3, <1>4, <1>5 DEF Me, Core, Listed

LEMMA VacateKeeps ==
  ASSUME Core, Calling, pc = "app", Me # Idle, \A s \in Sem : owner[s] # Me,
         NEW x \in {"idle", "suspended", "sleep"}, exestate' = [exestate EXCEPT ![Me] = x],
         NEW kept, Vacate(current, kept), SemSame
  PROVE  Core' /\ current' = None
<1> DEFINE t == current
           rest == Tail(threadqueue)
<1>1. ThreadType /\ SemType /\ Listed /\ Jobs /\ Owned /\ Raised
  BY DEF Core
<1>2. /\ t = Head(threadqueue) /\ t \in Thread /\ t \in Nat
      /\ Me \in Exe /\ Me # None /\ threxe[t] = Me /\ BasePrio[Me] = t
      /\ \A u \in Thread : ~Before(threadqueue, u, t)
  BY Caller
<1>3. /\ exestate'[Me] = x /\ \A y \in Exe \ {Me} : exestate'[y] = exestate[y]
      /\ exestate' \in [Exe -> {"idle", "active", "suspended", "sleep"}]
  BY <1>1, <1>2 DEF ThreadType
<1>4. SemType'
  BY <1>1 DEF SemType, SemSame
<1>5. /\ rest \in Seq(Thread) /\ Distinct(rest)
      /\ \A u \in Thread : In(rest, u) <=> In(threadqueue, u) /\ u # t
      /\ \A u, v \in Thread : Before(rest, u, v) => Before(threadqueue, u, v)
  BY <1>1, <1>2, RestOf DEF ThreadType, Listed
<1>6. Ordered(rest, thrprio)
  BY <1>1, <1>5 DEF Ordered, Listed
<1>7. /\ BasePrio[Idle] \in Thread /\ BasePrio[Idle] # t /\ Idle # None
      /\ In(rest, BasePrio[Idle])
  <2>1. BasePrio[Idle] \in Thread /\ Idle # None /\ threxe[BasePrio[Idle]] = Idle
    BY <1>1, ExeAssumption, Base DEF Listed
  <2>2. BasePrio[Idle] # t /\ In(threadqueue, BasePrio[Idle])
    BY <1>1, <1>2, <2>1 DEF Listed
  <2> QED
    BY <1>5, <2>1, <2>2
<1>8. current' = None
  BY DEF Vacate
<1>9. \A s \in Sem : owner[s] # None =>
        /\ owner[s] \in Exe /\ BasePrio[owner[s]] \in Thread /\ BasePrio[owner[s]] # t
        /\ threxe[BasePrio[owner[s]]] = owner[s]
  BY <1>1, <1>2, Base DEF Owned, SemType
<1>10. \A y \in Exe \ {Me} : threxe[t] # y
  BY <1>2
<1> HIDE DEF rest
<1>11. CASE jobqueue[t] = <<>>
  <2>1. /\ threxe' = [threxe EXCEPT ![t] = None] /\ thrstate' = [thrstate EXCEPT ![t] = "idle"]
        /\ threadqueue' = rest /\ thrprio' = thrprio /\ jobqueue' = jobqueue
    BY <1>11 DEF Vacate, rest
  <2>2. /\ threxe'[t] = None /\ thrstate'[t] = "idle"
        /\ \A u \in Thread \ {t} : threxe'[u] = threxe[u] /\ thrstate'[u] = thrstate[u]
    BY <1>1, <1>2, <2>1 DEF ThreadType
  <2>3. ThreadType'
    BY <1>1, <1>3, <1>5, <1>8, <2>1 DEF ThreadType
  <2>4. Listed'
    <3>1. threadqueue' # <<>> /\ Distinct(threadqueue') /\ Ordered(threadqueue', thrprio')
      BY <1>5, <1>6, <1>7, <2>1 DEF In
    <3>2. ASSUME NEW u \in Thread
          PROVE  /\ threxe'[u] # None <=> In(threadqueue', u)
                 /\ thrstate'[u] = "idle" <=> threxe'[u] = None
                 /\ threxe'[u] # None => BasePrio[threxe'[u]] = u /\ thrprio'[u] >= u
      <4>1. CASE u = t
        BY <1>2, <1>5, <2>1, <2>2, <4>1
      <4>2. CASE u # t
        BY <1>1, <1>5, <2>1, <2>2, <4>2 DEF Listed
      <4> QED
        BY <4>1, <4>2
    <3>3. threxe'[BasePrio[Idle]] = Idle
      BY <1>1, <1>7, <2>2 DEF Listed
    <3> QED
      BY <3>1, <3>2, <3>3 DEF Listed
  <2>5. Jobs'
    <3>1. ASSUME NEW y \in Exe, exestate'[y] = "active"
          PROVE  threxe'[BasePrio[y]] = y \/ In(jobqueue'[BasePrio[y]], y)
      <4>1. y # Me /\ exestate[y] = "active" /\ BasePrio[y] \in Thread
        BY <1>3, <3>1, Base
      <4>2. threxe[BasePrio[y]] = y \/ In(jobqueue[BasePrio[y]], y)
        BY <1>1, <4>1 DEF Jobs
      <4>3. threxe[BasePrio[y]] = y => BasePrio[y] # t
        BY <1>10, <4>1
      <4> QED
        BY <2>1, <2>2, <4>1, <4>2, <4>3
    <3>2. ASSUME NEW u \in Thread
          PROVE  /\ threxe'[u] # None =>
                      exestate'[threxe'[u]] = "active" /\ ~In(jobqueue'[u], threxe'[u])
                 /\ Distinct(jobqueue'[u])
                 /\ \A y \in Exe : In(jobqueue'[u], y) =>
                      BasePrio[y] = u /\ exestate'[y] = "active"
                 /\ jobqueue'[u] # <<>> => threxe'[u] # None
      <4>1. \A y \in Exe : In(jobqueue[u], y) => y # Me
        <5>1. ~In(jobqueue[t], Me)
          BY <1>1, <1>2 DEF Jobs
        <5>2. \A y \in Exe : In(jobqueue[u], y) => BasePrio[y] = u
          BY <1>1 DEF Jobs
        <5> QED
          BY <1>2, <5>1, <5>2
      <4>2. /\ Distinct(jobqueue'[u])
            /\ \A y \in Exe : In(jobqueue'[u], y) => BasePrio[y] = u /\ exestate'[y] = "active"
        BY <1>1, <1>3, <2>1, <4>1 DEF Jobs
      <4>3. CASE u = t
        BY <1>11, <2>1, <2>2, <4>2, <4>3
      <4>4. CASE u # t
        <5>1. threxe[u] \in Exe \union {None} /\ threxe'[u] = threxe[u]
          BY <1>1, <2>2, <4>4 DEF ThreadType
        <5>2. threxe[u] # None => /\ threxe[u] \in Exe /\ exestate[threxe[u]] = "active"
                                  /\ BasePrio[threxe[u]] = u
          BY <1>1, <5>1 DEF Jobs, Listed
        <5>3. threxe[u] # None => exestate'[threxe[u]] = "active"
          BY <1>2, <1>3, <4>4, <5>2
        <5> QED
          BY <1>1, <2>1, <4>2, <5>1, <5>3 DEF Jobs
      <4> QED
        BY <4>3, <4>4
    <3> QED
      BY <3>1, <3>2 DEF Jobs
  <2>6. Owned'
    BY <1>1, <1>5, <1>9, <2>1, <2>2 DEF Owned, SemSame
  <2>7. Raised'
    BY <1>1, <2>1, <2>2 DEF Raised, SemSame
  <2> QED
    BY <1>4, <1>8, <2>3, <2>4, <2>5, <2>6, <2>7 DEF Core
<1>12. CASE jobqueue[t] # <<>>
  <2> DEFINE j == Head(jobqueue[t])
             n == InsertAfterSame(rest, t, t, thrprio)
  <2>1. /\ jobqueue[t] \in Seq(Exe) /\ Distinct(jobqueue[t])
        /\ j \in Exe /\ In(jobqueue[t], j)
        /\ Tail(jobqueue[t]) \in Seq(Exe) /\ Distinct(Tail(jobqueue[t]))
        /\ \A y \in Exe : In(Tail(jobqueue[t]), y) <=> In(jobqueue[t], y) /\ y # j
    BY <1>1, <1>2, <1>12, FirstOf, RestOf DEF ThreadType, Jobs
  <2>2. BasePrio[j] = t /\ exestate[j] = "active" /\ j # Me /\ j # None
    BY <1>1, <1>2, <2>1, ExeAssumption DEF Jobs
  <2>3. /\ threxe' = [threxe EXCEPT ![t] = j] /\ thrstate' = [thrstate EXCEPT ![t] = "ready"]
        /\ thrprio' = [thrprio EXCEPT ![t] = t] /\ threadqueue' = n
        /\ jobqueue' = [jobqueue EXCEPT ![t] = Tail(@)]
    BY <1>12, <2>2 DEF Vacate, Occupy, rest
  <2> HIDE DEF j
  <2>4. /\ rest \in Seq(Thread) /\ Distinct(rest) /\ Ordered(rest, thrprio)
        /\ t \in Thread /\ t \in Nat /\ ~In(rest, t) /\ thrprio \in [Thread -> Nat]
    BY <1>1, <1>2, <1>5, <1>6 DEF ThreadType
  <2>5. /\ n \in Seq(Thread) /\ Distinct(n) /\ n # <<>>
        /\ \A u \in Thread : In(n, u) <=> u = t \/ In(rest, u)
        /\ \A u, v \in Thread : Before(n, u, v) =>
             \/ Before(rest, u, v)
             \/ u = t /\ In(rest, v) /\ t > thrprio[v]
             \/ v = t /\ In(rest, u) /\ thrprio[u] >= t
        /\ Ordered(n, [thrprio EXCEPT ![t] = t])
    BY <2>4, AfterSame
  <2> HIDE DEF n
  <2>6. /\ threxe'[t] = j /\ thrstate'[t] = "ready" /\ thrprio'[t] = t
        /\ jobqueue'[t] = Tail(jobqueue[t])
        /\ \A u \in Thread \ {t} :
             /\ threxe'[u] = threxe[u] /\ thrstate'[u] = thrstate[u]
             /\ thrprio'[u] = thrprio[u] /\ jobqueue'[u] = jobqueue[u]
    BY <1>1, <1>2, <2>3 DEF ThreadType
  <2>7. ThreadType'
    BY <1>1, <1>2, <1>3, <1>8, <2>1, <2>3, <2>5 DEF ThreadType
  <2>8. Listed'
    <3>1. threadqueue' # <<>> /\ Distinct(threadqueue') /\ Ordered(threadqueue', thrprio')
      BY <2>3, <2>5
    <3>2. ASSUME NEW u \in Thread
          PROVE  /\ threxe'[u] # None <=> In(threadqueue', u)
                 /\ thrstate'[u] = "idle" <=> threxe'[u] = None
                 /\ threxe'[u] # None => BasePrio[threxe'[u]] = u /\ thrprio'[u] >= u
      <4>1. CASE u = t
        BY <1>2, <2>2, <2>3, <2>5, <2>6, <4>1
      <4>2. CASE u # t
        BY <1>1, <1>5, <2>3, <2>5, <2>6, <4>2 DEF Listed
      <4> QED
        BY <4>1, <4>2
    <3>3. threxe'[BasePrio[Idle]] = Idle
      BY <1>1, <1>7, <2>6 DEF Listed
    <3> QED
      BY <3>1, <3>2, <3>3 DEF Listed
  <2>9. Jobs'
    <3>1. ASSUME NEW y \in Exe, exestate'[y] = "active"
          PROVE  threxe'[BasePrio[y]] = y \/ In(jobqueue'[BasePrio[y]], y)
      <4>1. y # Me /\ exestate[y] = "active" /\ BasePrio[y] \in Thread
        BY <1>3, <3>1, Base
      <4>2. threxe[BasePrio[y]] = y \/ In(jobqueue[BasePrio[y]], y)
        BY <1>1, <4>1 DEF Jobs
      <4>3. threxe[BasePrio[y]] = y => BasePrio[y] # t
        BY <1>10, <4>1
      <4>4. CASE BasePrio[y] # t
        BY <2>6, <4>1, <4>2, <4>4
      <4>5. CASE BasePrio[y] = t
        BY <2>1, <2>6, <4>1, <4>2, <4>3, <4>5
      <4> QED
        BY <4>4, <4>5
    <3>2. ASSUME NEW u \in Thread
          PROVE  /\ threxe'[u] # None =>
                      exestate'[threxe'[u]] = "active" /\ ~In(jobqueue'[u], threxe'[u])
                 /\ Distinct(jobqueue'[u])
                 /\ \A y \in Exe : In(jobqueue'[u], y) =>
                      BasePrio[y] = u /\ exestate'[y] = "active"
                 /\ jobqueue'[u] # <<>> => threxe'[u] # None
      <4>1. CASE u = t
        <5>1. \A y \in Exe : In(jobqueue'[t], y) => y # Me /\ y # j /\ In(jobqueue[t], y)
          BY <1>1, <1>2, <2>1, <2>6 DEF Jobs
        <5>2. \A y \in Exe : In(jobqueue'[t], y) => BasePrio[y] = t /\ exestate'[y] = "active"
          BY <1>1, <1>2, <1>3, <5>1 DEF Jobs
        <5>3. exestate'[j] = "active" /\ ~In(jobqueue'[t], j)
          BY <1>3, <2>1, <2>2, <5>1
        <5> QED
          BY <2>1, <2>2, <2>6, <4>1, <5>2, <5>3
      <4>2. CASE u # t
        <5>1. /\ threxe[u] \in Exe \union {None} /\ threxe'[u] = threxe[u]
              /\ jobqueue'[u] = jobqueue[u]
          BY <1>1, <2>6, <4>2 DEF ThreadType
        <5>2. threxe[u] # None => /\ threxe[u] \in Exe /\ exestate[threxe[u]] = "active"
                                  /\ BasePrio[threxe[u]] = u
          BY <1>1, <5>1 DEF Jobs, Listed
        <5>3. threxe[u] # None => exestate'[threxe[u]] = "active"
          BY <1>2, <1>3, <4>2, <5>2
        <5>4. \A y \in Exe : In(jobqueue[u], y) => BasePrio[y] = u /\ exestate'[y] = "active"
          BY <1>1, <1>2, <1>3, <4>2 DEF Jobs
        <5> QED
          BY <1>1, <5>1, <5>3, <5>4 DEF Jobs
      <4> QED
        BY <4>1, <4>2
    <3> QED
      BY <3>1, <3>2 DEF Jobs
  <2>10. Owned'
    <3>1. ASSUME NEW s \in Sem, owner[s] # None, NEW u \in Thread,
                 Before(n, u, BasePrio[owner[s]])
          PROVE  u > ceiling[s]
      <4> DEFINE o == BasePrio[owner[s]]
      <4>1. o \in Thread /\ o # t /\ thrprio[o] >= ceiling[s]
        BY <1>1, <1>9, <3>1 DEF Owned
      <4>2. ceiling[s] \in Int /\ thrprio[o] \in Nat
        BY <1>1, <4>1 DEF SemType, ThreadType
      <4>3. \/ Before(threadqueue, u, o)
            \/ u = t /\ t > thrprio[o]
        BY <1>5, <2>5, <3>1, <4>1
      <4>4. Before(threadqueue, u, o) => u > ceiling[s]
        BY <1>1, <3>1 DEF Owned
      <4> QED
        BY <1>2, <4>1, <4>2, <4>3, <4>4
    <3> QED
      BY <1>1, <1>9, <2>3, <2>6, <3>1 DEF Owned, SemSame
  <2>11. Raised'
    BY <1>1, <2>6 DEF Raised, SemSame
  <2> QED
    BY <1>4, <1>8, <2>7, <2>8, <2>9, <2>10, <2>11 DEF Core
<1> QED
  BY <1>8, <1>11, <1>12

-----------------------------------------------------------------------------
(* Semaphores                                                              *)

\* What calls on semaphores leave alone
ExeSame == UNCHANGED <<exestate, thrstate, threxe, jobqueue, current>>

\* The ceiling has kept other owners out: dv_wait_semimmceil() finds the semaphore free.
LEMMA WaitFindsFree ==
  ASSUME Core, Calling, Disciplined, NEW s \in Sem, Wait(s)
  PROVE  owner[s] = None /\ count[s] = 1
<1>1. /\ pc = "app" /\ s \in created /\ BasePrio[Me] <= ceiling[s] /\ owner[s] # Me
  BY DEF Wait, Calls, Disciplined
<1>2. /\ current \in Thread /\ current \in Nat /\ BasePrio[Me] = current
      /\ threxe[current] = Me
      /\ \A t \in Thread : threxe[t] # None /\ t # current => Before(threadqueue, current, t)
  BY <1>1, Caller
<1>3. ASSUME owner[s] # None PROVE FALSE
  <2> DEFINE o == BasePrio[owner[s]]
  <2>1. owner[s] \in Exe /\ o \in Thread /\ threxe[o] = owner[s] /\ ceiling[s] \in Int
    BY <1>3, Base DEF Core, SemType, Owned
  <2>2. o # current
    BY <1>1, <1>2, <2>1
  <2>3. Before(threadqueue, current, o)
    BY <1>2, <1>3, <2>1, <2>2
  <2>4. current > ceiling[s]
    BY <1>2, <1>3, <2>3 DEF Core, Owned
  <2> QED
    BY <1>1, <1>2, <2>1, <2>4
<1> QED
  BY <1>1, <1>3 DEF Core, Owned

LEMMA AcquireKeeps ==
  ASSUME NEW r, Core, Calling, pc = "app", Held(r), NEW s \in Sem, s \in created,
         owner[s] = None, count' = [count EXCEPT ![s] = 0], Acquire(s), ExeSame,
         UNCHANGED <<threadqueue, created, ceiling>>
  PROVE  Core' /\ \E q : Held(q)'
<1> DEFINE t == current
           p == IF thrprio[t] >= ceiling[s] THEN thrprio[t] ELSE ceiling[s]
<1>1. ThreadType /\ SemType /\ Listed /\ Jobs /\ Owned /\ Raised
  BY DEF Core
<1>2. /\ t = Head(threadqueue) /\ t \in Thread /\ t \in Nat
      /\ Me \in Exe /\ Me # None /\ threxe[t] = Me /\ BasePrio[Me] = t
      /\ thrprio[t] \in Nat /\ thrprio[t] >= t
      /\ \A u \in Thread : ~Before(threadqueue, u, t)
  BY Caller
<1>3. /\ ceiling[s] \in Int /\ p \in Nat /\ p >= thrprio[t] /\ p >= ceiling[s]
      /\ p = thrprio[t] \/ p = ceiling[s]
  BY <1>1, <1>2 DEF SemType
<1>4. Max({thrprio[t], ceiling[s]}) = p
  <2>1. thrprio[t] \in Int /\ ceiling[s] \in Int
    BY <1>2, <1>3
  <2> QED
    BY <2>1, MaxTwo
<1>5. /\ thrprio' = [thrprio EXCEPT ![t] = p] /\ thrprio'[t] = p
      /\ \A u \in Thread \ {t} : thrprio'[u] = thrprio[u]
  BY <1>1, <1>2, <1>4 DEF Acquire, ThreadType
<1> HIDE DEF p
<1>6. /\ owner'    = [owner EXCEPT ![s] = Me]
      /\ link'     = [link EXCEPT ![s] = semtaken[Me]]
      /\ semtaken' = [semtaken EXCEPT ![Me] = s]
      /\ oldprio'  = [oldprio EXCEPT ![s] = thrprio[t]]
  BY DEF Acquire
<1>7. /\ owner'[s] = Me /\ link'[s] = semtaken[Me] /\ semtaken'[Me] = s
      /\ oldprio'[s] = thrprio[t] /\ count'[s] = 0
      /\ \A u \in Sem \ {s} : /\ owner'[u] = owner[u] /\ link'[u] = link[u]
                              /\ oldprio'[u] = oldprio[u] /\ count'[u] = count[u]
      /\ \A e \in Exe \ {Me} : semtaken'[e] = semtaken[e]
  BY <1>1, <1>2, <1>6 DEF SemType
<1>8. ThreadType'
  <2>1. thrprio' \in [Thread -> Nat]
    BY <1>1, <1>2, <1>3, <1>5 DEF ThreadType
  <2> QED
    BY <1>1, <2>1 DEF ThreadType, ExeSame
<1>9. SemType'
  BY <1>1, <1>2, <1>6 DEF SemType
<1>10. Jobs'
  BY <1>1 DEF Jobs, ExeSame
<1>11. Listed'
  <2>1. Ordered(threadqueue', thrprio')
    <3> SUFFICES ASSUME NEW u \in Thread, NEW v \in Thread, Before(threadqueue, u, v)
                 PROVE  thrprio'[u] >= thrprio'[v]
      BY DEF Ordered
    <3>1. v # t /\ thrprio[u] >= thrprio[v] /\ thrprio[u] \in Nat /\ thrprio[v] \in Nat
      BY <1>1, <1>2 DEF Listed, Ordered, ThreadType
    <3>2. thrprio'[v] = thrprio[v]
      BY <1>5, <3>1
    <3>3. CASE u = t
      <4>1. thrprio'[u] = p /\ p >= thrprio[u]
        BY <1>3, <1>5, <3>3
      <4> QED
        BY <1>3, <3>1, <3>2, <4>1
    <3>4. CASE u # t
      BY <1>5, <3>1, <3>2, <3>4
    <3> QED
      BY <3>3, <3>4
  <2>2. ASSUME NEW u \in Thread, threxe[u] # None PROVE thrprio'[u] >= u
    <3>1. CASE u = t
      BY <1>2, <1>3, <1>5, <3>1
    <3>2. CASE u # t
      BY <1>1, <1>5, <2>2, <3>2 DEF Listed
    <3> QED
      BY <3>1, <3>2
  <2> QED
    BY <1>1, <2>1, <2>2 DEF Listed, ExeSame
<1>12. Owned'
  <2>1. ASSUME NEW u \in Sem, owner'[u] # None
        PROVE  /\ u \in created' /\ count'[u] = 0
               /\ threxe'[BasePrio[owner'[u]]] = owner'[u]
               /\ thrprio'[BasePrio[owner'[u]]] >= ceiling'[u]
               /\ \A v \in Thread :
                    Before(threadqueue', v, BasePrio[owner'[u]]) => v > ceiling'[u]
    <3>1. CASE u = s
      <4>1. owner'[u] = Me /\ BasePrio[Me] = t /\ count'[u] = 0 /\ ceiling'[u] = ceiling[s]
        BY <1>2, <1>7, <3>1
      <4>2. thrprio'[t] >= ceiling'[u]
        BY <1>3, <1>5, <4>1
      <4>3. threadqueue' = threadqueue /\ threxe' = threxe /\ u \in created'
        BY <3>1 DEF ExeSame
      <4> QED
        BY <1>2, <4>1, <4>2, <4>3
    <3>2. CASE u # s
      <4>1. owner'[u] = owner[u] /\ owner[u] # None /\ count'[u] = count[u]
        BY <1>7, <2>1, <3>2
      <4>2. /\ owner[u] \in Exe /\ BasePrio[owner[u]] \in Thread
            /\ thrprio[BasePrio[owner[u]]] >= ceiling[u]
            /\ thrprio[BasePrio[owner[u]]] \in Nat /\ ceiling[u] \in Int
        BY <1>1, <4>1, Base DEF Owned, SemType, ThreadType
      <4>3. thrprio'[BasePrio[owner[u]]] >= ceiling[u]
        <5>1. CASE BasePrio[owner[u]] = t
          <6>1. thrprio[t] >= ceiling[u] /\ ceiling[u] \in Int
            BY <4>2, <5>1
          <6>2. p >= ceiling[u]
            BY <1>2, <1>3, <6>1
          <6> QED
            BY <1>5, <5>1, <6>2
        <5>2. CASE BasePrio[owner[u]] # t
          BY <1>5, <4>2, <5>2
        <5> QED
          BY <5>1, <5>2
      <4> QED
        BY <1>1, <4>1, <4>3 DEF Owned, ExeSame
    <3> QED
      BY <3>1, <3>2
  <2>2. ASSUME NEW u \in created', owner'[u] = None PROVE count'[u] = 1
    BY <1>1, <1>2, <1>7, <2>2 DEF Owned, SemType
  <2> QED
    BY <2>1, <2>2 DEF Owned
<1>13. Raised'
  <2> SUFFICES ASSUME NEW u \in Thread, threxe[u] # None, thrprio'[u] # u
               PROVE  \E v \in Sem : owner'[v] = threxe[u] /\ thrprio'[u] = ceiling[v]
    BY DEF Raised, ExeSame
  <2>1. CASE u = t /\ p = ceiling[s]
    BY <1>2, <1>5, <1>7, <2>1
  <2>2. CASE u # t \/ p = thrprio[t]
    <3>1. thrprio'[u] = thrprio[u]
      BY <1>2, <1>5, <2>2
    <3>2. PICK v \in Sem : owner[v] = threxe[u] /\ thrprio[u] = ceiling[v]
      BY <1>1, <3>1 DEF Raised
    <3>3. v # s
      BY <3>2
    <3> QED
      BY <1>7, <3>1, <3>2, <3>3
  <2> QED
    BY <1>3, <2>1, <2>2
<1>14. \E q : Held(q)'
  <2>1. /\ r \in [Sem -> Nat] /\ semtaken[Me] \in Sem \union {None}
        /\ semtaken[Me] = None => \A u \in Sem : owner[u] # Me
        /\ semtaken[Me] # None => /\ owner[semtaken[Me]] = Me
                                  /\ \A u \in Sem : owner[u] = Me => r[u] <= r[semtaken[Me]]
    BY <1>1, <1>2 DEF Held, SemType
  <2>2. \E n \in Nat : /\ \A u \in Sem : owner[u] = Me => r[u] < n
                       /\ semtaken[Me] # None => n = r[semtaken[Me]] + 1
    <3>1. CASE semtaken[Me] = None
      BY <2>1, <3>1
    <3>2. CASE semtaken[Me] # None
      <4>1. r[semtaken[Me]] + 1 \in Nat
        BY <2>1, <3>2
      <4>2. \A u \in Sem : owner[u] = Me => r[u] < r[semtaken[Me]] + 1
        BY <2>1, <3>2
      <4> QED
        BY <4>1, <4>2
    <3> QED
      BY <3>1, <3>2
  <2>3. PICK new \in Nat : /\ \A u \in Sem : owner[u] = Me => r[u] < new
                           /\ semtaken[Me] # None => new = r[semtaken[Me]] + 1
    BY <2>2
  <2>4. semtaken[Me] # s /\ s # None
    BY <1>2, <2>1, ExeAssumption
  <2>5. PICK q \in [Sem -> Nat] : q[s] = new /\ \A u \in Sem \ {s} : q[u] = r[u]
    <3>1. [r EXCEPT ![s] = new] \in [Sem -> Nat]
      BY <2>1
    <3> QED
      BY <2>1, <3>1
  <2>6. \A u, v \in Sem : owner'[u] # None /\ owner'[u] = owner'[v] /\ q[u] = q[v] => u = v
    <3> SUFFICES ASSUME NEW u \in Sem, NEW v \in Sem, owner'[u] # None,
                        owner'[u] = owner'[v], q[u] = q[v], u # v
                 PROVE  FALSE
      OBVIOUS
    <3>1. ASSUME NEW x \in Sem, x # s, owner'[x] = Me PROVE q[x] # new
      <4>1. owner[x] = Me /\ q[x] = r[x] /\ r[x] \in Nat
        BY <1>7, <2>1, <2>5, <3>1
      <4>2. r[x] < new
        BY <2>3, <4>1
      <4> QED
        BY <4>1, <4>2
    <3>2. u # s /\ v # s
      BY <1>7, <2>5, <3>1
    <3>3. owner[u] # None /\ owner[u] = owner[v] /\ r[u] = r[v]
      BY <1>7, <2>5, <3>2
    <3> QED
      BY <3>3 DEF Held
  <2>7. ASSUME NEW e \in Exe
        PROVE  IF semtaken'[e] = None THEN \A u \in Sem : owner'[u] # e
               ELSE /\ owner'[semtaken'[e]] = e
                    /\ \A u \in Sem : owner'[u] = e => q[u] <= q[semtaken'[e]]
    <3>1. CASE e = Me
      <4>1. semtaken'[e] = s /\ owner'[s] = e /\ q[s] = new
        BY <1>7, <2>5, <3>1
      <4>2. ASSUME NEW u \in Sem, owner'[u] = e PROVE q[u] <= new
        BY <1>7, <2>1, <2>3, <2>5, <3>1, <4>2
      <4> QED
        BY <2>4, <4>1, <4>2
    <3>2. CASE e # Me
      <4>1. semtaken'[e] = semtaken[e] /\ \A u \in Sem : owner'[u] = e => u # s /\ owner[u] = e
        BY <1>7, <3>2
      <4>2. semtaken[e] \in Sem \union {None}
        BY <1>1 DEF SemType
      <4>3. CASE semtaken[e] = None
        BY <4>1, <4>3 DEF Held
      <4>4. CASE semtaken[e] # None
        <5>1. owner[semtaken[e]] = e /\ \A u \in Sem : owner[u] = e => r[u] <= r[semtaken[e]]
          BY <4>4 DEF Held
        <5>2. semtaken[e] # s /\ semtaken[e] \in Sem
          BY <4>2, <4>4, <5>1, ExeAssumption
        <5> QED
          BY <1>7, <2>5, <4>1, <4>4, <5>1, <5>2
      <4> QED
        BY <4>3, <4>4
    <3> QED
      BY <3>1, <3>2
  <2>8. ASSUME NEW u \in Sem, owner'[u] # None
        PROVE  /\ IF link'[u] = None THEN \A v \in Sem : owner'[v] = owner'[u] => q[u] <= q[v]
                  ELSE /\ owner'[link'[u]] = owner'[u] /\ q[link'[u]] < q[u]
                       /\ \A v \in Sem : owner'[v] = owner'[u] /\ q[v] < q[u] => q[v] <= q[link'[u]]
               /\ oldprio'[u] >= BasePrio[owner'[u]]
               /\ \A v \in Sem : owner'[v] = owner'[u] /\ q[v] < q[u] => oldprio'[u] >= ceiling'[v]
               /\ \/ oldprio'[u] = BasePrio[owner'[u]]
                  \/ \E v \in Sem : owner'[v] = owner'[u] /\ q[v] < q[u] /\ oldprio'[u] = ceiling'[v]
    <3>1. CASE u = s
      <4>1. owner'[u] = Me /\ q[u] = new /\ link'[u] = semtaken[Me] /\ oldprio'[u] = thrprio[t]
        BY <1>7, <2>5, <3>1
      <4>2. \A v \in Sem : owner'[v] = Me /\ v # s => owner[v] = Me /\ q[v] = r[v] /\ q[v] < new
        BY <1>7, <2>3, <2>5
      <4>3. \A v \in Sem : q[v] < new => v # s
        BY <2>3, <2>5
      <4>4. IF link'[u] = None THEN \A v \in Sem : owner'[v] = Me => q[u] <= q[v]
            ELSE /\ owner'[link'[u]] = Me /\ q[link'[u]] < q[u]
                 /\ \A v \in Sem : owner'[v] = Me /\ q[v] < q[u] => q[v] <= q[link'[u]]
        <5>1. CASE semtaken[Me] = None
          BY <2>1, <2>3, <2>5, <4>1, <4>2, <5>1
        <5>2. CASE semtaken[Me] # None
          <6>1. owner'[semtaken[Me]] = Me /\ semtaken[Me] \in Sem
            BY <1>7, <2>1, <2>4, <5>2
          <6>2. q[semtaken[Me]] < q[u]
            <7>1. /\ q[semtaken[Me]] = r[semtaken[Me]] /\ r[semtaken[Me]] \in Nat
                  /\ q[u] = r[semtaken[Me]] + 1
              BY <2>1, <2>3, <2>4, <2>5, <4>1, <5>2, <6>1
            <7> QED
              BY <7>1
          <6>3. ASSUME NEW v \in Sem, owner'[v] = Me, q[v] < q[u] PROVE q[v] <= q[semtaken[Me]]
            BY <2>1, <2>3, <2>5, <4>1, <4>2, <4>3, <5>2, <6>3
          <6> QED
            BY <4>1, <5>2, <6>1, <6>2, <6>3
        <5> QED
          BY <5>1, <5>2
      <4>5. oldprio'[u] >= BasePrio[Me]
        BY <1>2, <4>1
      <4>6. ASSUME NEW v \in Sem, owner'[v] = Me, q[v] < q[u] PROVE oldprio'[u] >= ceiling[v]
        <5>1. owner[v] = Me
          BY <4>1, <4>2, <4>3, <4>6
        <5>2. thrprio[BasePrio[Me]] >= ceiling[v]
          BY <1>1, <1>2, <5>1 DEF Owned
        <5> QED
          BY <1>2, <4>1, <5>2
      <4>7. \/ oldprio'[u] = BasePrio[Me]
            \/ \E v \in Sem : owner'[v] = Me /\ q[v] < q[u] /\ oldprio'[u] = ceiling[v]
        <5>1. CASE thrprio[t] = t
          BY <1>2, <4>1, <5>1
        <5>2. CASE thrprio[t] # t
          <6>1. PICK v \in Sem : owner[v] = Me /\ thrprio[t] = ceiling[v]
            BY <1>1, <1>2, <5>2 DEF Raised
          <6>2. v # s
            BY <1>2, <6>1
          <6>3. owner'[v] = Me /\ q[v] < q[u]
            BY <1>7, <4>1, <4>2, <6>1, <6>2
          <6> QED
            BY <4>1, <6>1, <6>3
        <5> QED
          BY <5>1, <5>2
      <4> QED
        BY <4>1, <4>4, <4>5, <4>6, <4>7
    <3>2. CASE u # s
      <4>1. /\ owner'[u] = owner[u] /\ link'[u] = link[u] /\ oldprio'[u] = oldprio[u]
            /\ q[u] = r[u] /\ owner[u] # None
        BY <1>7, <2>5, <2>8, <3>2
      <4>2. \A v \in Sem : owner'[v] = owner[u] /\ q[v] < q[u] =>
                             v # s /\ owner[v] = owner[u] /\ q[v] = r[v] /\ r[v] < r[u]
        <5> SUFFICES ASSUME NEW v \in Sem, owner'[v] = owner[u], q[v] < q[u]
                     PROVE  v # s /\ owner[v] = owner[u] /\ q[v] = r[v] /\ r[v] < r[u]
          OBVIOUS
        <5>1. v # s
          <6> SUFFICES ASSUME v = s PROVE FALSE
            OBVIOUS
          <6>1. owner[u] = Me
            BY <1>7
          <6>2. r[u] < new /\ new < r[u] /\ r[u] \in Nat
            BY <2>1, <2>3, <2>5, <4>1, <6>1
          <6> QED
            BY <2>3, <6>2
        <5> QED
          BY <1>7, <2>5, <4>1, <5>1
      <4>3. /\ IF link[u] = None THEN \A v \in Sem : owner[v] = owner[u] => r[u] <= r[v]
               ELSE /\ owner[link[u]] = owner[u] /\ r[link[u]] < r[u]
                    /\ \A v \in Sem : owner[v] = owner[u] /\ r[v] < r[u] => r[v] <= r[link[u]]
            /\ oldprio[u] >= BasePrio[owner[u]]
            /\ \A v \in Sem : owner[v] = owner[u] /\ r[v] < r[u] => oldprio[u] >= ceiling[v]
            /\ \/ oldprio[u] = BasePrio[owner[u]]
               \/ \E v \in Sem : owner[v] = owner[u] /\ r[v] < r[u] /\ oldprio[u] = ceiling[v]
        BY <4>1 DEF Held
      <4>4. IF link[u] = None THEN \A v \in Sem : owner'[v] = owner[u] => q[u] <= q[v]
            ELSE /\ owner'[link[u]] = owner[u] /\ q[link[u]] < q[u]
                 /\ \A v \in Sem : owner'[v] = owner[u] /\ q[v] < q[u] => q[v] <= q[link[u]]
        <5>1. CASE link[u] = None
          <6> SUFFICES ASSUME NEW v \in Sem, owner'[v] = owner[u] PROVE q[u] <= q[v]
            BY <5>1
          <6>1. CASE v = s
            <7>1. owner[u] = Me
              BY <1>7, <6>1
            <7>2. r[u] < new /\ r[u] \in Nat
              BY <2>1, <2>3, <7>1
            <7> QED
              BY <2>3, <2>5, <4>1, <6>1, <7>2
          <6>2. CASE v # s
            BY <1>7, <2>5, <4>1, <4>3, <5>1, <6>2
          <6> QED
            BY <6>1, <6>2
        <5>2. CASE link[u] # None
          <6>1. link[u] \in Sem /\ link[u] # s
            BY <1>1, <4>1, <4>3, <5>2 DEF SemType
          <6> QED
            BY <1>7, <2>5, <4>1, <4>2, <4>3, <5>2, <6>1
        <5> QED
          BY <5>1, <5>2
      <4>5. \/ oldprio[u] = BasePrio[owner[u]]
            \/ \E v \in Sem : owner'[v] = owner[u] /\ q[v] < q[u] /\ oldprio[u] = ceiling[v]
        <5>1. ASSUME NEW v \in Sem, owner[v] = owner[u], r[v] < r[u]
              PROVE  owner'[v] = owner[u] /\ q[v] < q[u]
          BY <1>7, <2>5, <4>1, <5>1
        <5> QED
          BY <4>3, <5>1
      <4> QED
        BY <4>1, <4>2, <4>3, <4>4, <4>5
    <3> QED
      BY <3>1, <3>2
  <2>9. Held(q)'
    BY <2>5, <2>6, <2>7, <2>8 DEF Held
  <2> QED
    BY <2>9
<1> QED
  BY <1>8, <1>9, <1>10, <1>11, <1>12, <1>13, <1>14 DEF Core

LEMMA RelinquishKeeps ==
  ASSUME NEW r, Core, Calling, pc = "app", Held(r), NEW s \in Sem,
         owner[s] = Me, semtaken[Me] = s, count' = [count EXCEPT ![s] = 1], Relinquish(s),
         ExeSame, UNCHANGED <<created, oldprio, ceiling>>
  PROVE  Core' /\ Held(r)'
<1> DEFINE t == current
           p == oldprio[s]
           rest == Tail(threadqueue)
           n == InsertBeforeSame(rest, t, p, thrprio)
<1>1. ThreadType /\ SemType /\ Listed /\ Jobs /\ Owned /\ Raised
  BY DEF Core
<1>2. /\ t = Head(threadqueue) /\ t \in Thread /\ t \in Nat
      /\ Me \in Exe /\ Me # None /\ threxe[t] = Me /\ BasePrio[Me] = t
      /\ thrprio[t] \in Nat /\ thrprio[t] >= t
      /\ \A u \in Thread : threxe[u] # None /\ u # t => Before(threadqueue, t, u)
      /\ \A u \in Thread : ~Before(threadqueue, u, t)
  BY Caller
<1>3. /\ r \in [Sem -> Nat]
      /\ \A u \in Sem : owner[u] = Me /\ u # s => r[u] < r[s]
  <2>1. r \in [Sem -> Nat] /\ s # None
    BY ExeAssumption DEF Held
  <2>2. \A u \in Sem : owner[u] = Me => r[u] <= r[s] /\ (r[u] = r[s] => u = s)
    BY <1>2, <2>1 DEF Held
  <2> QED
    BY <2>1, <2>2
<1>4. /\ p >= t
      /\ \A u \in Sem : owner[u] = Me /\ u # s => p >= ceiling[u]
      /\ p = t \/ \E u \in Sem : owner[u] = Me /\ u # s /\ p = ceiling[u]
  <2>1. \A u \in Sem : owner[u] = Me /\ u # s => owner[u] = owner[s] /\ r[u] < r[s]
    BY <1>3
  <2>2. \A u \in Sem : r[u] < r[s] => u # s
    BY <1>3
  <2>3. /\ p >= BasePrio[owner[s]]
        /\ \A u \in Sem : owner[u] = owner[s] /\ r[u] < r[s] => p >= ceiling[u]
        /\ \/ p = BasePrio[owner[s]]
           \/ \E u \in Sem : owner[u] = owner[s] /\ r[u] < r[s] /\ p = ceiling[u]
    BY <1>2 DEF Held
  <2> QED
    BY <1>2, <2>1, <2>2, <2>3
<1>5. p \in Nat /\ p <= thrprio[t]
  <2>1. \A u \in Sem : owner[u] = Me => thrprio[t] >= ceiling[u] /\ ceiling[u] \in Int
    BY <1>1, <1>2 DEF Owned, SemType
  <2>2. p \in Int
    BY <1>1 DEF SemType
  <2> QED
    BY <1>2, <1>4, <2>1, <2>2
<1>6. /\ rest \in Seq(Thread) /\ Distinct(rest)
      /\ \A u \in Thread : In(rest, u) <=> In(threadqueue, u) /\ u # t
      /\ \A u, v \in Thread : Before(rest, u, v) => Before(threadqueue, u, v)
  BY <1>1, <1>2, RestOf DEF ThreadType, Listed
<1>7. /\ ~In(rest, t) /\ Ordered(rest, thrprio) /\ thrprio \in [Thread -> Nat]
  BY <1>1, <1>2, <1>6 DEF Ordered, Listed, ThreadType
<1> HIDE DEF rest
<1>8. /\ owner'       = [owner EXCEPT ![s] = None]
      /\ semtaken'    = [semtaken EXCEPT ![Me] = link[s]]
      /\ link'        = [link EXCEPT ![s] = None]
      /\ thrprio'     = [thrprio EXCEPT ![t] = p]
      /\ threadqueue' = n
  BY DEF Relinquish, rest
<1> HIDE DEF p
<1>9. /\ n \in Seq(Thread) /\ Distinct(n) /\ n # <<>>
      /\ \A u \in Thread : In(n, u) <=> u = t \/ In(rest, u)
      /\ \A u, v \in Thread : Before(n, u, v) =>
           \/ Before(rest, u, v)
           \/ u = t /\ In(rest, v) /\ p >= thrprio[v]
           \/ v = t /\ In(rest, u) /\ thrprio[u] > p
      /\ Ordered(n, [thrprio EXCEPT ![t] = p])
  BY <1>2, <1>5, <1>6, <1>7, BeforeSame
<1> HIDE DEF n
<1>10. /\ owner'[s] = None /\ link'[s] = None /\ semtaken'[Me] = link[s] /\ count'[s] = 1
       /\ \A u \in Sem \ {s} : /\ owner'[u] = owner[u] /\ link'[u] = link[u]
                               /\ count'[u] = count[u]
       /\ \A e \in Exe \ {Me} : semtaken'[e] = semtaken[e]
       /\ oldprio' = oldprio /\ ceiling' = ceiling /\ created' = created
  BY <1>1, <1>2, <1>8 DEF SemType
<1>11. thrprio'[t] = p /\ \A u \in Thread \ {t} : thrprio'[u] = thrprio[u]
  BY <1>2, <1>7, <1>8
<1>12. ThreadType'
  <2>1. thrprio' \in [Thread -> Nat]
    BY <1>2, <1>5, <1>7, <1>8
  <2> QED
    BY <1>1, <1>8, <1>9, <2>1 DEF ThreadType, ExeSame
<1>13. SemType'
  BY <1>1, <1>2, <1>8, <1>10 DEF SemType
<1>14. Jobs'
  BY <1>1 DEF Jobs, ExeSame
<1>15. Listed'
  <2>1. threadqueue' # <<>> /\ Distinct(threadqueue') /\ Ordered(threadqueue', thrprio')
    BY <1>8, <1>9
  <2>2. ASSUME NEW u \in Thread
        PROVE  /\ threxe'[u] # None <=> In(threadqueue', u)
               /\ thrstate'[u] = "idle" <=> threxe'[u] = None
               /\ threxe'[u] # None => BasePrio[threxe'[u]] = u /\ thrprio'[u] >= u
    <3>1. threxe' = threxe /\ thrstate' = thrstate
      BY DEF ExeSame
    <3>2. /\ threxe[u] # None <=> In(threadqueue, u)
          /\ thrstate[u] = "idle" <=> threxe[u] = None
          /\ threxe[u] # None => BasePrio[threxe[u]] = u /\ thrprio[u] >= u
      BY <1>1 DEF Listed
    <3>3. CASE u = t
      BY <1>2, <1>4, <1>8, <1>9, <1>11, <3>1, <3>2, <3>3
    <3>4. CASE u # t
      BY <1>6, <1>8, <1>9, <1>11, <3>1, <3>2, <3>4
    <3> QED
      BY <3>3, <3>4
  <2> QED
    BY <1>1, <2>1, <2>2 DEF Listed, ExeSame
<1>16. Owned'
  <2>1. ASSUME NEW u \in Sem, owner'[u] # None
        PROVE  /\ u \in created' /\ count'[u] = 0
               /\ threxe'[BasePrio[owner'[u]]] = owner'[u]
               /\ thrprio'[BasePrio[owner'[u]]] >= ceiling'[u]
               /\ \A v \in Thread :
                    Before(threadqueue', v, BasePrio[owner'[u]]) => v > ceiling'[u]
    <3> DEFINE o == BasePrio[owner[u]]
    <3>1. u # s /\ owner'[u] = owner[u] /\ owner[u] # None
      BY <1>10, <2>1
    <3>2. /\ u \in created /\ count[u] = 0 /\ threxe[o] = owner[u] /\ thrprio[o] >= ceiling[u]
          /\ \A v \in Thread : Before(threadqueue, v, o) => v > ceiling[u]
      BY <1>1, <3>1 DEF Owned
    <3>3. owner[u] \in Exe /\ o \in Thread /\ ceiling[u] \in Int /\ thrprio[o] \in Nat
      BY <1>1, <3>1, Base DEF SemType, ThreadType
    <3>4. owner[u] = Me <=> o = t
      BY <1>2, <3>2
    <3>5. thrprio'[o] >= ceiling[u]
      <4>1. CASE o = t
        BY <1>4, <1>11, <3>1, <3>4, <4>1
      <4>2. CASE o # t
        BY <1>11, <3>2, <3>3, <4>2
      <4> QED
        BY <4>1, <4>2
    <3>6. ASSUME NEW v \in Thread, Before(n, v, o) PROVE v > ceiling[u]
      <4>1. CASE Before(rest, v, o)
        BY <1>6, <3>2, <3>3, <4>1
      <4>2. CASE v = t /\ In(rest, o)
        <5>1. threxe[o] # None /\ o # t
          BY <1>6, <3>1, <3>2, <3>3, <4>2
        <5> QED
          BY <1>2, <3>2, <3>3, <4>2, <5>1
      <4>3. CASE o = t /\ In(rest, v) /\ thrprio[v] > p
        <5>1. v \in Nat /\ thrprio[v] \in Nat /\ threxe[v] # None /\ v # t /\ p >= ceiling[u]
          BY <1>1, <1>4, <1>6, <1>7, <3>1, <3>4, <4>3, ThreadNat DEF Listed
        <5>2. thrprio[v] = v
          <6> SUFFICES ASSUME thrprio[v] # v PROVE FALSE
            OBVIOUS
          <6>1. PICK w \in Sem : owner[w] = threxe[v] /\ thrprio[v] = ceiling[w]
            BY <1>1, <5>1 DEF Raised
          <6>2. owner[w] # None /\ BasePrio[owner[w]] = v
            BY <1>1, <5>1, <6>1 DEF Listed
          <6>3. t > ceiling[w]
            BY <1>1, <1>2, <5>1, <6>2 DEF Owned
          <6> QED
            BY <1>2, <1>4, <1>5, <4>3, <5>1, <6>1, <6>3
        <5> QED
          BY <1>5, <3>3, <4>3, <5>1, <5>2
      <4> QED
        BY <1>9, <3>3, <3>6, <4>1, <4>2, <4>3
    <3> QED
      BY <1>8, <1>10, <3>1, <3>2, <3>5, <3>6 DEF ExeSame
  <2>2. ASSUME NEW u \in created', owner'[u] = None PROVE count'[u] = 1
    BY <1>1, <1>10, <2>2 DEF Owned, SemType
  <2> QED
    BY <2>1, <2>2 DEF Owned
<1>17. Raised'
  <2> SUFFICES ASSUME NEW u \in Thread, threxe[u] # None, thrprio'[u] # u
               PROVE  \E v \in Sem : owner'[v] = threxe[u] /\ thrprio'[u] = ceiling[v]
    BY <1>10 DEF Raised, ExeSame
  <2>1. CASE u = t
    <3>1. PICK v \in Sem : owner[v] = Me /\ v # s /\ p = ceiling[v]
      BY <1>4, <1>11, <2>1
    <3> QED
      BY <1>2, <1>10, <1>11, <2>1, <3>1
  <2>2. CASE u # t
    <3>1. thrprio'[u] = thrprio[u]
      BY <1>11, <2>2
    <3>2. PICK v \in Sem : owner[v] = threxe[u] /\ thrprio[u] = ceiling[v]
      BY <1>1, <3>1 DEF Raised
    <3>3. v # s
      BY <1>1, <1>2, <2>2, <3>2 DEF Listed
    <3> QED
      BY <1>10, <3>1, <3>2, <3>3
  <2> QED
    BY <2>1, <2>2
<1>18. Held(r)'
  <2>1. \A u \in Sem : owner'[u] # None => u # s /\ owner'[u] = owner[u]
    BY <1>10
  <2>2. \A u, v \in Sem : owner'[u] # None /\ owner'[u] = owner'[v] /\ r[u] = r[v] => u = v
    BY <2>1 DEF Held
  <2>3. ASSUME NEW e \in Exe
        PROVE  IF semtaken'[e] = None THEN \A u \in Sem : owner'[u] # e
               ELSE /\ owner'[semtaken'[e]] = e
                    /\ \A u \in Sem : owner'[u] = e => r[u] <= r[semtaken'[e]]
    <3>0. e # None
      BY ExeAssumption
    <3>1. CASE e = Me
      <4>1. semtaken'[e] = link[s] /\ link[s] \in Sem \union {None}
        BY <1>1, <1>10, <3>1 DEF SemType
      <4>2. \A u \in Sem : owner'[u] = e => u # s /\ owner[u] = Me /\ r[u] < r[s]
        BY <1>3, <2>1, <3>0, <3>1
      <4>3. CASE link[s] = None
        <5>1. \A u \in Sem : owner[u] = owner[s] => r[s] <= r[u]
          BY <1>2, <4>3 DEF Held
        <5>2. \A u \in Sem : r[u] \in Nat /\ r[s] \in Nat
          BY <1>3
        <5> QED
          BY <4>1, <4>2, <4>3, <5>1, <5>2
      <4>4. CASE link[s] # None
        <5>1. /\ owner[link[s]] = Me /\ r[link[s]] < r[s]
              /\ \A u \in Sem : owner[u] = Me /\ r[u] < r[s] => r[u] <= r[link[s]]
          BY <1>2, <4>4 DEF Held
        <5>2. link[s] # s /\ link[s] \in Sem
          BY <1>3, <4>1, <4>4, <5>1
        <5> QED
          BY <1>10, <3>1, <4>1, <4>2, <4>4, <5>1, <5>2
      <4> QED
        BY <4>3, <4>4
    <3>2. CASE e # Me
      <4>1. semtaken'[e] = semtaken[e] /\ semtaken[e] \in Sem \union {None}
        BY <1>1, <1>10, <3>2 DEF SemType
      <4>2. \A u \in Sem : owner'[u] = e => owner[u] = e
        BY <2>1, <3>0
      <4>3. CASE semtaken[e] = None
        BY <4>1, <4>2, <4>3 DEF Held
      <4>4. CASE semtaken[e] # None
        <5>1. owner[semtaken[e]] = e /\ \A u \in Sem : owner[u] = e => r[u] <= r[semtaken[e]]
          BY <4>4 DEF Held
        <5>2. semtaken[e] # s /\ semtaken[e] \in Sem
          BY <3>2, <4>1, <4>4, <5>1
        <5> QED
          BY <1>10, <4>1, <4>2, <4>4, <5>1, <5>2
      <4> QED
        BY <4>3, <4>4
    <3> QED
      BY <3>1, <3>2
  <2>4. ASSUME NEW u \in Sem, owner'[u] # None
        PROVE  /\ IF link'[u] = None THEN \A v \in Sem : owner'[v] = owner'[u] => r[u] <= r[v]
                  ELSE /\ owner'[link'[u]] = owner'[u] /\ r[link'[u]] < r[u]
                       /\ \A v \in Sem : owner'[v] = owner'[u] /\ r[v] < r[u] => r[v] <= r[link'[u]]
               /\ oldprio'[u] >= BasePrio[owner'[u]]
               /\ \A v \in Sem : owner'[v] = owner'[u] /\ r[v] < r[u] => oldprio'[u] >= ceiling'[v]
               /\ \/ oldprio'[u] = BasePrio[owner'[u]]
                  \/ \E v \in Sem : owner'[v] = owner'[u] /\ r[v] < r[u] /\ oldprio'[u] = ceiling'[v]
    <3>1. /\ u # s /\ owner'[u] = owner[u] /\ link'[u] = link[u] /\ owner[u] # None
          /\ oldprio'[u] = oldprio[u] /\ ceiling' = ceiling
      BY <1>10, <2>1, <2>4
    <3>2. \A v \in Sem : owner[v] = owner[u] /\ r[v] < r[u] => v # s
      <4> SUFFICES ASSUME owner[s] = owner[u], r[s] < r[u] PROVE FALSE
        OBVIOUS
      <4>1. r[u] < r[s] /\ r[u] \in Nat /\ r[s] \in Nat
        BY <1>3, <3>1
      <4> QED
        BY <4>1
    <3>3. \A v \in Sem : owner'[v] = owner[u] => owner[v] = owner[u]
      BY <2>1, <3>1
    <3>4. \A v \in Sem : owner[v] = owner[u] /\ r[v] < r[u] => owner'[v] = owner[u]
      BY <1>10, <3>2
    <3>5. /\ IF link[u] = None THEN \A v \in Sem : owner[v] = owner[u] => r[u] <= r[v]
             ELSE /\ owner[link[u]] = owner[u] /\ r[link[u]] < r[u]
                  /\ \A v \in Sem : owner[v] = owner[u] /\ r[v] < r[u] => r[v] <= r[link[u]]
          /\ oldprio[u] >= BasePrio[owner[u]]
          /\ \A v \in Sem : owner[v] = owner[u] /\ r[v] < r[u] => oldprio[u] >= ceiling[v]
          /\ \/ oldprio[u] = BasePrio[owner[u]]
             \/ \E v \in Sem : owner[v] = owner[u] /\ r[v] < r[u] /\ oldprio[u] = ceiling[v]
      BY <3>1 DEF Held
    <3>6. link[u] \in Sem \union {None}
      BY <1>1 DEF SemType
    <3>7. IF link[u] = None THEN \A v \in Sem : owner'[v] = owner[u] => r[u] <= r[v]
          ELSE /\ owner'[link[u]] = owner[u] /\ r[link[u]] < r[u]
               /\ \A v \in Sem : owner'[v] = owner[u] /\ r[v] < r[u] => r[v] <= r[link[u]]
      BY <3>3, <3>4, <3>5, <3>6
    <3>8. \/ oldprio[u] = BasePrio[owner[u]]
          \/ \E v \in Sem : owner'[v] = owner[u] /\ r[v] < r[u] /\ oldprio[u] = ceiling[v]
      BY <3>4, <3>5
    <3> QED
      BY <3>1, <3>3, <3>5, <3>7, <3>8
  <2> QED
    BY <1>3, <2>2, <2>3, <2>4 DEF Held
<1> QED
  BY <1>12, <1>13, <1>14, <1>15, <1>16, <1>17, <1>18 DEF Core

\* A semaphore that nobody owns may be created, destroyed, and given another ceiling.
LEMMA FreeKeeps ==
  ASSUME NEW r, Core, Held(r), NEW s \in Sem, owner[s] = None,
         ExeSame, UNCHANGED <<thrprio, threadqueue, owner, semtaken>>, SemType',
         \A u \in Sem \ {s} : /\ link'[u] = link[u] /\ oldprio'[u] = oldprio[u]
                              /\ ceiling'[u] = ceiling[u] /\ count'[u] = count[u]
                              /\ u \in created' <=> u \in created,
         s \in created' => count'[s] = 1
  PROVE  Core' /\ Held(r)'
<1>1. ThreadType /\ SemType /\ Listed /\ Jobs /\ Owned /\ Raised
  BY DEF Core
<1>2. \A u \in Sem : owner[u] # None => u \in Sem \ {s}
  OBVIOUS
<1>3. ThreadType' /\ Listed' /\ Jobs'
  BY <1>1 DEF ThreadType, Listed, Jobs, ExeSame
<1>4. Owned'
  <2>1. ASSUME NEW u \in Sem, owner'[u] # None
        PROVE  /\ u \in created' /\ count'[u] = 0
               /\ threxe'[BasePrio[owner'[u]]] = owner'[u]
               /\ thrprio'[BasePrio[owner'[u]]] >= ceiling'[u]
               /\ \A t \in Thread :
                    Before(threadqueue', t, BasePrio[owner'[u]]) => t > ceiling'[u]
    <3>1. u \in Sem \ {s} /\ owner'[u] = owner[u] /\ owner[u] # None
      BY <2>1
    <3>2. /\ u \in created /\ count[u] = 0
          /\ threxe[BasePrio[owner[u]]] = owner[u]
          /\ thrprio[BasePrio[owner[u]]] >= ceiling[u]
          /\ \A t \in Thread : Before(threadqueue, t, BasePrio[owner[u]]) => t > ceiling[u]
      BY <1>1, <3>1 DEF Owned
    <3> QED
      BY <3>1, <3>2 DEF ExeSame
  <2>2. ASSUME NEW u \in created', owner'[u] = None PROVE count'[u] = 1
    <3>1. u \in Sem
      BY DEF SemType
    <3>2. CASE u = s
      BY <3>2
    <3>3. CASE u # s
      BY <1>1, <2>2, <3>1, <3>3 DEF Owned
    <3> QED
      BY <3>2, <3>3
  <2> QED
    BY <2>1, <2>2 DEF Owned
<1>5. Raised'
  <2> SUFFICES ASSUME NEW t \in Thread, threxe[t] # None, thrprio[t] # t
               PROVE  \E u \in Sem : owner[u] = threxe[t] /\ thrprio[t] = ceiling'[u]
    BY DEF Raised, ExeSame
  <2>1. PICK u \in Sem : owner[u] = threxe[t] /\ thrprio[t] = ceiling[u]
    BY <1>1 DEF Raised
  <2>2. u # s
    BY <2>1
  <2> QED
    BY <2>1, <2>2
<1>6. Held(r)'
  <2>1. ASSUME NEW u \in Sem, owner[u] # None
        PROVE  /\ link'[u] = link[u] /\ oldprio'[u] = oldprio[u]
               /\ \A v \in Sem : owner[v] = owner[u] => ceiling'[v] = ceiling[v]
    BY <1>2, <2>1
  <2>2. ASSUME NEW u \in Sem, owner[u] # None
        PROVE  /\ IF link'[u] = None THEN \A v \in Sem : owner[v] = owner[u] => r[u] <= r[v]
                  ELSE /\ owner[link'[u]] = owner[u] /\ r[link'[u]] < r[u]
                       /\ \A v \in Sem : owner[v] = owner[u] /\ r[v] < r[u] => r[v] <= r[link'[u]]
               /\ oldprio'[u] >= BasePrio[owner[u]]
               /\ \A v \in Sem : owner[v] = owner[u] /\ r[v] < r[u] => oldprio'[u] >= ceiling'[v]
               /\ \/ oldprio'[u] = BasePrio[owner[u]]
                  \/ \E v \in Sem : owner[v] = owner[u] /\ r[v] < r[u] /\ oldprio'[u] = ceiling'[v]
    <3>1. /\ IF link[u] = None THEN \A v \in Sem : owner[v] = owner[u] => r[u] <= r[v]
             ELSE /\ owner[link[u]] = owner[u] /\ r[link[u]] < r[u]
                  /\ \A v \in Sem : owner[v] = owner[u] /\ r[v] < r[u] => r[v] <= r[link[u]]
          /\ oldprio[u] >= BasePrio[owner[u]]
          /\ \A v \in Sem : owner[v] = owner[u] /\ r[v] < r[u] => oldprio[u] >= ceiling[v]
          /\ \/ oldprio[u] = BasePrio[owner[u]]
             \/ \E v \in Sem : owner[v] = owner[u] /\ r[v] < r[u] /\ oldprio[u] = ceiling[v]
      BY <2>2 DEF Held
    <3> QED
      BY <2>1, <2>2, <3>1
  <2>3. /\ r \in [Sem -> Nat]
        /\ \A u, v \in Sem : owner[u] # None /\ owner[u] = owner[v] /\ r[u] = r[v] => u = v
        /\ \A e \in Exe :
             IF semtaken[e] = None THEN \A u \in Sem : owner[u] # e
             ELSE /\ owner[semtaken[e]] = e
                  /\ \A u \in Sem : owner[u] = e => r[u] <= r[semtaken[e]]
    BY DEF Held
  <2> QED
    BY <2>2, <2>3 DEF Held
<1> QED
  BY <1>3, <1>4, <1>5, <1>6 DEF Core

-----------------------------------------------------------------------------
(* Sleepers                                                                *)

LEMMA SleepersSame ==
  ASSUME Sleepers, now' \in Nat, sleepqueue' = sleepqueue,
         \A e \in Exe : exestate'[e] = "sleep" <=> exestate[e] = "sleep"
  PROVE  Sleepers'
BY DEF Sleepers

LEMMA SleeperLeaves ==
  ASSUME Sleepers, sleepqueue # <<>>, NEW e \in Exe, e = Head(sleepqueue).exe,
         sleepqueue' = Tail(sleepqueue), now' = now,
         exestate'[e] # "sleep", \A x \in Exe \ {e} : exestate'[x] = exestate[x]
  PROVE  Sleepers'
<1> DEFINE q == sleepqueue
           n == Tail(sleepqueue)
<1>1. /\ q \in Seq([exe : Exe, key : Int]) /\ q # <<>>
      /\ \A i, j \in DOMAIN q : q[i].exe = q[j].exe => i = j
      /\ \A x \in Exe : exestate[x] = "sleep" <=> \E i \in DOMAIN q : q[i].exe = x
  BY DEF Sleepers
<1>2. /\ Len(q) \in Nat \ {0} /\ DOMAIN q = 1 .. Len(q) /\ q[1].exe = e
      /\ n \in Seq([exe : Exe, key : Int]) /\ DOMAIN n = 1 .. Len(q) - 1
      /\ \A i \in DOMAIN n : i + 1 \in DOMAIN q /\ n[i] = q[i + 1]
  BY <1>1
<1> HIDE DEF q, n
<1>3. ASSUME NEW i \in DOMAIN n, NEW j \in DOMAIN n, n[i].exe = n[j].exe
      PROVE  i = j
  <2>1. i + 1 \in DOMAIN q /\ j + 1 \in DOMAIN q /\ q[i + 1].exe = q[j + 1].exe
    BY <1>2, <1>3
  <2>2. i + 1 = j + 1
    BY <1>1, <2>1
  <2> QED
    BY <1>2, <2>2
<1>4. ASSUME NEW x \in Exe
      PROVE  exestate'[x] = "sleep" <=> \E i \in DOMAIN n : n[i].exe = x
  <2>1. CASE x = e
    <3>1. ASSUME NEW i \in DOMAIN n PROVE n[i].exe # e
      <4>1. i + 1 \in DOMAIN q /\ 1 \in DOMAIN q /\ i + 1 # 1 /\ n[i] = q[i + 1]
        BY <1>2
      <4>2. q[i + 1].exe # q[1].exe
        BY <1>1, <4>1
      <4> QED
        BY <1>2, <4>1, <4>2
    <3> QED
      BY <2>1, <3>1
  <2>2. CASE x # e
    <3>1. ASSUME NEW i \in DOMAIN q, q[i].exe = x
          PROVE  i - 1 \in DOMAIN n /\ n[i - 1].exe = x
      <4>1. i # 1 /\ i \in 1 .. Len(q)
        BY <1>2, <2>2, <3>1
      <4>2. i - 1 \in DOMAIN n /\ (i - 1) + 1 = i
        BY <1>2, <4>1
      <4> QED
        BY <1>2, <3>1, <4>2
    <3>2. ASSUME NEW i \in DOMAIN n, n[i].exe = x
          PROVE  i + 1 \in DOMAIN q /\ q[i + 1].exe = x
      BY <1>2, <3>2
    <3> QED
      BY <1>1, <2>2, <3>1, <3>2
  <2> QED
    BY <2>1, <2>2
<1>5. sleepqueue' = n /\ now' \in Nat
  BY DEF n, Sleepers
<1>6. n \in Seq([exe : Exe, key : Int])
  BY <1>2
<1>7. \A i, j \in DOMAIN n : n[i].exe = n[j].exe => i = j
  BY <1>3
<1>8. \A x \in Exe : exestate'[x] = "sleep" <=> \E i \in DOMAIN n : n[i].exe = x
  BY <1>4
<1> HIDE DEF n
<1>9. /\ \A i, j \in DOMAIN sleepqueue' : sleepqueue'[i].exe = sleepqueue'[j].exe => i = j
      /\ \A x \in Exe :
           exestate'[x] = "sleep" <=> \E i \in DOMAIN sleepqueue' : sleepqueue'[i].exe = x
  BY <1>5, <1>7, <1>8
<1>10. sleepqueue' \in Seq([exe : Exe, key : Int]) /\ now' \in Nat
  BY <1>5, <1>6
<1> QED
  BY <1>9, <1>10 DEF Sleepers

LEMMA SleeperEnters ==
  ASSUME Sleepers, NEW e \in Exe, exestate[e] # "sleep", NEW t \in Int,
         sleepqueue' = InsertTime(e, t), now' \in Nat,
         exestate'[e] = "sleep", \A x \in Exe \ {e} : exestate'[x] = exestate[x]
  PROVE  Sleepers'
<1> DEFINE q == sleepqueue
           S == {i \in DOMAIN q : q[i].key > t} \union {Len(q) + 1}
           k == Min(S)
           d == [exe |-> e, key |-> t]
           n == InsertAt(q, k, d)
<1>1. /\ q \in Seq([exe : Exe, key : Int])
      /\ \A i, j \in DOMAIN q : q[i].exe = q[j].exe => i = j
      /\ \A x \in Exe : exestate[x] = "sleep" <=> \E i \in DOMAIN q : q[i].exe = x
  BY DEF Sleepers
<1>2. Len(q) \in Nat /\ DOMAIN q = 1 .. Len(q)
  BY <1>1
<1>3. k \in 1 .. Len(q) + 1
  <2>1. S \in SUBSET Nat /\ S # {} /\ S \subseteq 1 .. Len(q) + 1
    BY <1>2
  <2> HIDE DEF S
  <2> QED
    BY <2>1, MinOf
<1>4. sleepqueue' = n
  BY DEF InsertTime
<1> HIDE DEF k
<1>5. d \in [exe : Exe, key : Int] /\ d.exe = e
  OBVIOUS
<1> HIDE DEF d
<1>6. /\ n \in Seq([exe : Exe, key : Int]) /\ Len(n) = Len(q) + 1
      /\ \A i \in 1 .. Len(q) + 1 :
           n[i] = IF i < k THEN q[i] ELSE IF i = k THEN d ELSE q[i - 1]
  <2> DEFINE R == [exe : Exe, key : Int]
  <2>1. q \in Seq(R) /\ d \in R
    BY <1>1, <1>5
  <2> HIDE DEF R, q
  <2>3. /\ n \in Seq(R) /\ Len(n) = Len(q) + 1
        /\ \A i \in 1 .. Len(q) + 1 :
             n[i] = IF i < k THEN q[i] ELSE IF i = k THEN d ELSE q[i - 1]
    <3>1. \A S1, q1, x1, k1 : q1 \in Seq(S1) /\ x1 \in S1 /\ k1 \in 1 .. Len(q1) + 1 =>
            /\ InsertAt(q1, k1, x1) \in Seq(S1) /\ Len(InsertAt(q1, k1, x1)) = Len(q1) + 1
            /\ \A i \in 1 .. Len(q1) + 1 : InsertAt(q1, k1, x1)[i] =
                  IF i < k1 THEN q1[i] ELSE IF i = k1 THEN x1 ELSE q1[i - 1]
      BY InsertedAny
    <3> QED
      BY <1>3, <2>1, <3>1
  <2> QED
    BY <2>3 DEF R
<1> HIDE DEF q, n
<1>7. DOMAIN n = 1 .. Len(q) + 1 /\ k \in DOMAIN n /\ n[k].exe = e
  BY <1>2, <1>3, <1>5, <1>6
<1>8. ASSUME NEW i \in DOMAIN n, i # k
      PROVE  IF i < k THEN i \in DOMAIN q /\ n[i] = q[i]
                      ELSE i - 1 \in DOMAIN q /\ n[i] = q[i - 1]
  BY <1>2, <1>3, <1>6, <1>7, <1>8
<1>9. ASSUME NEW i \in DOMAIN q
      PROVE  IF i < k THEN i \in DOMAIN n /\ i # k /\ n[i] = q[i]
                      ELSE i + 1 \in DOMAIN n /\ i + 1 # k /\ n[i + 1] = q[i]
  BY <1>2, <1>3, <1>6, <1>7
<1>10. \A i \in DOMAIN q : q[i].exe # e
  BY <1>1
<1>11. \A i \in DOMAIN n : i # k => n[i].exe # e
  BY <1>8, <1>10
<1>12. \A i, j \in DOMAIN n : n[i].exe = n[j].exe => i = j
  <2> SUFFICES ASSUME NEW i \in DOMAIN n, NEW j \in DOMAIN n, n[i].exe = n[j].exe
               PROVE  i = j
    OBVIOUS
  <2>1. CASE i = k \/ j = k
    BY <1>7, <1>11, <2>1
  <2>2. CASE i # k /\ j # k
    <3> DEFINE a == IF i < k THEN i ELSE i - 1
               b == IF j < k THEN j ELSE j - 1
    <3>1. a \in DOMAIN q /\ b \in DOMAIN q /\ n[i] = q[a] /\ n[j] = q[b]
      BY <1>8, <2>2
    <3>2. a = b
      BY <1>1, <3>1
    <3> QED
      BY <1>3, <1>7, <2>2, <3>2
  <2> QED
    BY <2>1, <2>2
<1>13. ASSUME NEW x \in Exe
       PROVE  exestate'[x] = "sleep" <=> \E i \in DOMAIN n : n[i].exe = x
  <2>1. CASE x = e
    BY <1>7, <2>1
  <2>2. CASE x # e
    <3>1. ASSUME NEW i \in DOMAIN q, q[i].exe = x PROVE \E j \in DOMAIN n : n[j].exe = x
      BY <1>9, <3>1
    <3>2. ASSUME NEW i \in DOMAIN n, n[i].exe = x PROVE \E j \in DOMAIN q : q[j].exe = x
      <4>1. i # k
        BY <1>7, <2>2, <3>2
      <4> QED
        BY <1>8, <3>2, <4>1
    <3> QED
      BY <1>1, <2>2, <3>1, <3>2
  <2> QED
    BY <2>1, <2>2
<1> QED
  BY <1>4, <1>6, <1>12, <1>13 DEF Sleepers

-----------------------------------------------------------------------------
(* Every step keeps the invariant                                          *)

\* The idle loop is always in the list, and makes no calls: dv_syscall() never finds the
\* list too short or the caller in another place.
LEMMA Room ==
  ASSUME Core, Calling, Disciplined, Calls
  PROVE  CanEnter /\ Me # Idle
<1>1. pc = "app" /\ Me # Idle
  BY DEF Calls, Disciplined
<1>2. /\ current = Head(threadqueue) /\ current \in Thread
      /\ threxe[current] = Me /\ BasePrio[Me] = current
  BY <1>1, Caller
<1>3. /\ threadqueue \in Seq(Thread) /\ threadqueue # <<>>
      /\ BasePrio[Idle] \in Thread /\ threxe[BasePrio[Idle]] = Idle /\ Idle # None
      /\ In(threadqueue, BasePrio[Idle])
  BY ExeAssumption, Base DEF Core, ThreadType, Listed
<1>4. BasePrio[Idle] # current
  BY <1>1, <1>2, <1>3
<1>5. PICK i \in DOMAIN threadqueue : threadqueue[i] = BasePrio[Idle]
  BY <1>3 DEF In
<1>6. Len(threadqueue) \in Nat /\ i \in 1 .. Len(threadqueue) /\ i # 1
  BY <1>2, <1>3, <1>4, <1>5
<1>7. Len(threadqueue) > 1
  BY <1>6
<1> QED
  BY <1>1, <1>2, <1>7 DEF CanEnter

LEMMA HoldsNone ==
  ASSUME NEW r, Core, Calling, pc = "app", Held(r)
  PROVE  semtaken[Me] = None <=> OwnsNone
<1>1. Me \in Exe /\ semtaken[Me] \in Sem \union {None}
  BY Caller DEF Core, SemType
<1> QED
  BY <1>1 DEF Held, OwnsNone

LEMMA HeldSame ==
  ASSUME NEW r, Held(r), SemSame
  PROVE  Held(r)'
BY DEF Held, SemSame

\* Steps that only end a call, or let time pass
LEMMA PassKeeps ==
  ASSUME NEW r, Inv(r), UNCHANGED <<exestate, thrVars, semVars, sleepqueue, panic>>,
         now' \in Nat, pc' # "app" \/ pc' = pc
  PROVE  Inv(r)'
<1>1. SemSame /\ ExeSame /\ thrprio' = thrprio /\ threadqueue' = threadqueue
      /\ sleepqueue' = sleepqueue /\ panic' = panic
  BY DEF SemSame, ExeSame, thrVars, semVars
<1>2. Core'
  BY <1>1 DEF Inv, Core, ThreadType, SemType, Listed, Jobs, Owned, Raised, SemSame, ExeSame
<1>3. Calling'
  BY <1>1 DEF Inv, Calling, ExeSame
<1>4. Sleepers'
  BY <1>1, SleepersSame DEF Inv, ExeSame
<1>5. Held(r)'
  BY <1>1, HeldSame DEF Inv
<1> QED
  BY <1>1, <1>2, <1>3, <1>4, <1>5 DEF Inv

\* A thread that is occupied stays occupied when another executable is started.
LEMMA StartKeeps ==
  ASSUME NEW r, Inv(r), NEW e \in Exe, exestate[e] # "active", Activate(e), SemSame,
         pc' # "app", panic' = panic, Sleepers'
  PROVE  Inv(r)'
<1>1. Core' /\ current' = current
  BY ActivateKeeps DEF Inv
<1>2. Calling'
  <2>1. ASSUME current # None PROVE threxe'[current] # None
    <3>1. current \in Thread /\ threxe[current] # None /\ threxe \in [Thread -> Exe \union {None}]
      BY <2>1 DEF Inv, Calling, Core, ThreadType
    <3>2. threxe' = [threxe EXCEPT ![BasePrio[e]] = e] \/ threxe' = threxe
      BY DEF Activate, Occupy
    <3>3. e # None
      BY ExeAssumption
    <3> QED
      BY <3>1, <3>2, <3>3
  <2> QED
    BY <1>1, <2>1 DEF Calling
<1>3. Held(r)'
  BY HeldSame DEF Inv
<1> QED
  BY <1>1, <1>2, <1>3 DEF Inv

LEMMA SpawnStep == ASSUME NEW r, Inv(r), NEW e \in Exe, Spawn(e) PROVE Inv(r)'
<1>1. exestate[e] = "idle" /\ Activate(e) /\ SemSame /\ pc' # "app" /\ panic' = panic
      /\ sleepqueue' = sleepqueue /\ now' = now
  BY DEF Spawn, Syscall, semVars, timeVars, SemSame
<1>2. exestate' = [exestate EXCEPT ![e] = "active"]
  BY <1>1 DEF Activate
<1>3. Sleepers'
  <2>1. \A x \in Exe : exestate'[x] = "sleep" <=> exestate[x] = "sleep"
    BY <1>1, <1>2 DEF Inv, Core, ThreadType
  <2> QED
    BY <1>1, <2>1, SleepersSame DEF Inv, Sleepers
<1> QED
  BY <1>1, <1>3, StartKeeps

LEMMA ResumeStep == ASSUME NEW r, Inv(r), NEW e \in Exe, Resume(e) PROVE Inv(r)'
<1>1. exestate[e] = "suspended" /\ Activate(e) /\ SemSame /\ pc' # "app" /\ panic' = panic
      /\ sleepqueue' = sleepqueue /\ now' = now
  BY DEF Resume, Syscall, semVars, timeVars, SemSame
<1>2. exestate' = [exestate EXCEPT ![e] = "active"]
  BY <1>1 DEF Activate
<1>3. Sleepers'
  <2>1. \A x \in Exe : exestate'[x] = "sleep" <=> exestate[x] = "sleep"
    BY <1>1, <1>2 DEF Inv, Core, ThreadType
  <2> QED
    BY <1>1, <2>1, SleepersSame DEF Inv, Sleepers
<1> QED
  BY <1>1, <1>3, StartKeeps

LEMMA FirstSleeper ==
  ASSUME Sleepers, sleepqueue # <<>>
  PROVE  Head(sleepqueue).exe \in Exe /\ exestate[Head(sleepqueue).exe] = "sleep"
<1>1. sleepqueue \in Seq([exe : Exe, key : Int])
  BY DEF Sleepers
<1>2. 1 \in DOMAIN sleepqueue /\ Head(sleepqueue) = sleepqueue[1]
  BY <1>1
<1>3. \A S, q : q \in Seq(S) /\ 1 \in DOMAIN q => q[1] \in S
  OBVIOUS
<1>4. sleepqueue[1] \in [exe : Exe, key : Int]
  BY <1>1, <1>2, <1>3
<1> QED
  BY <1>2, <1>4 DEF Sleepers

LEMMA WakeUpStep == ASSUME NEW r, Inv(r), WakeUp PROVE Inv(r)'
<1> DEFINE e == Head(sleepqueue).exe
<1>1. /\ sleepqueue # <<>> /\ Activate(e) /\ SemSame /\ pc' = "wakeup" /\ panic' = panic
      /\ sleepqueue' = Tail(sleepqueue) /\ now' = now
  BY DEF WakeUp, IsDue, semVars, timeVars, SemSame
<1>2. e \in Exe /\ exestate[e] = "sleep"
  BY <1>1, FirstSleeper DEF Inv
<1> HIDE DEF e
<1>3. exestate' = [exestate EXCEPT ![e] = "active"]
  BY <1>1 DEF Activate
<1>4. Sleepers'
  <2>1. exestate'[e] # "sleep" /\ \A x \in Exe \ {e} : exestate'[x] = exestate[x]
    BY <1>2, <1>3 DEF Inv, Core, ThreadType
  <2> QED
    BY <1>1, <1>2, <2>1, SleeperLeaves DEF e, Inv
<1> QED
  BY <1>1, <1>2, <1>4, StartKeeps

\* The running executable leaves its thread.
LEMMA LeaveKeeps ==
  ASSUME NEW r, Inv(r), Disciplined, Calls, OwnsNone,
         NEW x \in {"idle", "suspended", "sleep"}, exestate' = [exestate EXCEPT ![Me] = x],
         NEW kept, Vacate(current, kept), SemSame, pc' # "app", panic' = panic, Sleepers'
  PROVE  Inv(r)'
<1>1. Core /\ Calling /\ Held(r) /\ panic = "none" /\ pc = "app"
  BY DEF Inv, Calls
<1>2. Me # Idle
  BY <1>1, Room
<1>3. Core' /\ current' = None
  BY <1>1, <1>2, VacateKeeps DEF OwnsNone
<1>4. Calling'
  BY <1>3 DEF Calling
<1>5. Held(r)'
  BY <1>1, HeldSame
<1> QED
  BY <1>1, <1>3, <1>4, <1>5 DEF Inv

LEMMA MeActive ==
  ASSUME NEW r, Inv(r), pc = "app"
  PROVE  /\ Me \in Exe /\ exestate[Me] = "active"
         /\ exestate \in [Exe -> {"idle", "active", "suspended", "sleep"}]
<1>1. current \in Thread /\ threxe[current] = Me /\ Me # None /\ Me \in Exe
  BY Caller DEF Inv
<1> QED
  BY <1>1 DEF Inv, Core, Jobs, ThreadType

LEMMA ExitStep == ASSUME NEW r, Inv(r), Disciplined, Exit PROVE Inv(r)'
<1>1. Calls /\ OwnsNone /\ pc = "app"
  BY DEF Exit, Disciplined, Calls
<1>2. semtaken[Me] = None
  BY <1>1, HoldsNone DEF Inv
<1>3. /\ exestate' = [exestate EXCEPT ![Me] = "idle"] /\ Vacate(current, begun \ {Me})
      /\ SemSame /\ pc' # "app" /\ panic' = panic /\ sleepqueue' = sleepqueue /\ now' = now
  BY <1>2 DEF Exit, semVars, timeVars, SemSame
<1>4. Sleepers'
  <2>1. \A y \in Exe : exestate'[y] = "sleep" <=> exestate[y] = "sleep"
    BY <1>1, <1>3, MeActive
  <2> QED
    BY <1>3, <2>1, SleepersSame DEF Inv, Sleepers
<1> QED
  BY <1>1, <1>3, <1>4, LeaveKeeps

LEMMA SuspendStep == ASSUME NEW r, Inv(r), Disciplined, Suspend PROVE Inv(r)'
<1>1. Calls /\ pc = "app" /\ semtaken[Me] = None
  BY DEF Suspend, Syscall, Calls, MayBlock
<1>2. OwnsNone
  BY <1>1, HoldsNone DEF Inv
<1>3. /\ exestate' = [exestate EXCEPT ![Me] = "suspended"] /\ Vacate(current, begun)
      /\ SemSame /\ pc' # "app" /\ panic' = panic /\ sleepqueue' = sleepqueue /\ now' = now
  BY DEF Suspend, Syscall, semVars, timeVars, SemSame
<1>4. Sleepers'
  <2>1. \A y \in Exe : exestate'[y] = "sleep" <=> exestate[y] = "sleep"
    BY <1>1, <1>3, MeActive
  <2> QED
    BY <1>3, <2>1, SleepersSame DEF Inv, Sleepers
<1> QED
  BY <1>1, <1>2, <1>3, <1>4, LeaveKeeps

LEMMA ClockGoes ==
  ASSUME now \in Nat, NEW t, SetAlarm(t)
  PROVE  now' \in Nat
BY NumberAssumption DEF SetAlarm

LEMMA BlockStep ==
  ASSUME NEW r, Inv(r), Disciplined, NEW t \in Int, BlockUntil(t)
  PROVE  Inv(r)'
<1>1. Calls /\ pc = "app" /\ semtaken[Me] = None
  BY DEF BlockUntil, Syscall, Calls, MayBlock
<1>2. OwnsNone
  BY <1>1, HoldsNone DEF Inv
<1>3. /\ exestate' = [exestate EXCEPT ![Me] = "sleep"] /\ Vacate(current, begun)
      /\ SemSame /\ pc' # "app" /\ panic' = panic /\ sleepqueue' = InsertTime(Me, t)
  BY DEF BlockUntil, Syscall, semVars, SemSame
<1>4. now' \in Nat
  <2>1. now \in Nat
    BY DEF Inv, Sleepers
  <2>2. SetAlarm(t) \/ now' = now
    BY DEF BlockUntil, timeVars
  <2> QED
    BY <2>1, <2>2, ClockGoes
<1>5. Sleepers'
  <2>1. /\ Me \in Exe /\ exestate[Me] # "sleep" /\ exestate'[Me] = "sleep"
        /\ \A x \in Exe \ {Me} : exestate'[x] = exestate[x]
    BY <1>1, <1>3, MeActive
  <2>2. \A e \in Exe : exestate[e] # "sleep" /\ exestate'[e] = "sleep"
                       /\ (\A x \in Exe \ {e} : exestate'[x] = exestate[x])
                       /\ sleepqueue' = InsertTime(e, t) => Sleepers'
    BY <1>4, SleeperEnters DEF Inv
  <2> QED
    BY <1>3, <2>1, <2>2
<1> QED
  BY <1>1, <1>2, <1>3, <1>5, LeaveKeeps

\* Without a semaphore the caller is at its base priority, and nobody behind it above it.
LEMMA YieldStep == ASSUME NEW r, Inv(r), Disciplined, Yield PROVE Inv(r)'
<1>1. /\ pc = "app" /\ OwnsNone /\ CanEnter /\ pc' # "app" /\ panic' = panic
      /\ UNCHANGED <<exestate, thrstate, threxe, jobqueue, current, semVars, sleepqueue, now>>
  BY DEF Yield, Syscall, Calls, Disciplined, exeVars, timeVars
<1>2. /\ current = Head(threadqueue) /\ current \in Thread /\ threxe[current] = Me /\ Me # None
      /\ BasePrio[Me] = current /\ thrprio[current] \in Nat
  BY <1>1, Caller DEF Inv
<1>3. thrprio[current] = current
  BY <1>1, <1>2 DEF Inv, Core, Raised, OwnsNone
<1>4. ~(thrprio[threadqueue[2]] > BasePrio[Me])
  <2>1. /\ threadqueue \in Seq(Thread) /\ Len(threadqueue) > 1
        /\ Ordered(threadqueue, thrprio) /\ thrprio \in [Thread -> Nat]
    BY <1>1 DEF Inv, Core, ThreadType, Listed, CanEnter
  <2>2. /\ 1 \in DOMAIN threadqueue /\ 2 \in DOMAIN threadqueue
        /\ threadqueue[1] = current /\ threadqueue[2] \in Thread
    BY <1>2, <2>1
  <2>3. Before(threadqueue, current, threadqueue[2])
    BY <2>2 DEF Before
  <2>4. thrprio[current] >= thrprio[threadqueue[2]] /\ thrprio[threadqueue[2]] \in Nat
    BY <1>2, <2>1, <2>2, <2>3 DEF Ordered
  <2> QED
    BY <1>2, <1>3, <2>4
<1>5. UNCHANGED <<thrprio, threadqueue>>
  BY <1>4 DEF Yield
<1>6. now' \in Nat
  BY <1>1 DEF Inv, Sleepers
<1> QED
  BY <1>1, <1>5, <1>6, PassKeeps DEF thrVars

LEMMA NullStep == ASSUME NEW r, Inv(r), Disciplined, Null PROVE Inv(r)'
<1>1. CanEnter
  BY Room DEF Null, Inv
<1>2. /\ UNCHANGED <<exestate, thrVars, semVars, sleepqueue, panic>>
      /\ pc' # "app" /\ now' = now
  BY <1>1 DEF Null, exeVars, timeVars
<1>3. now' \in Nat
  BY <1>2 DEF Inv, Sleepers
<1> QED
  BY <1>2, <1>3, PassKeeps

LEMMA TimeStep ==
  ASSUME NEW r, Inv(r), Tick \/ TimerInterrupt \/ WokenUp
  PROVE  Inv(r)'
<1>1. now \in Nat
  BY DEF Inv, Sleepers
<1>2. CASE Tick
  BY <1>1, <1>2, PassKeeps DEF Tick, exeVars
<1>3. CASE TimerInterrupt
  BY <1>1, <1>3, PassKeeps DEF TimerInterrupt, exeVars
<1>4. CASE WokenUp
  <2>1. now' \in Nat
    BY <1>1, <1>4, ClockGoes DEF WokenUp
  <2> QED
    BY <1>4, <2>1, PassKeeps DEF WokenUp, exeVars
<1> QED
  BY <1>2, <1>3, <1>4

\* What the calls on semaphores have in common
LEMMA SemStep ==
  ASSUME NEW r, Inv(r), NEW q, Core', Held(q)', ExeSame,
         UNCHANGED <<sleepqueue, now, panic>>, pc' # "app"
  PROVE  Inv(q)'
<1>1. Calling'
  BY DEF Inv, Calling, ExeSame
<1>2. Sleepers'
  BY SleepersSame DEF Inv, Sleepers, ExeSame
<1> QED
  BY <1>1, <1>2 DEF Inv

LEMMA CreateStep ==
  ASSUME NEW r, Inv(r), NEW s \in Sem, CreateSemaphore(s)
  PROVE  Inv(r)'
<1>1. /\ s \notin created /\ ExeSame /\ pc' # "app"
      /\ UNCHANGED <<thrprio, threadqueue, semtaken, sleepqueue, now, panic>>
      /\ created' = created \union {s} /\ owner' = [owner EXCEPT ![s] = None]
      /\ link' = [link EXCEPT ![s] = None] /\ oldprio' = [oldprio EXCEPT ![s] = -1]
      /\ ceiling' = [ceiling EXCEPT ![s] = -1] /\ count' = [count EXCEPT ![s] = 1]
  BY DEF CreateSemaphore, Syscall, ExeSame, exeVars, thrVars, timeVars, MinPriority
<1>2. SemType /\ owner[s] = None
  BY <1>1 DEF Inv, Core, Owned
<1>3. owner' = owner
  BY <1>1, <1>2 DEF SemType
<1>4. -1 \in Int /\ 1 \in Int
  OBVIOUS
<1>5. SemType'
  BY <1>1, <1>2, <1>3, <1>4 DEF SemType
<1>6. /\ \A u \in Sem \ {s} : /\ link'[u] = link[u] /\ oldprio'[u] = oldprio[u]
                              /\ ceiling'[u] = ceiling[u] /\ count'[u] = count[u]
                              /\ u \in created' <=> u \in created
      /\ count'[s] = 1
  BY <1>1, <1>2 DEF SemType
<1>7. Core' /\ Held(r)'
  BY <1>1, <1>2, <1>3, <1>5, <1>6, FreeKeeps DEF Inv
<1> QED
  BY <1>1, <1>7, SemStep

LEMMA DestroyStep ==
  ASSUME NEW r, Inv(r), NEW s \in Sem, DestroySemaphore(s)
  PROVE  Inv(r)'
<1>1. /\ owner[s] = None /\ ExeSame /\ pc' # "app"
      /\ UNCHANGED <<thrprio, threadqueue, owner, semtaken, sleepqueue, now, panic>>
      /\ created' = created \ {s}
      /\ link' = [link EXCEPT ![s] = None] /\ oldprio' = [oldprio EXCEPT ![s] = -1]
      /\ ceiling' = [ceiling EXCEPT ![s] = -1] /\ count' = [count EXCEPT ![s] = 0]
  BY DEF DestroySemaphore, Syscall, ExeSame, exeVars, thrVars, timeVars, MinPriority
<1>2. SemType
  BY DEF Inv, Core
<1>3. -1 \in Int /\ 0 \in Int
  OBVIOUS
<1>4. SemType'
  BY <1>1, <1>2, <1>3 DEF SemType
<1>5. /\ \A u \in Sem \ {s} : /\ link'[u] = link[u] /\ oldprio'[u] = oldprio[u]
                              /\ ceiling'[u] = ceiling[u] /\ count'[u] = count[u]
                              /\ u \in created' <=> u \in created
      /\ s \notin created'
  BY <1>1, <1>2 DEF SemType
<1>6. Core' /\ Held(r)'
  BY <1>1, <1>4, <1>5, FreeKeeps DEF Inv
<1> QED
  BY <1>1, <1>6, SemStep

LEMMA UsesStep ==
  ASSUME NEW r, Inv(r), Disciplined, NEW s \in Sem, NEW e \in Exe, UsesSemaphore(s, e)
  PROVE  Inv(r)'
<1>1. /\ s \in created /\ owner[s] = None /\ ExeSame /\ pc' # "app"
      /\ UNCHANGED <<thrprio, threadqueue, created, owner, link, oldprio, count, semtaken,
                     sleepqueue, now, panic>>
      /\ ceiling' = [ceiling EXCEPT ![s] = Max({ceiling[s], BasePrio[e]})]
  BY DEF UsesSemaphore, Syscall, Disciplined, ExeSame, exeVars, thrVars, timeVars
<1>2. SemType /\ count[s] = 1
  BY <1>1 DEF Inv, Core, Owned
<1>3. Max({ceiling[s], BasePrio[e]}) \in Int
  <2>1. ceiling[s] \in Int /\ BasePrio[e] \in Int
    BY <1>2, Base DEF SemType
  <2> QED
    BY <2>1, MaxTwo
<1>4. SemType'
  BY <1>1, <1>2, <1>3 DEF SemType
<1>5. /\ \A u \in Sem \ {s} : /\ link'[u] = link[u] /\ oldprio'[u] = oldprio[u]
                              /\ ceiling'[u] = ceiling[u] /\ count'[u] = count[u]
                              /\ u \in created' <=> u \in created
      /\ count'[s] = 1
  BY <1>1, <1>2 DEF SemType
<1>6. Core' /\ Held(r)'
  BY <1>1, <1>4, <1>5, FreeKeeps DEF Inv
<1> QED
  BY <1>1, <1>6, SemStep

LEMMA WaitStep ==
  ASSUME NEW r, Inv(r), Disciplined, NEW s \in Sem, Wait(s)
  PROVE  \E q : Inv(q)'
<1>1. owner[s] = None /\ count[s] = 1 /\ pc = "app" /\ s \in created
  BY WaitFindsFree DEF Inv, Wait, Calls
<1>2. /\ count' = [count EXCEPT ![s] = @ - 1] /\ Acquire(s) /\ ExeSame /\ pc' # "app"
      /\ UNCHANGED <<threadqueue, created, ceiling, sleepqueue, now, panic>>
  BY <1>1 DEF Wait, ExeSame, exeVars, timeVars
<1>3. count' = [count EXCEPT ![s] = 0]
  BY <1>1, <1>2 DEF Inv, Core, SemType
<1>4. Core' /\ \E q : Held(q)'
  BY <1>1, <1>2, <1>3, AcquireKeeps DEF Inv
<1>5. PICK q : Held(q)'
  BY <1>4
<1>6. Inv(q)'
  BY <1>2, <1>4, <1>5, SemStep
<1> QED
  BY <1>6

LEMMA SignalStep ==
  ASSUME NEW r, Inv(r), Disciplined, NEW s \in Sem, Signal(s)
  PROVE  Inv(r)'
<1>1. pc = "app" /\ owner[s] = Me /\ semtaken[Me] = s
  BY DEF Signal, Calls, Disciplined
<1>2. owner[s] # None
  BY <1>1, Caller DEF Inv
<1>3. count[s] = 0
  BY <1>2 DEF Inv, Core, Owned
<1>4. /\ count' = [count EXCEPT ![s] = @ + 1] /\ Relinquish(s) /\ ExeSame /\ pc' # "app"
      /\ UNCHANGED <<created, oldprio, ceiling, sleepqueue, now, panic>>
  BY <1>3 DEF Signal, ExeSame, exeVars, timeVars
<1>5. count' = [count EXCEPT ![s] = 1]
  BY <1>3, <1>4 DEF Inv, Core, SemType
<1>6. Core' /\ Held(r)'
  BY <1>1, <1>4, <1>5, RelinquishKeeps DEF Inv
<1> QED
  BY <1>4, <1>6, SemStep

LEMMA FirstOccupied ==
  ASSUME Core
  PROVE  LET t == Head(threadqueue) IN
         t \in Thread /\ threxe[t] # None /\ threxe[t] \in Exe
<1> DEFINE t == Head(threadqueue)
<1>1. threadqueue \in Seq(Thread) /\ threadqueue # <<>> /\ Distinct(threadqueue)
  BY DEF Core, ThreadType, Listed
<1>2. t \in Thread /\ In(threadqueue, t)
  BY <1>1, FirstOf
<1> QED
  BY <1>2 DEF Core, Listed, ThreadType

LEMMA DispatchStep == ASSUME NEW r, Inv(r), Dispatch PROVE Inv(r)'
<1> DEFINE t == Head(threadqueue)
<1>1. ThreadType /\ SemType /\ Listed /\ Jobs /\ Owned /\ Raised
  BY DEF Inv, Core
<1>2. t \in Thread /\ threxe[t] # None /\ threxe[t] \in Exe
  BY FirstOccupied DEF Inv
<1>3. Max({thrprio[t], BasePrio[threxe[t]]}) = thrprio[t]
  <2>1. thrprio[t] \in Int /\ BasePrio[threxe[t]] \in Int /\ thrprio[t] >= BasePrio[threxe[t]]
    BY <1>1, <1>2, Base DEF ThreadType, Listed
  <2> QED
    BY <2>1, MaxTwo
<1>4. /\ current' = t /\ thrprio' = [thrprio EXCEPT ![t] = thrprio[t]]
      /\ thrstate' = IF current = t THEN thrstate
                     ELSE [u \in Thread |-> IF u = t THEN "running"
                                            ELSE IF u = current THEN "ready" ELSE thrstate[u]]
      /\ UNCHANGED <<exestate, threxe, jobqueue, threadqueue, semVars, sleepqueue, now, panic>>
  BY <1>3 DEF Dispatch, timeVars
<1> HIDE DEF t
<1>5. thrprio' = thrprio
  BY <1>1, <1>2, <1>4 DEF ThreadType
<1>6. current # None => threxe[current] # None
  BY DEF Inv, Calling
<1>7. ThreadType'
  BY <1>1, <1>2, <1>4, <1>5 DEF ThreadType
<1>8. Listed'
  <2>1. ASSUME NEW u \in Thread PROVE thrstate'[u] = "idle" <=> threxe[u] = None
    <3>1. thrstate[u] = "idle" <=> threxe[u] = None
      BY <1>1 DEF Listed
    <3>2. u = current => threxe[u] # None
      BY <1>1, <1>6, ThreadNat, ExeAssumption DEF ThreadType
    <3> QED
      BY <1>2, <1>4, <3>1, <3>2
  <2> QED
    BY <1>1, <1>4, <1>5, <2>1 DEF Listed
<1>9. Core'
  BY <1>1, <1>4, <1>5, <1>7, <1>8 DEF Core, SemType, Jobs, Owned, Raised, semVars
<1>10. Calling'
  BY <1>2, <1>4 DEF Calling, t
<1>11. Sleepers'
  BY <1>4, SleepersSame DEF Inv, Sleepers
<1>12. Held(r)'
  BY <1>4, HeldSame DEF Inv, SemSame, semVars
<1> QED
  BY <1>4, <1>9, <1>10, <1>11, <1>12 DEF Inv

LEMMA StepKeeps ==
  ASSUME NEW r, Inv(r), Disciplined, Next
  PROVE  \E q : Inv(q)'
<1>1. \/ \E e \in Exe : Spawn(e) \/ Resume(e)
      \/ \E n \in 1 .. MaxSleep : Sleep(n) \/ SleepUntil(now + n)
      \/ \E s \in Sem : \/ CreateSemaphore(s) \/ DestroySemaphore(s)
                        \/ Wait(s) \/ Signal(s)
                        \/ \E e \in Exe : UsesSemaphore(s, e)
      \/ Null \/ Exit \/ Suspend \/ Yield
      \/ Tick \/ TimerInterrupt \/ WakeUp \/ WokenUp \/ Dispatch
  BY DEF Next, Call
<1>2. ASSUME NEW e \in Exe, Spawn(e) \/ Resume(e) PROVE Inv(r)'
  BY <1>2, SpawnStep, ResumeStep
<1>3. ASSUME NEW n \in 1 .. MaxSleep, Sleep(n) \/ SleepUntil(now + n) PROVE Inv(r)'
  <2>1. now + n \in Int
    BY DEF Inv, Sleepers
  <2>2. BlockUntil(now + n)
    BY <1>3 DEF Sleep, SleepUntil
  <2> QED
    BY <2>1, <2>2, BlockStep
<1>4. ASSUME NEW s \in Sem, CreateSemaphore(s) \/ DestroySemaphore(s) \/ Signal(s)
      PROVE  Inv(r)'
  BY <1>4, CreateStep, DestroyStep, SignalStep
<1>5. ASSUME NEW s \in Sem, NEW e \in Exe, UsesSemaphore(s, e) PROVE Inv(r)'
  BY <1>5, UsesStep
<1>6. ASSUME NEW s \in Sem, Wait(s) PROVE \E q : Inv(q)'
  BY <1>6, WaitStep
<1>7. Null \/ Exit \/ Suspend \/ Yield => Inv(r)'
  BY NullStep, ExitStep, SuspendStep, YieldStep
<1>8. Tick \/ TimerInterrupt \/ WakeUp \/ WokenUp \/ Dispatch => Inv(r)'
  BY TimeStep, WakeUpStep, DispatchStep
<1> QED
  BY <1>1, <1>2, <1>3, <1>4, <1>5, <1>6, <1>7, <1>8

LEMMA StutterKeeps == ASSUME NEW r, Inv(r), UNCHANGED vars PROVE Inv(r)'
<1>1. UNCHANGED <<exestate, thrVars, semVars, sleepqueue, panic, now, pc>>
  BY DEF vars, exeVars, timeVars
<1>2. now' \in Nat
  BY <1>1 DEF Inv, Sleepers
<1> QED
  BY <1>1, <1>2, PassKeeps

LEMMA InitHolds == ASSUME Init PROVE \E r : Inv(r)
<1> DEFINE a == BasePrio[InitExe]
           r == [s \in Sem |-> 0]
<1>1. /\ a \in Nat /\ a > 0 /\ a \in Thread /\ 0 \in Thread /\ BasePrio[Idle] = 0
      /\ Idle \in Exe /\ InitExe \in Exe /\ Idle # InitExe
      /\ None \notin Exe /\ None \notin Sem
  BY ExeAssumption, Base
<1>2. /\ exestate = [e \in Exe |-> IF e \in {Idle, InitExe} THEN "active" ELSE "idle"]
      /\ thrstate = [t \in Thread |-> IF t \in {0, a} THEN "ready" ELSE "idle"]
      /\ thrprio = [t \in Thread |-> t]
      /\ threxe = [t \in Thread |-> IF t = 0 THEN Idle ELSE IF t = a THEN InitExe ELSE None]
      /\ jobqueue = [t \in Thread |-> <<>>]
      /\ threadqueue = <<a, 0>> /\ current = None /\ pc = "dispatch" /\ panic = "none"
      /\ created = {} /\ owner = [s \in Sem |-> None] /\ link = [s \in Sem |-> None]
      /\ semtaken = [e \in Exe |-> None] /\ count = [s \in Sem |-> 0]
      /\ oldprio = [s \in Sem |-> -1] /\ ceiling = [s \in Sem |-> -1]
      /\ sleepqueue = <<>> /\ now = 0
  <2>1. {BasePrio[e] : e \in {Idle, InitExe}} = {0, a}
    BY <1>1
  <2> QED
    BY <1>1, <2>1 DEF Init, MinPriority
<1> HIDE DEF a
<1>3. ThreadType
  BY <1>1, <1>2, ThreadNat DEF ThreadType
<1>4. SemType
  <2>1. -1 \in Int /\ 0 \in Int
    OBVIOUS
  <2> QED
    BY <1>1, <1>2, <2>1 DEF SemType
<1>5. /\ DOMAIN threadqueue = 1 .. 2 /\ threadqueue[1] = a /\ threadqueue[2] = 0
  BY <1>2
<1>6. Listed
  <2>1. threadqueue # <<>> /\ Distinct(threadqueue)
    BY <1>1, <1>2, <1>5 DEF Distinct
  <2>2. Ordered(threadqueue, thrprio)
    <3> SUFFICES ASSUME NEW x \in Thread, NEW y \in Thread, Before(threadqueue, x, y)
                 PROVE  thrprio[x] >= thrprio[y]
      BY DEF Ordered
    <3>1. x = a /\ y = 0
      BY <1>5 DEF Before
    <3> QED
      BY <1>1, <1>2, <3>1
  <2>3. ASSUME NEW t \in Thread
        PROVE  /\ threxe[t] # None <=> In(threadqueue, t)
               /\ thrstate[t] = "idle" <=> threxe[t] = None
               /\ threxe[t] # None => BasePrio[threxe[t]] = t /\ thrprio[t] >= t
    <3>1. In(threadqueue, t) <=> t = a \/ t = 0
      BY <1>5 DEF In
    <3>2. threxe[t] = IF t = 0 THEN Idle ELSE IF t = a THEN InitExe ELSE None
      BY <1>2
    <3>3. thrstate[t] = IF t \in {0, a} THEN "ready" ELSE "idle"
      BY <1>2
    <3>4. threxe[t] # None => BasePrio[threxe[t]] = t
      BY <1>1, <3>2 DEF a
    <3>5. thrprio[t] >= t
      BY <1>2, ThreadNat
    <3> QED
      BY <1>1, <3>1, <3>2, <3>3, <3>4, <3>5
  <2>4. threxe[BasePrio[Idle]] = Idle
    BY <1>1, <1>2
  <2> QED
    BY <2>1, <2>2, <2>3, <2>4 DEF Listed
<1>7. Jobs
  <2>1. \A e \in Exe : exestate[e] = "active" => threxe[BasePrio[e]] = e
    BY <1>1, <1>2 DEF a
  <2>2. ASSUME NEW t \in Thread
        PROVE  /\ threxe[t] # None => exestate[threxe[t]] = "active"
               /\ jobqueue[t] = <<>>
    BY <1>1, <1>2
  <2>3. \A t \in Thread : Distinct(jobqueue[t]) /\ \A e \in Exe \union {None} : ~In(jobqueue[t], e)
    BY <2>2 DEF Distinct, In
  <2>4. \A t \in Thread : threxe[t] \in Exe \union {None}
    BY <1>3 DEF ThreadType
  <2> QED
    BY <2>1, <2>2, <2>3, <2>4 DEF Jobs
<1>8. Owned /\ Raised /\ Calling
  BY <1>1, <1>2 DEF Owned, Raised, Calling
<1>9. Sleepers
  <2>1. DOMAIN sleepqueue = {} /\ sleepqueue \in Seq([exe : Exe, key : Int]) /\ now \in Nat
    BY <1>2
  <2> QED
    BY <1>2, <2>1 DEF Sleepers
<1>10. Held(r)
  BY <1>1, <1>2 DEF Held
<1> QED
  BY <1>2, <1>3, <1>4, <1>6, <1>7, <1>8, <1>9, <1>10 DEF Inv, Core

\* For some order in which the semaphores have been taken, the invariant holds.
IInv == \E r : Inv(r)

\* The inductive invariant of the kernel, for applications that keep the rules.
THEOREM KernelInvariant ==
  ASSUME Disciplined
  PROVE  Spec => []IInv
<1>1. Init => IInv
  BY InitHolds DEF IInv
<1>2. IInv /\ [Next]_vars => IInv'
  BY StepKeeps, StutterKeeps DEF IInv
<1> QED
  BY <1>1, <1>2, PTL DEF Spec

-----------------------------------------------------------------------------
(* What follows from it                                                    *)

LEMMA Highest == ASSUME IInv PROVE HighestRuns
<1> SUFFICES ASSUME pc = "app"
             PROVE  /\ \A e \in Exe : exestate[e] = "active" => BasePrio[e] <= thrprio[current]
                    /\ thrprio[current] = Max({BasePrio[Me]} \union {ceiling[s] : s \in
                                                {u \in Sem : owner[u] = Me}})
  BY DEF HighestRuns
<1>1. Core /\ Calling
  BY DEF IInv, Inv
<1>2. ThreadType /\ SemType /\ Listed /\ Jobs /\ Owned /\ Raised
  BY <1>1 DEF Core
<1>3. /\ current \in Thread /\ current \in Nat
      /\ Me \in Exe /\ Me # None /\ threxe[current] = Me /\ BasePrio[Me] = current
      /\ thrprio[current] \in Nat /\ thrprio[current] >= current
      /\ \A t \in Thread : threxe[t] # None /\ t # current => Before(threadqueue, current, t)
  BY <1>1, Caller
<1>4. ASSUME NEW e \in Exe, exestate[e] = "active" PROVE BasePrio[e] <= thrprio[current]
  <2> DEFINE t == BasePrio[e]
  <2>1. t \in Thread /\ t \in Nat /\ e # None
    BY Base, ExeAssumption
  <2>2. threxe[t] # None
    <3>1. threxe[t] = e \/ In(jobqueue[t], e)
      BY <1>2, <1>4 DEF Jobs
    <3>2. In(jobqueue[t], e) => jobqueue[t] # <<>>
      BY DEF In
    <3> QED
      BY <1>2, <2>1, <3>1, <3>2 DEF Jobs
  <2>3. thrprio[t] >= t /\ thrprio[t] \in Nat
    BY <1>2, <2>1, <2>2 DEF Listed, ThreadType
  <2>4. t = current \/ Before(threadqueue, current, t)
    BY <1>3, <2>1, <2>2
  <2>5. thrprio[current] >= thrprio[t]
    BY <1>2, <1>3, <2>1, <2>3, <2>4 DEF Listed, Ordered
  <2> QED
    BY <1>3, <2>1, <2>3, <2>5
<1>5. thrprio[current] = Max({BasePrio[Me]} \union {ceiling[s] : s \in
                               {u \in Sem : owner[u] = Me}})
  <2> DEFINE T == {BasePrio[Me]} \union {ceiling[s] : s \in {u \in Sem : owner[u] = Me}}
             x == thrprio[current]
  <2>1. T \in SUBSET Int
    BY <1>2, <1>3 DEF SemType
  <2>2. x \in T
    <3>1. CASE x = current
      BY <1>3, <3>1
    <3>2. CASE x # current
      <4>1. PICK s \in Sem : owner[s] = Me /\ x = ceiling[s]
        BY <1>2, <1>3, <3>2 DEF Raised
      <4> QED
        BY <4>1
    <3> QED
      BY <3>1, <3>2
  <2>3. ASSUME NEW y \in T PROVE y <= x
    <3>1. CASE y = BasePrio[Me]
      BY <1>3, <3>1
    <3>2. ASSUME NEW s \in Sem, owner[s] = Me, y = ceiling[s] PROVE y <= x
      <4>1. thrprio[current] >= ceiling[s] /\ ceiling[s] \in Int
        BY <1>2, <1>3, <3>2 DEF Owned, SemType
      <4> QED
        BY <1>3, <3>2, <4>1
    <3> QED
      BY <3>1, <3>2
  <2> HIDE DEF T, x
  <2>4. Max(T) = x
    BY <2>1, <2>2, <2>3, MaxIs
  <2> QED
    BY <2>4 DEF T, x
<1> QED
  BY <1>4, <1>5

LEMMA Excludes == ASSUME IInv PROVE MutualExclusion
<1> SUFFICES ASSUME pc = "app", NEW s \in Sem, owner[s] # None, owner[s] # Me
             PROVE  BasePrio[Me] > ceiling[s]
  BY DEF MutualExclusion
<1>1. Core /\ Calling
  BY DEF IInv, Inv
<1>2. /\ current \in Thread /\ threxe[current] = Me /\ BasePrio[Me] = current
      /\ \A t \in Thread : threxe[t] # None /\ t # current => Before(threadqueue, current, t)
  BY <1>1, Caller
<1> DEFINE o == BasePrio[owner[s]]
<1>3. owner[s] \in Exe /\ o \in Thread /\ threxe[o] = owner[s]
  BY <1>1, Base DEF Core, SemType, Owned
<1>4. Before(threadqueue, current, o)
  BY <1>2, <1>3
<1> QED
  BY <1>1, <1>2, <1>4 DEF Core, Owned

LEMMA NoneLost == ASSUME IInv PROVE NothingLost
<1>1. Core /\ Sleepers
  BY DEF IInv, Inv
<1>2. ThreadType /\ Listed /\ Jobs
  BY <1>1 DEF Core
<1>3. ASSUME NEW t \in Thread
      PROVE  /\ jobqueue[t] \in Seq(Exe) /\ Len(jobqueue[t]) \in 0 .. Cardinality(Exe)
             /\ DOMAIN jobqueue[t] = 1 .. Len(jobqueue[t]) /\ Cardinality(Exe) \in Nat
  <2>1. jobqueue[t] \in Seq(Exe) /\ Distinct(jobqueue[t])
    BY <1>2 DEF ThreadType, Jobs
  <2>2. IsFiniteSet(Exe) /\ Cardinality(Exe) \in Nat
    BY ExeAssumption, FS_CardinalityType
  <2>3. \A i \in DOMAIN jobqueue[t] : jobqueue[t][i] \in Exe
    BY <2>1
  <2>4. Len(jobqueue[t]) <= Cardinality(Exe)
    BY <2>1, <2>2, <2>3, DistinctLength
  <2> QED
    BY <2>1, <2>2, <2>4
<1>4. ASSUME NEW e \in Exe, NEW t \in Thread, NEW i \in 0 .. Cardinality(Exe), Place(t, i) = e
      PROVE  /\ t = BasePrio[e] /\ exestate[e] = "active"
             /\ i = 0 => threxe[t] = e
             /\ i # 0 => i \in DOMAIN jobqueue[t] /\ jobqueue[t][i] = e
  <2>1. e # None
    BY ExeAssumption
  <2>2. CASE i = 0
    BY <1>2, <1>4, <2>1, <2>2 DEF Place, Listed, Jobs
  <2>3. CASE i # 0
    <3>1. i <= Len(jobqueue[t]) /\ jobqueue[t][i] = e
      BY <1>4, <2>1, <2>3 DEF Place
    <3>2. i \in DOMAIN jobqueue[t]
      BY <1>3, <2>3, <3>1
    <3>3. In(jobqueue[t], e)
      BY <3>1, <3>2 DEF In
    <3> QED
      BY <1>2, <2>3, <3>1, <3>2, <3>3 DEF Jobs
  <2> QED
    BY <2>2, <2>3
<1>5. ASSUME NEW e \in Exe, exestate[e] = "active"
      PROVE  \E i \in 0 .. Cardinality(Exe) : Places(e) = {<<BasePrio[e], i>>}
  <2> DEFINE t == BasePrio[e]
  <2>1. t \in Thread
    BY Base
  <2>2. \E i \in 0 .. Cardinality(Exe) : Place(t, i) = e
    <3>1. CASE threxe[t] = e
      <4>1. 0 \in 0 .. Cardinality(Exe) /\ Place(t, 0) = e
        BY <1>3, <2>1, <3>1 DEF Place
      <4> QED
        BY <4>1
    <3>2. CASE In(jobqueue[t], e)
      <4>1. PICK i \in DOMAIN jobqueue[t] : jobqueue[t][i] = e
        BY <3>2 DEF In
      <4>2. i \in 1 .. Len(jobqueue[t]) /\ i # 0 /\ i \in 0 .. Cardinality(Exe)
        BY <1>3, <2>1
      <4> QED
        BY <4>1, <4>2 DEF Place
    <3> QED
      BY <1>2, <1>5, <3>1, <3>2 DEF Jobs
  <2>3. PICK i \in 0 .. Cardinality(Exe) : Place(t, i) = e
    BY <2>2
  <2>4. ASSUME NEW p \in Thread \X (0 .. Cardinality(Exe)), Place(p[1], p[2]) = e
        PROVE  p = <<t, i>>
    <3>1. p[1] \in Thread /\ p[2] \in 0 .. Cardinality(Exe) /\ p = <<p[1], p[2]>>
      OBVIOUS
    <3>2. p[1] = t
      BY <1>4, <2>4, <3>1
    <3>3. /\ p[2] = 0 => threxe[t] = e
          /\ p[2] # 0 => p[2] \in DOMAIN jobqueue[t] /\ jobqueue[t][p[2]] = e
          /\ i = 0 => threxe[t] = e
          /\ i # 0 => i \in DOMAIN jobqueue[t] /\ jobqueue[t][i] = e
      BY <1>4, <2>1, <2>3, <2>4, <3>1, <3>2
    <3>4. /\ threxe[t] = e => ~In(jobqueue[t], e)
          /\ Distinct(jobqueue[t])
      BY <1>2, <2>1, ExeAssumption DEF Jobs
    <3>5. p[2] = i
      BY <3>3, <3>4 DEF In, Distinct
    <3> QED
      BY <3>1, <3>2, <3>5
  <2>5. <<t, i>> \in Thread \X (0 .. Cardinality(Exe)) /\ Place(<<t, i>>[1], <<t, i>>[2]) = e
    BY <2>1, <2>3
  <2>6. Places(e) = {<<t, i>>}
    BY <2>4, <2>5 DEF Places
  <2> QED
    BY <2>6
<1>6. ASSUME NEW e \in Exe, exestate[e] # "active" PROVE Places(e) = {}
  <2> SUFFICES ASSUME NEW p \in Thread \X (0 .. Cardinality(Exe)), Place(p[1], p[2]) = e
               PROVE  FALSE
    BY DEF Places
  <2>1. p[1] \in Thread /\ p[2] \in 0 .. Cardinality(Exe)
    OBVIOUS
  <2> QED
    BY <1>4, <1>6, <2>1
<1>7. ASSUME NEW e \in Exe
      PROVE  Cardinality({i \in DOMAIN sleepqueue : sleepqueue[i].exe = e})
               = (IF exestate[e] = "sleep" THEN 1 ELSE 0)
  <2> DEFINE S == {i \in DOMAIN sleepqueue : sleepqueue[i].exe = e}
  <2>1. exestate[e] = "sleep" <=> S # {}
    BY <1>1 DEF Sleepers
  <2>2. \A i, j \in S : i = j
    BY <1>1 DEF Sleepers
  <2> HIDE DEF S
  <2>3. CASE S = {}
    BY <2>1, <2>3, FS_EmptySet DEF S
  <2>4. CASE S # {}
    <3>1. PICK i \in S : TRUE
      BY <2>4
    <3>2. S = {i}
      BY <2>2, <3>1
    <3>3. Cardinality(S) = 1
      BY <3>2, FS_Singleton
    <3> QED
      BY <2>1, <2>4, <3>3 DEF S
  <2> QED
    BY <2>3, <2>4
<1>8. ASSUME NEW t \in Thread
      PROVE  Cardinality({i \in DOMAIN threadqueue : threadqueue[i] = t})
               = (IF threxe[t] = None THEN 0 ELSE 1)
  <2> DEFINE S == {i \in DOMAIN threadqueue : threadqueue[i] = t}
  <2>1. threxe[t] # None <=> S # {}
    BY <1>2 DEF Listed, In
  <2>2. \A i, j \in S : i = j
    BY <1>2 DEF Listed, Distinct
  <2> HIDE DEF S
  <2>3. CASE S = {}
    BY <2>1, <2>3, FS_EmptySet DEF S
  <2>4. CASE S # {}
    <3>1. PICK i \in S : TRUE
      BY <2>4
    <3>2. S = {i}
      BY <2>2, <3>1
    <3>3. Cardinality(S) = 1
      BY <3>2, FS_Singleton
    <3> QED
      BY <2>1, <2>4, <3>3 DEF S
  <2> QED
    BY <2>3, <2>4
<1>9. \A t \in Thread : /\ (thrstate[t] = "idle") <=> (threxe[t] = None)
                        /\ jobqueue[t] # <<>> => threxe[t] # None
  BY <1>2 DEF Listed, Jobs
<1> QED
  BY <1>5, <1>6, <1>7, <1>8, <1>9 DEF NothingLost

\* "Fixed-priority pre-emptive scheduling", no executable lost or running twice, and no
\* consistency check of the kernel fails (dv_dispatch(), dv_syscall()).
THEOREM Sound ==
  ASSUME Disciplined
  PROVE  Spec => []KernelSound
<1>1. IInv => KernelSound
  BY Highest, NoneLost DEF KernelSound, NoPanic, IInv, Inv
<1> QED
  BY <1>1, KernelInvariant, PTL

\* While an executable owns a semaphore only those above its ceiling run, and those that
\* dv_wait() lets in find it free.
THEOREM CeilingExcludes ==
  ASSUME Disciplined
  PROVE  Spec => []MutualExclusion
<1>1. IInv => MutualExclusion
  BY Excludes
<1> QED
  BY <1>1, KernelInvariant, PTL

-----------------------------------------------------------------------------
(* Executables go on where they stopped                                    *)

\* Those that block are alone on their thread.
BlockAlone == \A e \in Blocking, f \in Exe : BasePrio[f] = BasePrio[e] => f = e

\* Who has begun is not in a job queue, from which dv_spawn_executable_in_thread() would
\* start it again: only those that block are ever resumed, to a thread of their own.
Fresh ==
  /\ \A e \in begun : e \in Exe /\ exestate[e] # "idle" /\ ~In(jobqueue[BasePrio[e]], e)
  /\ \A e \in Exe : exestate[e] \in {"suspended", "sleep"} => e \in Blocking

\* The thread of an executable that blocks is free while it does not run.
LEMMA OwnThread ==
  ASSUME BlockAlone, Core, NEW e \in Blocking, exestate[e] # "active"
  PROVE  thrstate[BasePrio[e]] = "idle"
<1> DEFINE t == BasePrio[e]
<1>1. e \in Exe /\ t \in Thread
  BY ExeAssumption, Base
<1>2. threxe[t] \in Exe \union {None}
  BY <1>1 DEF Core, ThreadType
<1>3. ASSUME threxe[t] # None PROVE FALSE
  <2>1. threxe[t] \in Exe /\ BasePrio[threxe[t]] = t /\ exestate[threxe[t]] = "active"
    BY <1>1, <1>2, <1>3 DEF Core, Listed, Jobs
  <2>2. threxe[t] = e
    BY <2>1 DEF BlockAlone
  <2> QED
    BY <2>1, <2>2
<1> QED
  BY <1>1, <1>3 DEF Core, Listed

\* What a step does to Fresh when nobody new has begun
LEMMA FreshStays ==
  ASSUME Fresh, begun' \subseteq begun,
         \A e \in begun' : exestate'[e] # "idle" /\
                           (In(jobqueue'[BasePrio[e]], e) => In(jobqueue[BasePrio[e]], e)),
         \A e \in Exe : exestate'[e] \in {"suspended", "sleep"} => e \in Blocking
  PROVE  Fresh'
BY DEF Fresh

LEMMA FreshStart ==
  ASSUME Core, Fresh, NEW e \in Exe, exestate[e] # "active", Activate(e), begun' \subseteq begun,
         thrstate[BasePrio[e]] = "idle" \/ e \notin begun'
  PROVE  Fresh'
<1> DEFINE t == BasePrio[e]
<1>1. /\ t \in Thread /\ jobqueue \in [Thread -> Seq(Exe)]
      /\ \A x \in Exe : BasePrio[x] \in Thread
      /\ exestate \in [Exe -> {"idle", "active", "suspended", "sleep"}]
      /\ exestate' = [exestate EXCEPT ![e] = "active"]
  BY Base DEF Core, ThreadType, Activate
<1>2. /\ exestate'[e] = "active" /\ \A x \in Exe \ {e} : exestate'[x] = exestate[x]
  BY <1>1
<1>3. ASSUME NEW x \in begun', In(jobqueue'[BasePrio[x]], x)
      PROVE  In(jobqueue[BasePrio[x]], x)
  <2>1. x \in Exe /\ x \in begun
    BY DEF Fresh
  <2>2. CASE thrstate[t] = "idle"
    <3>1. jobqueue' = jobqueue
      BY <2>2 DEF Activate
    <3> QED
      BY <1>3, <3>1
  <2>3. CASE thrstate[t] # "idle"
    <3>1. jobqueue' = [jobqueue EXCEPT ![t] = Append(jobqueue[t], e)] /\ x # e
      BY <2>3, JobRoom DEF Activate
    <3>2. CASE BasePrio[x] # t
      BY <1>1, <1>3, <2>1, <3>1, <3>2
    <3>3. CASE BasePrio[x] = t
      <4>1. jobqueue[t] \in Seq(Exe) /\ Distinct(jobqueue[t]) /\ ~In(jobqueue[t], e)
        BY <1>1 DEF Core, Jobs
      <4>2. In(Append(jobqueue[t], e), x) => In(jobqueue[t], x)
        BY <2>1, <3>1, <4>1, Appended
      <4> QED
        BY <1>1, <1>3, <3>1, <3>3, <4>2
    <3> QED
      BY <3>2, <3>3
  <2> QED
    BY <2>2, <2>3
<1>4. \A x \in begun' : exestate'[x] # "idle"
  BY <1>2 DEF Fresh
<1>5. \A x \in Exe : exestate'[x] \in {"suspended", "sleep"} => x \in Blocking
  BY <1>2 DEF Fresh
<1> QED
  BY <1>3, <1>4, <1>5, FreshStays

\* The job that follows has not begun, and what leaves the thread is not a job of it.
LEMMA FreshLeave ==
  ASSUME NEW r, Inv(r), Fresh, pc = "app", NEW x \in {"idle", "suspended", "sleep"},
         exestate' = [exestate EXCEPT ![Me] = x], x # "idle" => Me \in Blocking,
         NEW kept, Vacate(current, kept),
         kept = IF x = "idle" THEN begun \ {Me} ELSE begun
  PROVE  /\ Fresh'
         /\ \A e \in begun \ begun' : e = Me /\ x = "idle"
<1>1. Core /\ Calling
  BY DEF Inv
<1>2. /\ current \in Thread /\ Me \in Exe /\ BasePrio[Me] = current
      /\ jobqueue[current] \in Seq(Exe) /\ Distinct(jobqueue[current])
      /\ jobqueue \in [Thread -> Seq(Exe)]
      /\ \A e \in Exe : BasePrio[e] \in Thread
  BY <1>1, Caller, Base DEF Core, ThreadType, Jobs
<1>3. exestate'[Me] = x /\ \A e \in Exe \ {Me} : exestate'[e] = exestate[e]
  BY <1>1, <1>2 DEF Core, ThreadType
<1> DEFINE j == Head(jobqueue[current])
<1>4. \/ jobqueue' = jobqueue /\ begun' = kept
      \/ /\ jobqueue[current] # <<>> /\ begun' = kept \ {j}
         /\ jobqueue' = [jobqueue EXCEPT ![current] = Tail(jobqueue[current])]
  BY DEF Vacate
<1>5. jobqueue[current] # <<>> =>
        /\ j \in Exe /\ In(jobqueue[current], j) /\ j \notin begun
        /\ \A e \in Exe : In(Tail(jobqueue[current]), e) => In(jobqueue[current], e)
  <2> SUFFICES ASSUME jobqueue[current] # <<>>
               PROVE  /\ j \in Exe /\ In(jobqueue[current], j) /\ j \notin begun
                      /\ \A e \in Exe : In(Tail(jobqueue[current]), e) => In(jobqueue[current], e)
    OBVIOUS
  <2>1. j \in Exe /\ In(jobqueue[current], j)
    BY <1>2, FirstOf
  <2>2. BasePrio[j] = current
    BY <1>1, <1>2, <2>1 DEF Core, Jobs
  <2>3. j \notin begun
    BY <2>1, <2>2 DEF Fresh
  <2> QED
    BY <1>2, <2>1, <2>3, RestOf
<1> HIDE DEF j
<1>6. begun' = kept /\ kept \subseteq begun
  BY <1>4, <1>5
<1>7. ASSUME NEW e \in begun', In(jobqueue'[BasePrio[e]], e)
      PROVE  In(jobqueue[BasePrio[e]], e)
  <2>1. e \in Exe
    BY <1>6 DEF Fresh
  <2>2. CASE BasePrio[e] = current
    <3>1. CASE jobqueue' = jobqueue
      BY <1>7, <3>1
    <3>2. CASE /\ jobqueue[current] # <<>>
               /\ jobqueue' = [jobqueue EXCEPT ![current] = Tail(jobqueue[current])]
      <4>1. jobqueue'[current] = Tail(jobqueue[current])
        BY <1>2, <3>2
      <4>2. In(Tail(jobqueue[current]), e)
        BY <1>7, <2>2, <4>1
      <4> QED
        BY <1>5, <2>1, <2>2, <3>2, <4>2
    <3> QED
      BY <1>4, <3>1, <3>2
  <2>3. CASE BasePrio[e] # current
    BY <1>2, <1>4, <1>7, <2>1, <2>3
  <2> QED
    BY <2>2, <2>3
<1>8. \A e \in begun' : exestate'[e] # "idle"
  BY <1>3, <1>6 DEF Fresh
<1>9. \A e \in Exe : exestate'[e] \in {"suspended", "sleep"} => e \in Blocking
  BY <1>3 DEF Fresh
<1>10. Fresh'
  BY <1>6, <1>7, <1>8, <1>9, FreshStays
<1>11. \A e \in begun \ begun' : e = Me /\ x = "idle"
  BY <1>6
<1> QED
  BY <1>10, <1>11

\* A step of ContextKept's action
Kept == \A e \in Exe : e \in begun /\ e \notin begun' => exestate'[e] = "idle"

LEMMA KeptStep ==
  ASSUME BlockAlone, Disciplined, NEW r, Inv(r), Fresh, [Next]_vars
  PROVE  Fresh' /\ Kept
<1>1. Core /\ Calling /\ Sleepers
  BY DEF Inv
<1>2. ASSUME NEW e \in Exe, Spawn(e) PROVE Fresh' /\ Kept
  <2>1. exestate[e] = "idle" /\ Activate(e) /\ e \notin begun
    BY <1>2 DEF Spawn, Fresh
  <2>2. begun' = begun
    BY <1>2, <2>1 DEF Spawn
  <2> QED
    BY <1>1, <2>1, <2>2, FreshStart DEF Kept
<1>3. ASSUME NEW e \in Exe, Resume(e) PROVE Fresh' /\ Kept
  <2>1. exestate[e] = "suspended" /\ Activate(e) /\ begun' = begun /\ e \in Blocking
    BY <1>3 DEF Resume, Fresh
  <2>2. thrstate[BasePrio[e]] = "idle"
    BY <1>1, <2>1, OwnThread
  <2> QED
    BY <1>1, <2>1, <2>2, FreshStart DEF Kept
<1>4. ASSUME WakeUp PROVE Fresh' /\ Kept
  <2> DEFINE e == Head(sleepqueue).exe
  <2>1. sleepqueue # <<>> /\ Activate(e) /\ begun' = begun
    BY <1>4 DEF WakeUp, IsDue
  <2>2. e \in Exe /\ exestate[e] = "sleep"
    BY <1>1, <2>1, FirstSleeper
  <2> HIDE DEF e
  <2>3. e \in Blocking
    BY <2>2 DEF Fresh
  <2>4. thrstate[BasePrio[e]] = "idle"
    BY <1>1, <2>2, <2>3, OwnThread
  <2> QED
    BY <1>1, <2>1, <2>2, <2>4, FreshStart DEF Kept
<1>5. ASSUME Exit PROVE Fresh' /\ Kept
  <2>1. pc = "app" /\ OwnsNone
    BY <1>5 DEF Exit, Calls, Disciplined
  <2>2. semtaken[Me] = None
    BY <2>1, HoldsNone DEF Inv
  <2>3. exestate' = [exestate EXCEPT ![Me] = "idle"] /\ Vacate(current, begun \ {Me})
    BY <1>5, <2>2 DEF Exit
  <2>4. Fresh' /\ \A e \in begun \ begun' : e = Me
    BY <2>1, <2>3, FreshLeave
  <2>5. Me \in Exe /\ exestate'[Me] = "idle"
    BY <2>1, <2>3, MeActive
  <2> QED
    BY <2>4, <2>5 DEF Kept
<1>6. ASSUME Suspend \/ \E n \in 1 .. MaxSleep : Sleep(n) \/ SleepUntil(now + n)
      PROVE  Fresh' /\ Kept
  <2>1. /\ pc = "app" /\ Me \in Blocking /\ Vacate(current, begun)
        /\ \E x \in {"suspended", "sleep"} : exestate' = [exestate EXCEPT ![Me] = x]
    BY <1>6 DEF Suspend, Sleep, SleepUntil, BlockUntil, Syscall, Calls, MayBlock
  <2>2. PICK x \in {"suspended", "sleep"} : exestate' = [exestate EXCEPT ![Me] = x]
    BY <2>1
  <2>3. Fresh' /\ \A e \in begun \ begun' : x = "idle"
    BY <2>1, <2>2, FreshLeave
  <2> QED
    BY <2>3 DEF Kept
<1>7. ASSUME Dispatch PROVE Fresh' /\ Kept
  <2> DEFINE t == Head(threadqueue)
  <2>1. t \in Thread /\ threxe[t] \in Exe /\ threxe[t] # None
    BY <1>1, FirstOccupied
  <2>2. /\ begun' = begun \union {threxe[t]} /\ exestate' = exestate /\ jobqueue' = jobqueue
    BY <1>7 DEF Dispatch
  <2> HIDE DEF t
  <2>3. exestate[threxe[t]] = "active" /\ ~In(jobqueue[t], threxe[t]) /\ BasePrio[threxe[t]] = t
    BY <1>1, <2>1 DEF Core, Jobs, Listed
  <2> QED
    BY <2>1, <2>2, <2>3 DEF Fresh, Kept
<1>8. ASSUME UNCHANGED <<exestate, begun, jobqueue>> PROVE Fresh' /\ Kept
  BY <1>8 DEF Fresh, Kept
<1>9. \/ \E e \in Exe : Spawn(e) \/ Resume(e)
      \/ WakeUp \/ Exit \/ Dispatch
      \/ Suspend \/ \E n \in 1 .. MaxSleep : Sleep(n) \/ SleepUntil(now + n)
      \/ UNCHANGED <<exestate, begun, jobqueue>>
  <2>1. CASE UNCHANGED vars
    BY <2>1 DEF vars, exeVars, thrVars
  <2>2. CASE Yield \/ Tick \/ TimerInterrupt \/ WokenUp
    BY <2>2 DEF Yield, Tick, TimerInterrupt, WokenUp, exeVars, thrVars
  <2>3. CASE Null
    BY <2>3 DEF Null, Panic, exeVars, thrVars
  <2>4. ASSUME NEW s \in Sem, CreateSemaphore(s) \/ DestroySemaphore(s)
                              \/ \E e \in Exe : UsesSemaphore(s, e)
        PROVE  UNCHANGED <<exestate, begun, jobqueue>>
    BY <2>4 DEF CreateSemaphore, DestroySemaphore, UsesSemaphore, exeVars, thrVars
  <2>5. ASSUME NEW s \in Sem, Wait(s) \/ Signal(s)
        PROVE  UNCHANGED <<exestate, begun, jobqueue>>
    BY <2>5 DEF Wait, Signal, Panic, exeVars, thrVars
  <2>6. \/ Next \/ UNCHANGED vars
    OBVIOUS
  <2> QED
    BY <2>1, <2>2, <2>3, <2>4, <2>5, <2>6 DEF Next, Call
<1> QED
  BY <1>2, <1>3, <1>4, <1>5, <1>6, <1>7, <1>8, <1>9

\* "Another executable can call dv_resume() to allow execution to continue": who has begun
\* goes on where it stopped until it ends, if those that block have threads of their own.
THEOREM ContextsKept ==
  ASSUME BlockAlone, Disciplined
  PROVE  Spec => ContextKept
<1>1. Init => IInv /\ Fresh
  <2>1. Init => Fresh
    BY DEF Init, Fresh
  <2> QED
    BY <2>1, InitHolds DEF IInv
<1>2. IInv /\ Fresh /\ [Next]_vars => IInv' /\ Fresh' /\ [Kept]_vars
  BY StepKeeps, StutterKeeps, KeptStep DEF IInv
<1>3. Spec => [][Kept]_vars
  BY <1>1, <1>2, PTL DEF Spec
<1> QED
  BY <1>3 DEF ContextKept, Kept

-----------------------------------------------------------------------------
(* Nobody oversleeps                                                       *)

\* The first to wake stands first; while the interrupt is awaited, the timer will match
\* no later than MinSleep after its time.
Sorted == \A i, j \in DOMAIN sleepqueue : i < j => sleepqueue[i].key <= sleepqueue[j].key

Awaited == sleepqueue # <<>> /\ pc # "wakeup" /\ ~irq =>
             \E m \in Nat : /\ m > now /\ m % Wrap = compare
                            /\ m <= Head(sleepqueue).key + MinSleep

\* dv_set_system_timer_alarm() sets a time that is still to come, and not too late.
LEMMA AlarmInTime ==
  ASSUME NEW n \in Nat, NEW t \in Int, t >= n
  PROVE  /\ Alarm(n, t) \in Nat /\ Alarm(n, t) >= n + MinSleep
         /\ Alarm(n, t) <= t + MinSleep
<1>1. MinSleep \in Nat /\ Wrap \in Nat /\ Wrap > 2 * MinSleep
  BY NumberAssumption
<1>2. Wrap \div 2 \in Nat /\ Wrap \div 2 >= MinSleep /\ 2 * (Wrap \div 2) <= Wrap
  BY <1>1
<1>3. CASE t <= n + MinSleep
  BY <1>1, <1>3 DEF Alarm
<1>4. CASE ~(t <= n + MinSleep) /\ 4 * (t - n) > 3 * Wrap
  <2>1. Alarm(n, t) = n + Wrap \div 2
    BY <1>4 DEF Alarm
  <2> DEFINE h == Wrap \div 2
  <2>2. h \in Nat /\ h >= MinSleep /\ 2 * h <= Wrap
    BY <1>2
  <2> HIDE DEF h
  <2>3. n + h <= t
    BY <1>1, <1>4, <2>2
  <2> QED
    BY <1>1, <2>1, <2>2, <2>3 DEF h
<1>5. CASE ~(t <= n + MinSleep) /\ ~(4 * (t - n) > 3 * Wrap)
  BY <1>1, <1>5 DEF Alarm
<1> QED
  BY <1>3, <1>4, <1>5

LEMMA SetInTime ==
  ASSUME now \in Nat, NEW t \in Int, t >= now + MinSleep, SetAlarm(t)
  PROVE  \E m \in Nat : m > now' /\ m % Wrap = compare' /\ m <= t + MinSleep
<1>1. MinSleep \in Nat /\ Drift \in Nat /\ Drift < MinSleep
  BY NumberAssumption
<1>2. PICK read, written \in 0 .. Drift :
        now' = now + read + written /\ compare' = Alarm(now + read, t) % Wrap
  BY DEF SetAlarm
<1> DEFINE n == now + read
           m == Alarm(n, t)
<1>3. n \in Nat /\ t >= n
  BY <1>1
<1> HIDE DEF n
<1>4. m \in Nat /\ m >= n + MinSleep /\ m <= t + MinSleep
  BY <1>3, AlarmInTime
<1> HIDE DEF m
<1>5. m > now' /\ m % Wrap = compare'
  BY <1>1, <1>2, <1>3, <1>4 DEF m, n
<1> QED
  BY <1>4, <1>5

\* dv_dllinserttime() keeps the order.
LEMMA StillSorted ==
  ASSUME Sleepers, Sorted, NEW e \in Exe, NEW t \in Int
  PROVE  LET n == InsertTime(e, t) IN
         /\ \A i, j \in DOMAIN n : i < j => n[i].key <= n[j].key
         /\ n # <<>>
         /\ Head(n) = [exe |-> e, key |-> t] \/ (sleepqueue # <<>> /\ Head(n) = Head(sleepqueue))
<1> DEFINE q == sleepqueue
           S == {i \in DOMAIN q : q[i].key > t} \union {Len(q) + 1}
           k == Min(S)
           d == [exe |-> e, key |-> t]
           n == InsertAt(q, k, d)
           R == [exe : Exe, key : Int]
<1>1. q \in Seq(R) /\ Len(q) \in Nat /\ DOMAIN q = 1 .. Len(q)
  BY DEF Sleepers
<1>2. \A i \in 1 .. Len(q) : q[i].key \in Int
  <2>1. \A S1, q1 : q1 \in Seq(S1) => \A j \in 1 .. Len(q1) : q1[j] \in S1
    OBVIOUS
  <2>2. \A i \in 1 .. Len(q) : q[i] \in R
    <3> HIDE DEF q, R
    <3> QED
      BY <1>1, <2>1
  <2> QED
    BY <2>2
<1>3. \A i, j \in 1 .. Len(q) : i < j => q[i].key <= q[j].key
  BY <1>1 DEF Sorted
<1>4. /\ k \in 1 .. Len(q) + 1
      /\ \A i \in 1 .. Len(q) : i < k => q[i].key <= t
      /\ \A i \in 1 .. Len(q) : i >= k => q[i].key > t
  <2>1. S \in SUBSET Nat /\ S # {} /\ S \subseteq 1 .. Len(q) + 1
    BY <1>1
  <2>2. k \in S /\ \A y \in S : k <= y
    <3> HIDE DEF S
    <3> QED
      BY <2>1, MinOf
  <2>3. k \in 1 .. Len(q) + 1
    BY <2>1, <2>2
  <2>4. k = Len(q) + 1 \/ (k \in 1 .. Len(q) /\ q[k].key > t)
    BY <1>1, <2>2
  <2>5. \A i \in 1 .. Len(q) : q[i].key > t => k <= i
    BY <1>1, <2>2
  <2> HIDE DEF k, S, q
  <2>6. ASSUME NEW i \in 1 .. Len(q), i < k PROVE q[i].key <= t
    BY <1>1, <1>2, <2>3, <2>5, <2>6
  <2>7. ASSUME NEW i \in 1 .. Len(q), i >= k PROVE q[i].key > t
    <3>1. k \in 1 .. Len(q) /\ q[k].key > t /\ (i = k \/ k < i)
      BY <1>1, <2>3, <2>4, <2>7
    <3>2. q[k].key <= q[i].key
      BY <1>2, <1>3, <3>1
    <3> QED
      BY <1>2, <3>1, <3>2
  <2> QED
    BY <2>3, <2>6, <2>7
<1>5. InsertTime(e, t) = n
  BY DEF InsertTime
<1> HIDE DEF k, S
<1>6. d \in R /\ d.key = t
  OBVIOUS
<1> HIDE DEF d, R, q
<1>7. /\ Len(n) = Len(q) + 1 /\ n \in Seq(R)
      /\ \A i \in 1 .. Len(q) + 1 :
           n[i] = IF i < k THEN q[i] ELSE IF i = k THEN d ELSE q[i - 1]
  BY <1>1, <1>4, <1>6, InsertedAny
<1> HIDE DEF n
<1>8. DOMAIN n = 1 .. Len(q) + 1 /\ n # <<>> /\ Head(n) = n[1]
  BY <1>1, <1>7
<1>9. ASSUME NEW i \in DOMAIN n, NEW j \in DOMAIN n, i < j PROVE n[i].key <= n[j].key
  <2>1. CASE i < k
    <3>1. n[i] = q[i] /\ i \in 1 .. Len(q) /\ q[i].key <= t /\ q[i].key \in Int
      BY <1>1, <1>2, <1>4, <1>7, <1>8, <2>1
    <3>2. CASE j = k
      BY <1>6, <1>7, <1>8, <3>1, <3>2
    <3>3. CASE j < k
      <4>1. n[j] = q[j] /\ j \in 1 .. Len(q)
        BY <1>1, <1>4, <1>7, <1>8, <3>3
      <4> QED
        BY <1>3, <1>9, <3>1, <4>1
    <3>4. CASE j > k
      <4>1. n[j] = q[j - 1] /\ j - 1 \in 1 .. Len(q) /\ j - 1 >= k
        BY <1>1, <1>4, <1>7, <1>8, <3>4
      <4>2. q[j - 1].key > t /\ q[j - 1].key \in Int
        BY <1>2, <1>4, <4>1
      <4> QED
        BY <3>1, <4>1, <4>2
    <3> QED
      BY <1>4, <1>8, <3>2, <3>3, <3>4
  <2>2. CASE i >= k
    <3>1. n[j] = q[j - 1] /\ j - 1 \in 1 .. Len(q) /\ j - 1 >= k
      BY <1>1, <1>4, <1>7, <1>8, <1>9, <2>2
    <3>2. q[j - 1].key > t /\ q[j - 1].key \in Int
      BY <1>2, <1>4, <3>1
    <3>3. CASE i = k
      BY <1>6, <1>7, <1>8, <3>1, <3>2, <3>3
    <3>4. CASE i # k
      <4>1. n[i] = q[i - 1] /\ i - 1 \in 1 .. Len(q) /\ i - 1 < j - 1
        BY <1>1, <1>4, <1>7, <1>8, <1>9, <2>2, <3>4
      <4> QED
        BY <1>3, <3>1, <4>1
    <3> QED
      BY <3>3, <3>4
  <2> QED
    BY <1>4, <1>8, <2>1, <2>2
<1>10. Head(n) = d \/ (q # <<>> /\ Head(n) = Head(q))
  <2>1. CASE k = 1
    BY <1>7, <1>8, <2>1
  <2>2. CASE k # 1
    <3>1. 1 < k /\ 1 \in 1 .. Len(q) /\ n[1] = q[1]
      BY <1>1, <1>4, <1>7, <2>2
    <3> QED
      BY <1>1, <1>8, <3>1
  <2> QED
    BY <2>1, <2>2
<1> QED
  BY <1>5, <1>8, <1>9, <1>10 DEF d, q

LEMMA TimeKept ==
  ASSUME Disciplined, NEW r, Inv(r), Sorted, Awaited, [Next]_vars
  PROVE  Sorted' /\ Awaited'
<1>1. Core /\ Calling /\ Sleepers /\ now \in Nat /\ MinSleep \in Nat
  BY NumberAssumption DEF Inv, Sleepers
<1>2. ASSUME Tick PROVE Sorted' /\ Awaited'
  <2>1. /\ now' = now + 1 /\ irq' = (irq \/ Matches(now + 1))
        /\ UNCHANGED <<sleepqueue, compare, pc>>
    BY <1>2 DEF Tick
  <2>2. Sorted'
    BY <2>1 DEF Sorted
  <2>3. ASSUME sleepqueue # <<>>, pc # "wakeup", ~irq'
        PROVE  \E m \in Nat : /\ m > now' /\ m % Wrap = compare
                              /\ m <= Head(sleepqueue).key + MinSleep
    <3>1. ~irq /\ ~Matches(now + 1)
      BY <2>1, <2>3
    <3>2. PICK m \in Nat : /\ m > now /\ m % Wrap = compare
                           /\ m <= Head(sleepqueue).key + MinSleep
      BY <2>3, <3>1 DEF Awaited
    <3>3. m # now + 1
      <4> SUFFICES ASSUME m = now + 1 PROVE FALSE
        OBVIOUS
      <4>1. m \in now + 1 .. now + 1
        BY <1>1
      <4> QED
        BY <3>1, <3>2, <4>1 DEF Matches
    <3>4. m > now'
      BY <1>1, <2>1, <3>2, <3>3
    <3> QED
      BY <3>2, <3>4
  <2>4. Awaited'
    BY <2>1, <2>3 DEF Awaited
  <2> QED
    BY <2>2, <2>4
<1>3. ASSUME NEW n \in 1 .. MaxSleep, Sleep(n) \/ SleepUntil(now + n)
      PROVE  Sorted' /\ Awaited'
  <2> DEFINE t == now + n
  <2>1. /\ t \in Int /\ t >= now + MinSleep /\ BlockUntil(t)
    BY <1>1, <1>3 DEF Sleep, SleepUntil
  <2> HIDE DEF t
  <2>2. pc = "app" /\ pc' = "dispatch" /\ sleepqueue' = InsertTime(Me, t)
    BY <2>1 DEF BlockUntil, Syscall, Calls
  <2>3. Me \in Exe /\ exestate[Me] = "active"
    BY <2>2, MeActive
  <2>4. /\ \A i, j \in DOMAIN sleepqueue' : i < j => sleepqueue'[i].key <= sleepqueue'[j].key
        /\ \/ Head(sleepqueue') = [exe |-> Me, key |-> t]
           \/ sleepqueue # <<>> /\ Head(sleepqueue') = Head(sleepqueue)
    BY <1>1, <2>1, <2>2, <2>3, StillSorted
  <2>5. Sorted'
    BY <2>4 DEF Sorted
  <2>6. CASE Head(sleepqueue') = [exe |-> Me, key |-> t]
    <3>1. SetAlarm(t) /\ Head(sleepqueue').key = t
      BY <2>1, <2>6 DEF BlockUntil
    <3>2. \E m \in Nat : m > now' /\ m % Wrap = compare' /\ m <= t + MinSleep
      BY <1>1, <2>1, <3>1, SetInTime
    <3> QED
      BY <2>5, <3>1, <3>2 DEF Awaited
  <2>7. CASE sleepqueue # <<>> /\ Head(sleepqueue') = Head(sleepqueue)
    <3>1. Head(sleepqueue).exe # Me
      BY <1>1, <2>3, <2>7, FirstSleeper
    <3>2. UNCHANGED <<now, compare, irq>>
      BY <2>1, <2>7, <3>1 DEF BlockUntil, timeVars
    <3> QED
      BY <2>2, <2>5, <2>7, <3>2 DEF Awaited
  <2> QED
    BY <2>4, <2>6, <2>7
<1>4. ASSUME WakeUp PROVE Sorted' /\ Awaited'
  <2>1. sleepqueue # <<>> /\ sleepqueue' = Tail(sleepqueue) /\ pc' = "wakeup"
    BY <1>4 DEF WakeUp, IsDue
  <2>2. sleepqueue \in Seq([exe : Exe, key : Int])
    BY <1>1 DEF Sleepers
  <2>3. ASSUME NEW i \in DOMAIN sleepqueue', NEW j \in DOMAIN sleepqueue', i < j
        PROVE  sleepqueue'[i].key <= sleepqueue'[j].key
    <3>1. /\ i + 1 \in DOMAIN sleepqueue /\ j + 1 \in DOMAIN sleepqueue /\ i + 1 < j + 1
          /\ sleepqueue'[i] = sleepqueue[i + 1] /\ sleepqueue'[j] = sleepqueue[j + 1]
      BY <2>1, <2>2, <2>3
    <3> QED
      BY <3>1 DEF Sorted
  <2> QED
    BY <2>1, <2>3 DEF Sorted, Awaited
<1>5. ASSUME WokenUp PROVE Sorted' /\ Awaited'
  <2>1. sleepqueue' = sleepqueue /\ ~IsDue
    BY <1>5 DEF WokenUp
  <2>2. Sorted'
    BY <2>1 DEF Sorted
  <2>3. ASSUME sleepqueue # <<>>
        PROVE  \E m \in Nat : /\ m > now' /\ m % Wrap = compare'
                              /\ m <= Head(sleepqueue).key + MinSleep
    <3> DEFINE t == Head(sleepqueue).key
    <3>1. t \in Int
      <4>1. sleepqueue \in Seq([exe : Exe, key : Int])
        BY <1>1 DEF Sleepers
      <4>2. 1 \in DOMAIN sleepqueue /\ Head(sleepqueue) = sleepqueue[1]
        BY <2>3, <4>1
      <4>3. \A S, q : q \in Seq(S) /\ 1 \in DOMAIN q => q[1] \in S
        OBVIOUS
      <4>4. sleepqueue[1] \in [exe : Exe, key : Int]
        BY <4>1, <4>2, <4>3
      <4> QED
        BY <4>2, <4>4
    <3>2. SetAlarm(t) /\ ~(t <= now + MinSleep)
      BY <1>5, <2>1, <2>3 DEF WokenUp, IsDue
    <3>3. t >= now + MinSleep
      BY <1>1, <3>1, <3>2
    <3> QED
      BY <1>1, <3>1, <3>2, <3>3, SetInTime
  <2> QED
    BY <2>1, <2>2, <2>3 DEF Awaited
<1>6. ASSUME TimerInterrupt PROVE Sorted' /\ Awaited'
  BY <1>6 DEF TimerInterrupt, Sorted, Awaited
<1>7. ASSUME UNCHANGED <<sleepqueue, timeVars>>, pc # "wakeup" \/ pc' = pc
      PROVE  Sorted' /\ Awaited'
  BY <1>7 DEF Sorted, Awaited, timeVars
<1>8. \/ Tick \/ \E n \in 1 .. MaxSleep : Sleep(n) \/ SleepUntil(now + n)
      \/ WakeUp \/ WokenUp \/ TimerInterrupt
      \/ UNCHANGED <<sleepqueue, timeVars>> /\ (pc # "wakeup" \/ pc' = pc)
  <2>1. CASE UNCHANGED vars
    BY <2>1 DEF vars
  <2>2. ASSUME NEW e \in Exe, Spawn(e) \/ Resume(e)
        PROVE  UNCHANGED <<sleepqueue, timeVars>> /\ pc # "wakeup"
    BY <2>2 DEF Spawn, Resume, Syscall, Calls
  <2>3. ASSUME NEW s \in Sem, CreateSemaphore(s) \/ DestroySemaphore(s)
                              \/ \E e \in Exe : UsesSemaphore(s, e)
        PROVE  UNCHANGED <<sleepqueue, timeVars>> /\ pc # "wakeup"
    BY <2>3 DEF CreateSemaphore, DestroySemaphore, UsesSemaphore, Syscall, Calls
  <2>4. ASSUME NEW s \in Sem, Wait(s) \/ Signal(s)
        PROVE  UNCHANGED <<sleepqueue, timeVars>> /\ pc # "wakeup"
    BY <2>4 DEF Wait, Signal, Panic, Calls
  <2>5. CASE Null \/ Exit
    BY <2>5 DEF Null, Exit, Panic, Calls
  <2>6. CASE Suspend \/ Yield
    BY <2>6 DEF Suspend, Yield, Syscall, Calls
  <2>7. CASE Dispatch
    BY <2>7 DEF Dispatch
  <2>8. Next \/ UNCHANGED vars
    OBVIOUS
  <2> QED
    BY <2>1, <2>2, <2>3, <2>4, <2>5, <2>6, <2>7, <2>8 DEF Next, Call
<1> QED
  BY <1>2, <1>3, <1>4, <1>5, <1>6, <1>7, <1>8

LEMMA InTimeAlways == ASSUME IInv, Sorted, Awaited PROVE NotOversleeping
<1> SUFFICES ASSUME NEW i \in DOMAIN sleepqueue, now >= sleepqueue[i].key + MinSleep,
                    ~irq, pc # "wakeup"
             PROVE  FALSE
  BY DEF NotOversleeping
<1>1. sleepqueue \in Seq([exe : Exe, key : Int]) /\ now \in Nat /\ MinSleep \in Nat
  BY NumberAssumption DEF IInv, Inv, Sleepers
<1>2. /\ sleepqueue # <<>> /\ 1 \in DOMAIN sleepqueue /\ Head(sleepqueue) = sleepqueue[1]
      /\ i = 1 \/ 1 < i
  BY <1>1
<1>3. \A S, q : q \in Seq(S) => \A j \in DOMAIN q : q[j] \in S
  OBVIOUS
<1>4. sleepqueue[1] \in [exe : Exe, key : Int] /\ sleepqueue[i] \in [exe : Exe, key : Int]
  BY <1>1, <1>2, <1>3
<1>5. sleepqueue[1].key \in Int /\ sleepqueue[i].key \in Int
  BY <1>4
<1>6. sleepqueue[1].key <= sleepqueue[i].key
  BY <1>2, <1>5 DEF Sorted
<1>7. PICK m \in Nat : m > now /\ m <= sleepqueue[1].key + MinSleep
  BY <1>2 DEF Awaited
<1> QED
  BY <1>1, <1>5, <1>6, <1>7

\* Nobody oversleeps, for every width of the timer and every drift that the kernel's
\* minimum sleep allows: the compare register never names a time that has gone
\* (dv_set_system_timer_alarm()).
THEOREM NobodyOversleeps ==
  ASSUME Disciplined
  PROVE  Spec => []NotOversleeping
<1>1. Init => IInv /\ Sorted /\ Awaited
  <2>1. Init => Sorted /\ Awaited
    BY DEF Init, Sorted, Awaited
  <2> QED
    BY <2>1, InitHolds DEF IInv
<1>2. IInv /\ Sorted /\ Awaited /\ [Next]_vars => IInv' /\ Sorted' /\ Awaited'
  BY StepKeeps, StutterKeeps, TimeKept DEF IInv
<1>3. IInv /\ Sorted /\ Awaited => NotOversleeping
  BY InTimeAlways
<1> QED
  BY <1>1, <1>2, <1>3, PTL DEF Spec
=============================================================================
