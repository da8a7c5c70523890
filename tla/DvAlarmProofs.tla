--------------------------- MODULE DvAlarmProofs ---------------------------
(***************************************************************************)
(* Theorems of DvAlarm, for every number of counters and alarms, every     *)
(* width of a counter and every depth of nesting.                          *)
(***************************************************************************)
EXTENDS DvAlarm, FiniteSetTheorems, SequenceTheorems, WellFoundedInduction, TLAPS

USE AlarmAssumption

-----------------------------------------------------------------------------
(* Numbers and walks                                                       *)

LEMMA MinOf ==
  ASSUME NEW T \in SUBSET Nat, T # {}
  PROVE  Min(T) \in T /\ \A y \in T : Min(T) <= y
<1>1. PICK d \in T : \A c \in T : ~(<<c, d>> \in OpToRel(<, Nat))
  BY NatLessThanWellFounded, WFMin
<1>2. \A c \in T : c \in Nat /\ d \in Nat /\ ~(c < d)
  BY <1>1 DEF OpToRel
<1>3. \A c \in T : d <= c
  BY <1>2
<1> QED
  BY <1>3 DEF Min

Steps == 0 .. Cardinality(Alarm)
Link  == Alarm \union {None}

LEMMA StepsFinite == Cardinality(Alarm) \in Nat
BY FS_CardinalityType

\* f follows the links nx from h for k steps.
WalksTo(k, f, h, nx) ==
  /\ f \in [0 .. k -> Link] /\ f[0] = h
  /\ \A n \in 1 .. k : f[n] = IF f[n - 1] = None THEN None ELSE nx[f[n - 1]]

LEMMA WalkExists ==
  ASSUME NEW h \in Link, NEW nx \in [Alarm -> Link], NEW k \in Nat
  PROVE  \E f : WalksTo(k, f, h, nx)
<1> DEFINE T == {n \in Nat : ~\E f : WalksTo(n, f, h, nx)}
<1> SUFFICES ASSUME T # {} PROVE FALSE
  OBVIOUS
<1>1. PICK m \in T : \A y \in T : m <= y
  BY MinOf
<1>2. m # 0
  <2>1. WalksTo(0, [i \in 0 .. 0 |-> h], h, nx)
    BY DEF WalksTo
  <2> QED
    BY <1>1, <2>1
<1>3. m \in Nat /\ m - 1 \in Nat /\ m - 1 \notin T
  BY <1>1, <1>2
<1>4. PICK f : WalksTo(m - 1, f, h, nx)
  BY <1>3
<1> DEFINE x == IF f[m - 1] = None THEN None ELSE nx[f[m - 1]]
           g == [i \in 0 .. m |-> IF i = m THEN x ELSE f[i]]
<1>5. \A i \in 0 .. m - 1 : f[i] \in Link
  BY <1>3, <1>4 DEF WalksTo
<1>6. x \in Link
  <2>1. f[m - 1] \in Link
    BY <1>3, <1>5
  <2> QED
    BY <2>1 DEF Link
<1> HIDE DEF x
<1>7. g \in [0 .. m -> Link]
  BY <1>3, <1>5, <1>6
<1>8. g[0] = h
  BY <1>2, <1>3, <1>4 DEF WalksTo
<1>9. ASSUME NEW n \in 1 .. m
      PROVE  g[n] = IF g[n - 1] = None THEN None ELSE nx[g[n - 1]]
  <2>0. n - 1 \in 0 .. m - 1 /\ n - 1 # m /\ n \in 0 .. m /\ n - 1 \in 0 .. m
    BY <1>3
  <2>1. g[n - 1] = f[n - 1]
    BY <2>0
  <2>2. CASE n = m
    BY <2>0, <2>1, <2>2 DEF x
  <2>3. CASE n # m
    <3>1. n \in 1 .. m - 1
      BY <1>3, <2>3
    <3> QED
      BY <1>4, <2>0, <2>1, <2>3, <3>1 DEF WalksTo
  <2> QED
    BY <2>2, <2>3
<1>10. WalksTo(m, g, h, nx)
  BY <1>7, <1>8, <1>9 DEF WalksTo
<1> QED
  BY <1>1, <1>10

\* The walk of DvAlarm along the list of a counter.
LEMMA HopWalks ==
  ASSUME head \in [Counter -> Link], nextalarm \in [Alarm -> Link], NEW c \in Counter
  PROVE  WalksTo(Cardinality(Alarm), Hop(c), head[c], nextalarm)
<1> DEFINE N == Cardinality(Alarm)
           Body(f) == [n \in 0 .. N |->
                         IF n = 0 THEN head[c]
                         ELSE IF f[n - 1] = None THEN None ELSE nextalarm[f[n - 1]]]
<1>1. N \in Nat
  BY StepsFinite
<1>2. PICK g : WalksTo(N, g, head[c], nextalarm)
  BY <1>1, WalkExists
<1>3. g = Body(g)
  <2>1. \A n \in 0 .. N : n # 0 => n \in 1 .. N
    BY <1>1
  <2>2. g \in [0 .. N -> Link]
    BY <1>2 DEF WalksTo
  <2>3. \A n \in 0 .. N : g[n] = Body(g)[n]
    BY <1>2, <2>1 DEF WalksTo
  <2> QED
    BY <2>2, <2>3
<1>4. Hop(c) = CHOOSE f : f = Body(f)
  BY DEF Hop
<1>5. Hop(c) = Body(Hop(c))
  <2> HIDE DEF Body
  <2>1. \E f : f = Body(f)
    BY <1>3
  <2> QED
    BY <1>4, <2>1, Zenon
<1>6. ASSUME NEW n \in 0 .. N PROVE Hop(c)[n] = g[n]
  <2> DEFINE T == {k \in 0 .. N : Hop(c)[k] # g[k]}
  <2> SUFFICES ASSUME T # {} PROVE FALSE
    OBVIOUS
  <2>1. PICK m \in T : \A y \in T : m <= y
    <3>1. T \in SUBSET Nat
      BY <1>1
    <3> HIDE DEF T
    <3> QED
      BY <3>1, MinOf
  <2>2. m \in 0 .. N /\ Hop(c)[m] # g[m]
    OBVIOUS
  <2>3. m # 0
    BY <1>2, <1>5, <2>2 DEF WalksTo
  <2>4. m - 1 \in 0 .. N /\ m \in 1 .. N /\ m - 1 < m
    BY <1>1, <2>2, <2>3
  <2>5. Hop(c)[m - 1] = g[m - 1]
    BY <1>1, <2>1, <2>4
  <2>6. Hop(c)[m] = IF g[m - 1] = None THEN None ELSE nextalarm[g[m - 1]]
    BY <1>5, <2>2, <2>3, <2>5
  <2> QED
    BY <1>2, <2>2, <2>4, <2>6 DEF WalksTo
<1>7. Hop(c) = g
  <2>1. g \in [0 .. N -> Link]
    BY <1>2 DEF WalksTo
  <2>2. Hop(c) = [n \in 0 .. N |-> Hop(c)[n]]
    BY <1>5
  <2> QED
    BY <1>6, <2>1, <2>2
<1> QED
  BY <1>2, <1>7

-----------------------------------------------------------------------------
(* Linked lists: a set S of alarms, the head h, the links nx, and a rank r *)
(* that grows along the list                                               *)

Linked(S, h, nx, r) ==
  /\ h = None => S = {}
  /\ h # None => h \in S /\ \A x \in S \ {h} : r[h] < r[x]
  /\ \A a \in S :
       /\ nx[a] = None => \A x \in S \ {a} : r[x] < r[a]
       /\ nx[a] # None => /\ nx[a] \in S /\ r[a] < r[nx[a]]
                          /\ \A x \in S \ {a, nx[a]} : r[x] < r[a] \/ r[nx[a]] < r[x]

\* The times t grow along the list.
Ascending(S, t, r) == \A x, y \in S : r[x] < r[y] => t[x] <= t[y]

\* The alarms in S are linked from h on, in the order of their times.
Whole(S, h, nx, t) ==
  \E r \in [Alarm -> Nat] : Linked(S, h, nx, r) /\ Ascending(S, t, r)

\* A list depends on the links of its own alarms only.
LEMMA LinkedFrame ==
  ASSUME NEW S, NEW h, NEW nx, NEW nx2, NEW r, Linked(S, h, nx, r),
         \A x \in S : nx2[x] = nx[x]
  PROVE  Linked(S, h, nx2, r)
BY DEF Linked

LEMMA AscendingFrame ==
  ASSUME NEW S, NEW T, T \subseteq S, NEW t, NEW t2, NEW r, Ascending(S, t, r),
         \A x \in T : t2[x] = t[x]
  PROVE  Ascending(T, t2, r)
BY DEF Ascending

\* The first is taken off.
LEMMA LinkedTail ==
  ASSUME NEW S \in SUBSET Alarm, NEW h \in S, NEW nx, NEW nx2, NEW r \in [Alarm -> Nat],
         Linked(S, h, nx, r), \A x \in S \ {h} : nx2[x] = nx[x]
  PROVE  Linked(S \ {h}, nx[h], nx2, r)
<1>1. h # None /\ \A x \in S : x \in Alarm /\ r[x] \in Int
  OBVIOUS
<1>2. \A x \in S \ {h} : r[h] < r[x]
  BY <1>1 DEF Linked
<1>3. CASE nx[h] = None
  <2>1. S \ {h} = {}
    BY <1>1, <1>2, <1>3 DEF Linked
  <2> QED
    BY <1>3, <2>1 DEF Linked
<1>4. CASE nx[h] # None
  <2>1. nx[h] \in S \ {h} /\ \A x \in S \ {h, nx[h]} : r[nx[h]] < r[x]
    BY <1>1, <1>2, <1>4 DEF Linked
  <2>2. ASSUME NEW a \in S \ {h}
        PROVE  /\ nx2[a] = None => \A x \in (S \ {h}) \ {a} : r[x] < r[a]
               /\ nx2[a] # None => /\ nx2[a] \in S \ {h} /\ r[a] < r[nx2[a]]
                                   /\ \A x \in (S \ {h}) \ {a, nx2[a]} :
                                        r[x] < r[a] \/ r[nx2[a]] < r[x]
    <3>1. nx2[a] = nx[a]
      OBVIOUS
    <3>2. nx[a] # h
      <4>1. r[h] < r[a]
        BY <1>2
      <4> QED
        BY <1>1, <4>1 DEF Linked
    <3> QED
      BY <3>1, <3>2 DEF Linked
  <2> QED
    BY <1>4, <2>1, <2>2 DEF Linked
<1> QED
  BY <1>3, <1>4

\* One in the middle is taken off: p is linked to what follows a.
LEMMA LinkedCut ==
  ASSUME NEW S \in SUBSET Alarm, NEW h, NEW p \in S, NEW a \in S, NEW nx, NEW nx2,
         NEW r \in [Alarm -> Nat], Linked(S, h, nx, r), nx[p] = a,
         nx2[p] = nx[a], \A x \in S \ {p, a} : nx2[x] = nx[x]
  PROVE  Linked(S \ {a}, h, nx2, r) /\ h # None
<1>1. \A x \in S : x \in Alarm /\ r[x] \in Int /\ x # None
  OBVIOUS
<1>2. r[p] < r[a] /\ p # a /\ \A x \in S \ {p, a} : r[x] < r[p] \/ r[a] < r[x]
  BY <1>1 DEF Linked
<1>3. h # None /\ h \in S \ {a} /\ \A x \in S \ {h} : r[h] < r[x]
  BY <1>1, <1>2 DEF Linked
<1>4. ASSUME NEW b \in S \ {a}
      PROVE  /\ nx2[b] = None => \A x \in (S \ {a}) \ {b} : r[x] < r[b]
             /\ nx2[b] # None => /\ nx2[b] \in S \ {a} /\ r[b] < r[nx2[b]]
                                 /\ \A x \in (S \ {a}) \ {b, nx2[b]} :
                                      r[x] < r[b] \/ r[nx2[b]] < r[x]
  <2>1. CASE b = p
    <3>1. CASE nx[a] = None
      <4>1. \A x \in S \ {a} : r[x] < r[a]
        BY <3>1 DEF Linked
      <4>2. \A x \in (S \ {a}) \ {p} : r[x] < r[p]
        BY <1>1, <1>2, <4>1
      <4> QED
        BY <2>1, <3>1, <4>2
    <3>2. CASE nx[a] # None
      <4>1. PICK n \in S : n = nx[a] /\ r[a] < r[n]
                           /\ \A x \in S \ {a, n} : r[x] < r[a] \/ r[n] < r[x]
        BY <3>2 DEF Linked
      <4>2. n # a /\ n # p /\ r[p] < r[n]
        BY <1>1, <1>2, <4>1
      <4>3. \A x \in (S \ {a}) \ {p, n} : r[x] < r[p] \/ r[n] < r[x]
        BY <1>1, <1>2, <4>1
      <4> QED
        BY <2>1, <3>2, <4>1, <4>2, <4>3
    <3> QED
      BY <3>1, <3>2
  <2>2. CASE b # p
    <3>1. nx2[b] = nx[b]
      BY <2>2
    <3>2. nx[b] # a
      <4>1. r[b] < r[p] \/ r[a] < r[b]
        BY <1>2, <2>2
      <4>2. ASSUME nx[b] = a PROVE FALSE
        <5>1. r[b] < r[a] /\ (r[p] < r[b] \/ r[a] < r[p])
          BY <1>1, <1>2, <2>2, <4>2 DEF Linked
        <5> QED
          BY <1>1, <1>2, <4>1, <5>1
      <4> QED
        BY <4>2
    <3> QED
      BY <3>1, <3>2 DEF Linked
  <2> QED
    BY <2>1, <2>2
<1> QED
  BY <1>3, <1>4 DEF Linked

\* A new first.
LEMMA LinkedFirst ==
  ASSUME NEW S \in SUBSET Alarm, NEW h, NEW a \in Alarm \ S, NEW nx, NEW nx2,
         NEW r \in [Alarm -> Nat], Linked(S, h, nx, r), nx2[a] = h,
         \A x \in S : nx2[x] = nx[x],
         NEW t \in [Alarm -> Nat], NEW t2 \in [Alarm -> Nat], Ascending(S, t, r),
         \A x \in S : t2[x] = t[x], \A x \in S : x = h => t2[a] <= t2[x]
  PROVE  Whole(S \union {a}, a, nx2, t2)
<1> DEFINE r2 == [x \in Alarm |-> IF x = a THEN 0 ELSE r[x] + 1]
           S2 == S \union {a}
<1>1. /\ r2 \in [Alarm -> Nat] /\ r2[a] = 0 /\ \A x \in S : r2[x] = r[x] + 1
      /\ \A x \in Alarm : r[x] \in Nat /\ t[x] \in Nat /\ t2[x] \in Nat
  OBVIOUS
<1> HIDE DEF r2
<1>2. \A x \in S : r2[a] < r2[x] /\ x # a
  BY <1>1
<1>3. \A x, y \in S : r2[x] < r2[y] <=> r[x] < r[y]
  BY <1>1
<1>4. ASSUME NEW b \in S
      PROVE  /\ nx2[b] = None => \A x \in S2 \ {b} : r2[x] < r2[b]
             /\ nx2[b] # None => /\ nx2[b] \in S2 /\ r2[b] < r2[nx2[b]]
                                 /\ \A x \in S2 \ {b, nx2[b]} : r2[x] < r2[b] \/ r2[nx2[b]] < r2[x]
  BY <1>2, <1>3 DEF Linked
<1>5. /\ nx2[a] = None => \A x \in S2 \ {a} : r2[x] < r2[a]
      /\ nx2[a] # None => /\ nx2[a] \in S2 /\ r2[a] < r2[nx2[a]]
                          /\ \A x \in S2 \ {a, nx2[a]} : r2[x] < r2[a] \/ r2[nx2[a]] < r2[x]
  <2>1. CASE h = None
    BY <2>1 DEF Linked
  <2>2. CASE h # None
    BY <1>2, <1>3, <2>2 DEF Linked
  <2> QED
    BY <2>1, <2>2
<1>6. Linked(S2, a, nx2, r2)
  BY <1>2, <1>4, <1>5 DEF Linked
<1>7. ASSUME NEW x \in S2, NEW y \in S2, r2[x] < r2[y] PROVE t2[x] <= t2[y]
  <2>1. y \in S
    BY <1>1, <1>7
  <2>2. CASE x = a
    <3>1. h # None /\ h \in S /\ t2[a] <= t2[h]
      BY <2>1 DEF Linked
    <3>2. t2[h] <= t2[y]
      <4>1. h = y \/ r[h] < r[y]
        BY <2>1, <3>1 DEF Linked
      <4>2. h = y \/ t[h] <= t[y]
        BY <2>1, <3>1, <4>1 DEF Ascending
      <4> QED
        BY <1>1, <2>1, <3>1, <4>2
    <3> QED
      BY <1>1, <2>1, <2>2, <3>1, <3>2
  <2>3. CASE x # a
    BY <1>3, <1>7, <2>1, <2>3 DEF Ascending
  <2> QED
    BY <2>2, <2>3
<1> QED
  BY <1>1, <1>6, <1>7 DEF Ascending, Whole

\* A new one after p.
LEMMA LinkedAfter ==
  ASSUME NEW S \in SUBSET Alarm, NEW h, NEW p \in S, NEW a \in Alarm \ S, NEW nx, NEW nx2,
         NEW r \in [Alarm -> Nat], Linked(S, h, nx, r), nx2[p] = a, nx2[a] = nx[p],
         \A x \in S \ {p} : nx2[x] = nx[x],
         NEW t \in [Alarm -> Nat], NEW t2 \in [Alarm -> Nat], Ascending(S, t, r),
         \A x \in S : t2[x] = t[x], t2[p] <= t2[a],
         \A x \in S : x = nx[p] => t2[a] <= t2[x]
  PROVE  Whole(S \union {a}, h, nx2, t2)
<1> DEFINE r2 == [x \in Alarm |-> IF x = a THEN 2 * r[p] + 1 ELSE 2 * r[x]]
           S2 == S \union {a}
<1>1. /\ r2 \in [Alarm -> Nat] /\ r2[a] = 2 * r[p] + 1 /\ \A x \in S : r2[x] = 2 * r[x]
      /\ \A x \in Alarm : r[x] \in Nat /\ t[x] \in Nat /\ t2[x] \in Nat
  OBVIOUS
<1> HIDE DEF r2
<1>2. \A x, y \in S : r2[x] < r2[y] <=> r[x] < r[y]
  BY <1>1
<1>3. \A x \in S : /\ x # a /\ (r2[x] < r2[a] <=> r[x] <= r[p])
                   /\ (r2[a] < r2[x] <=> r[p] < r[x])
  BY <1>1
<1>4. h # None /\ h \in S /\ \A x \in S \ {h} : r[h] < r[x]
  BY DEF Linked
<1>5. \A x \in S2 \ {h} : r2[h] < r2[x]
  <2>1. h = p \/ r[h] < r[p]
    BY <1>4
  <2>2. r[h] <= r[p]
    BY <1>1, <1>4, <2>1
  <2> QED
    BY <1>2, <1>3, <1>4, <2>2
<1>6. ASSUME NEW x \in S, x # p PROVE r[x] # r[p]
  BY <1>1, <1>6 DEF Linked
<1>7. /\ nx2[a] = None => \A x \in S2 \ {a} : r2[x] < r2[a]
      /\ nx2[a] # None => /\ nx2[a] \in S2 /\ r2[a] < r2[nx2[a]]
                          /\ \A x \in S2 \ {a, nx2[a]} : r2[x] < r2[a] \/ r2[nx2[a]] < r2[x]
  <2>1. CASE nx[p] = None
    <3>1. \A x \in S \ {p} : r[x] < r[p]
      BY <2>1 DEF Linked
    <3>2. \A x \in S : r[x] <= r[p]
      BY <1>1, <3>1
    <3> QED
      BY <1>3, <2>1, <3>2
  <2>2. CASE nx[p] # None
    <3>1. /\ nx[p] \in S /\ r[p] < r[nx[p]]
          /\ \A x \in S \ {p, nx[p]} : r[x] < r[p] \/ r[nx[p]] < r[x]
      BY <2>2 DEF Linked
    <3>2. \A x \in S \ {nx[p]} : r[x] <= r[p] \/ r[nx[p]] < r[x]
      BY <1>1, <3>1
    <3> QED
      BY <1>2, <1>3, <2>2, <3>1, <3>2
  <2> QED
    BY <2>1, <2>2
<1>8. ASSUME NEW b \in S
      PROVE  /\ nx2[b] = None => \A x \in S2 \ {b} : r2[x] < r2[b]
             /\ nx2[b] # None => /\ nx2[b] \in S2 /\ r2[b] < r2[nx2[b]]
                                 /\ \A x \in S2 \ {b, nx2[b]} : r2[x] < r2[b] \/ r2[nx2[b]] < r2[x]
  <2>1. CASE b = p
    <3>1. \A x \in S \ {p} : r2[x] < r2[p] \/ r2[a] < r2[x]
      <4> TAKE x \in S \ {p}
      <4>1. r[x] < r[p] \/ r[p] < r[x]
        BY <1>1, <1>6
      <4> QED
        BY <1>2, <1>3, <4>1
    <3>2. r2[p] < r2[a] /\ a # None
      BY <1>1
    <3> QED
      BY <2>1, <3>1, <3>2
  <2>2. CASE b # p /\ nx[b] = None
    <3>1. \A x \in S \ {b} : r[x] < r[b]
      BY <2>2 DEF Linked
    <3> QED
      BY <1>2, <1>3, <2>2, <3>1
  <2>3. CASE b # p /\ nx[b] # None
    <3>1. /\ nx[b] \in S /\ r[b] < r[nx[b]]
          /\ \A x \in S \ {b, nx[b]} : r[x] < r[b] \/ r[nx[b]] < r[x]
      BY <2>3 DEF Linked
    <3>2. p # nx[b] => r[p] < r[b] \/ r[nx[b]] < r[p]
      BY <2>3, <3>1
    <3>3. r2[a] < r2[b] \/ r2[nx[b]] < r2[a]
      <4>1. CASE p = nx[b]
        BY <1>1, <1>3, <4>1
      <4>2. CASE p # nx[b]
        <5>1. r[p] < r[b] \/ r[nx[b]] <= r[p]
          BY <1>1, <3>1, <3>2, <4>2
        <5> QED
          BY <1>3, <3>1, <5>1
      <4> QED
        BY <4>1, <4>2
    <3> QED
      BY <1>2, <2>3, <3>1, <3>3
  <2> QED
    BY <2>1, <2>2, <2>3
<1>9. Linked(S2, h, nx2, r2)
  BY <1>4, <1>5, <1>7, <1>8 DEF Linked
<1>10. ASSUME NEW x \in S2, NEW y \in S2, r2[x] < r2[y] PROVE t2[x] <= t2[y]
  <2>1. CASE x \in S /\ y \in S
    BY <1>2, <1>10, <2>1 DEF Ascending
  <2>2. CASE x = a /\ y \in S
    <3>1. r[p] < r[y] /\ y # p
      BY <1>1, <1>3, <1>10, <2>2
    <3>2. nx[p] # None /\ nx[p] \in S /\ t2[a] <= t2[nx[p]]
      BY <1>1, <2>2, <3>1 DEF Linked
    <3>3. y = nx[p] \/ r[nx[p]] < r[y]
      BY <1>1, <2>2, <3>1, <3>2 DEF Linked
    <3>4. t2[nx[p]] <= t2[y]
      <4>1. y = nx[p] \/ t[nx[p]] <= t[y]
        BY <2>2, <3>2, <3>3 DEF Ascending
      <4> QED
        BY <1>1, <2>2, <3>2, <4>1
    <3> QED
      BY <1>1, <2>2, <3>2, <3>4
  <2>3. CASE x \in S /\ y = a
    <3>1. r[x] <= r[p]
      BY <1>3, <1>10, <2>3
    <3>2. x = p \/ r[x] < r[p]
      BY <1>1, <1>6, <2>3, <3>1
    <3>3. x = p \/ t[x] <= t[p]
      BY <2>3, <3>2 DEF Ascending
    <3>4. t2[x] <= t2[p]
      BY <1>1, <2>3, <3>3
    <3> QED
      BY <1>1, <2>3, <3>4
  <2>4. CASE x = a /\ y = a
    BY <1>1, <2>4
  <2> QED
    BY <2>1, <2>2, <2>3, <2>4
<1> QED
  BY <1>1, <1>9, <1>10 DEF Ascending, Whole

-----------------------------------------------------------------------------
(* A walk along a list visits its alarms, in their order, and ends.        *)

LEMMA UpTo ==
  ASSUME NEW N \in Nat, NEW T, 0 \in T, \A n \in 1 .. N : n - 1 \in T => n \in T
  PROVE  \A n \in 0 .. N : n \in T
<1> DEFINE D == {n \in 0 .. N : n \notin T}
<1> SUFFICES ASSUME D # {} PROVE FALSE
  OBVIOUS
<1>1. D \in SUBSET Nat
  OBVIOUS
<1>2. PICK m \in D : \A y \in D : m <= y
  <2> HIDE DEF D
  <2> QED
    BY <1>1, MinOf
<1>3. m \in 1 .. N /\ m - 1 \in 0 .. N /\ m - 1 < m
  OBVIOUS
<1> QED
  BY <1>2, <1>3

LEMMA Repeats ==
  ASSUME NEW S, NEW T, IsFiniteSet(S), IsFiniteSet(T), Cardinality(T) < Cardinality(S),
         NEW f \in [S -> T]
  PROVE  \E x \in S, y \in S : x # y /\ f[x] = f[y]
BY FS_PigeonHole

LEMMA WalkFacts ==
  ASSUME NEW S \in SUBSET Alarm, NEW h, NEW nx, NEW r \in [Alarm -> Nat], Linked(S, h, nx, r),
         NEW w, WalksTo(Cardinality(Alarm), w, h, nx)
  PROVE  /\ \A n \in Steps : w[n] = None \/ w[n] \in S
         /\ \A n \in Steps, m \in Steps :
              m < n /\ w[n] # None => w[m] # None /\ r[w[m]] < r[w[n]]
         /\ w[Cardinality(Alarm)] = None
         /\ \A x \in S : \E n \in Steps : w[n] = x
<1> DEFINE N == Cardinality(Alarm)
<1>1. N \in Nat /\ None \notin S /\ \A x \in S : x \in Alarm /\ r[x] \in Nat
  BY StepsFinite
<1>2. /\ w[0] = h /\ w \in [0 .. N -> Link]
      /\ \A n \in 1 .. N : w[n] = IF w[n - 1] = None THEN None ELSE nx[w[n - 1]]
  BY DEF WalksTo
<1> HIDE DEF N
<1>3. \A n \in 0 .. N : w[n] = None \/ w[n] \in S
  <2> DEFINE T == {n \in 0 .. N : w[n] = None \/ w[n] \in S}
  <2>1. 0 \in T
    BY <1>1, <1>2 DEF Linked
  <2>2. \A n \in 1 .. N : n - 1 \in T => n \in T
    BY <1>1, <1>2 DEF Linked
  <2>3. \A n \in 0 .. N : n \in T
    <3> HIDE DEF T
    <3> QED
      BY <1>1, <2>1, <2>2, UpTo
  <2> QED
    BY <2>3
<1>4. ASSUME NEW n \in 1 .. N, w[n] # None
      PROVE  /\ w[n - 1] \in S /\ w[n] \in S /\ w[n] = nx[w[n - 1]] /\ r[w[n - 1]] < r[w[n]]
             /\ n - 1 \in 0 .. N
  <2>1. n - 1 \in 0 .. N /\ n \in 0 .. N
    BY <1>1
  <2>2. w[n - 1] # None /\ w[n] = nx[w[n - 1]]
    BY <1>2, <1>4
  <2>3. w[n - 1] \in S /\ w[n] \in S
    BY <1>3, <1>4, <2>1, <2>2
  <2> QED
    BY <1>4, <2>1, <2>2, <2>3 DEF Linked
<1>5. \A n \in 0 .. N, m \in 0 .. N : m < n /\ w[n] # None => w[m] # None /\ r[w[m]] < r[w[n]]
  <2> DEFINE T == {n \in 0 .. N : \A m \in 0 .. N :
                     m < n /\ w[n] # None => w[m] # None /\ r[w[m]] < r[w[n]]}
  <2>1. 0 \in T
    BY <1>1
  <2>2. ASSUME NEW n \in 1 .. N, n - 1 \in T PROVE n \in T
    <3> SUFFICES ASSUME NEW m \in 0 .. N, m < n, w[n] # None
                 PROVE  w[m] # None /\ r[w[m]] < r[w[n]]
      OBVIOUS
    <3>1. w[n - 1] \in S /\ w[n] \in S /\ r[w[n - 1]] < r[w[n]]
      BY <1>4
    <3>2. CASE m = n - 1
      BY <1>1, <3>1, <3>2
    <3>3. CASE m # n - 1
      <4>1. m < n - 1 /\ w[n - 1] # None
        BY <1>1, <3>1, <3>3
      <4>2. w[m] # None /\ r[w[m]] < r[w[n - 1]]
        BY <2>2, <4>1
      <4>3. w[m] \in S
        BY <1>3, <4>2
      <4> QED
        BY <1>1, <3>1, <4>2, <4>3
    <3> QED
      BY <3>2, <3>3
  <2>3. \A n \in 0 .. N : n \in T
    <3> HIDE DEF T
    <3> QED
      BY <1>1, <2>1, <2>2, UpTo
  <2> QED
    BY <2>3
<1>6. w[N] = None
  <2> SUFFICES ASSUME w[N] # None PROVE FALSE
    OBVIOUS
  <2>1. \A n \in 0 .. N : w[n] \in Alarm
    <3> TAKE n \in 0 .. N
    <3>1. w[n] # None
      BY <1>1, <1>5
    <3> QED
      BY <1>1, <1>3, <3>1
  <2>2. w \in [0 .. N -> Alarm]
    BY <1>2, <2>1
  <2>3. IsFiniteSet(0 .. N) /\ Cardinality(0 .. N) = N + 1
    <3>1. 0 \in Int /\ N \in Int
      BY <1>1
    <3>2. IsFiniteSet(0 .. N) /\ Cardinality(0 .. N) = IF 0 > N THEN 0 ELSE N - 0 + 1
      BY <3>1, FS_Interval
    <3> QED
      BY <1>1, <3>2
  <2>4. PICK x \in 0 .. N, y \in 0 .. N : x # y /\ w[x] = w[y]
    <3>1. IsFiniteSet(Alarm) /\ Cardinality(Alarm) < Cardinality(0 .. N)
      BY <1>1, <2>3 DEF N
    <3>2. PICK I : I = 0 .. N
      OBVIOUS
    <3>3. IsFiniteSet(I) /\ Cardinality(Alarm) < Cardinality(I)
      BY <2>3, <3>1, <3>2
    <3>4. w \in [I -> Alarm]
      BY <2>2, <3>2
    <3>5. \E x \in I, y \in I : x # y /\ w[x] = w[y]
      BY <3>1, <3>3, <3>4, Repeats
    <3> QED
      BY <3>2, <3>5
  <2>5. \A n \in 0 .. N : r[w[n]] \in Nat /\ w[n] # None
    BY <1>1, <2>1
  <2>6. x < y \/ y < x
    BY <2>4
  <2> QED
    BY <1>5, <2>4, <2>5, <2>6
<1>7. ASSUME NEW x \in S PROVE \E n \in 0 .. N : w[n] = x
  <2> DEFINE D == {n \in 0 .. N : w[n] = None \/ r[x] < r[w[n]]}
  <2>1. N \in D /\ D \in SUBSET Nat
    BY <1>1, <1>6
  <2>2. PICK n \in D : \A y \in D : n <= y
    <3> HIDE DEF D
    <3> QED
      BY <2>1, MinOf
  <2>3. n # 0
    <3>1. h # None /\ (x = h \/ r[h] < r[x]) /\ h \in S
      BY <1>7 DEF Linked
    <3> QED
      BY <1>1, <1>2, <3>1
  <2>4. n - 1 \in 0 .. N /\ n \in 1 .. N /\ n - 1 \notin D
    BY <1>1, <2>2, <2>3
  <2>5. w[n - 1] # None /\ ~(r[x] < r[w[n - 1]])
    BY <2>4
  <2>6. PICK y \in S : y = w[n - 1]
    BY <1>3, <2>4, <2>5
  <2>7. w[n] = nx[y]
    BY <1>2, <2>4, <2>5, <2>6
  <2>8. y = x
    <3> SUFFICES ASSUME x # y PROVE FALSE
      OBVIOUS
    <3>1. nx[y] # None
      BY <1>1, <2>5, <2>6 DEF Linked
    <3>2. r[x] < r[nx[y]]
      BY <2>2, <2>7, <3>1
    <3>3. nx[y] \in S /\ (x = nx[y] \/ r[x] < r[y] \/ r[nx[y]] < r[x])
      BY <3>1 DEF Linked
    <3>4. r[x] < r[y]
      BY <1>1, <3>2, <3>3
    <3> QED
      BY <2>5, <2>6, <3>4
  <2> QED
    BY <2>4, <2>6, <2>8
<1> QED
  BY <1>3, <1>5, <1>6, <1>7 DEF N, Steps

-----------------------------------------------------------------------------
(* The stack of calls                                                      *)

Ops     == {"abs", "rel", "advance"}
CallSet == [op : Ops, c : Counter, a : Link, v : Value]

ExpiringIn(cs) == {cs[i].a : i \in {j \in 1 .. Len(cs) : cs[j].op = "advance"}} \ {None}

\* No alarm is in two calls.  A call that sets an alarm has one that is not in use, and
\* an alarm whose function is running is in use.
CallsFit(cs, t) ==
  /\ \A i \in 1 .. Len(cs) :
       IF cs[i].op = "advance"
       THEN cs[i].a # None => t[cs[i].a] # 0
       ELSE cs[i].a \in Alarm /\ t[cs[i].a] = 0 /\ cs[i].v # 0
  /\ \A i \in 1 .. Len(cs), j \in 1 .. Len(cs) : i # j /\ cs[i].a # None => cs[i].a # cs[j].a

LEMMA ExpiringMember ==
  ASSUME NEW cs
  PROVE  \A x : x \in ExpiringIn(cs) <=>
                  x # None /\ \E i \in 1 .. Len(cs) : cs[i].op = "advance" /\ cs[i].a = x
BY DEF ExpiringIn

\* A call begins: it is pushed.
LEMMA CallPushed ==
  ASSUME NEW cs \in Seq(CallSet), NEW x \in CallSet, NEW ds, ds = Append(cs, x)
  PROVE  /\ ds \in Seq(CallSet) /\ Len(ds) = Len(cs) + 1
         /\ Len(cs) \in Nat /\ ds[Len(cs) + 1] = x
         /\ \A i \in 1 .. Len(cs) : ds[i] = cs[i]
OBVIOUS

\* A call returns: it is popped.
LEMMA CallPopped ==
  ASSUME NEW cs \in Seq(CallSet), cs # <<>>, NEW ds, ds = SubSeq(cs, 1, Len(cs) - 1)
  PROVE  /\ ds \in Seq(CallSet) /\ Len(ds) = Len(cs) - 1 /\ Len(cs) \in Nat \ {0}
         /\ \A i \in 1 .. Len(cs) - 1 : ds[i] = cs[i]
<1>1. Len(cs) \in Nat \ {0}
  OBVIOUS
<1>2. ds \in Seq(CallSet) /\ Len(ds) = Len(cs) - 1
  <2>1. Len(cs) - 1 \in Nat
    BY <1>1
  <2>2. PICK n \in Nat : n = Len(cs) - 1
    BY <2>1
  <2>3. \A i \in 1 .. n : cs[i] \in CallSet
    BY <1>1, <2>2
  <2>4. SubSeq(cs, 1, n) \in Seq(CallSet) /\ Len(SubSeq(cs, 1, n)) = IF 1 <= n THEN n - 1 + 1 ELSE 0
    BY <2>2, <2>3, SubSeqProperties
  <2> QED
    BY <2>2, <2>4
<1>3. \A i \in 1 .. Len(cs) - 1 : ds[i] = cs[i]
  BY <1>1
<1> QED
  BY <1>1, <1>2, <1>3

\* The running call turns to another alarm.
LEMMA CallTurned ==
  ASSUME NEW cs \in Seq(CallSet), cs # <<>>, NEW x \in Link, NEW ds,
         ds = [cs EXCEPT ![Len(cs)].a = x]
  PROVE  /\ ds \in Seq(CallSet) /\ Len(ds) = Len(cs) /\ Len(cs) \in Nat \ {0}
         /\ \A i \in 1 .. Len(cs) : i # Len(cs) => ds[i] = cs[i]
         /\ ds[Len(cs)].a = x /\ ds[Len(cs)].op = cs[Len(cs)].op
         /\ ds[Len(cs)].c = cs[Len(cs)].c
<1>1. Len(cs) \in Nat \ {0} /\ Len(cs) \in 1 .. Len(cs)
  OBVIOUS
<1>2. PICK y : y = [cs[Len(cs)] EXCEPT !.a = x]
  OBVIOUS
<1>3. cs[Len(cs)] \in CallSet
  BY <1>1
<1>4. y \in CallSet /\ y.a = x /\ y.op = cs[Len(cs)].op /\ y.c = cs[Len(cs)].c
  BY <1>2, <1>3 DEF CallSet
<1>5. ds = [cs EXCEPT ![Len(cs)] = y]
  BY <1>2
<1> QED
  BY <1>1, <1>4, <1>5

LEMMA FitFrame ==
  ASSUME NEW cs, NEW t, NEW t2, CallsFit(cs, t),
         \A i \in 1 .. Len(cs) : cs[i].a # None => (t2[cs[i].a] = 0 <=> t[cs[i].a] = 0)
  PROVE  CallsFit(cs, t2)
BY DEF CallsFit

LEMMA PushedSet ==
  ASSUME NEW cs \in Seq(CallSet), NEW x \in CallSet, NEW ds, ds = Append(cs, x),
         NEW t, CallsFit(cs, t), x.op # "advance", x.a \in Alarm, t[x.a] = 0, x.v # 0,
         \A i \in 1 .. Len(cs) : cs[i].op # "advance" => cs[i].a # x.a
  PROVE  ExpiringIn(ds) = ExpiringIn(cs) /\ CallsFit(ds, t)
<1>1. /\ Len(ds) = Len(cs) + 1 /\ Len(cs) \in Nat /\ ds[Len(cs) + 1] = x
      /\ \A i \in 1 .. Len(cs) : ds[i] = cs[i]
  BY CallPushed
<1>2. \A i \in 1 .. Len(ds) : i \in 1 .. Len(cs) \/ i = Len(cs) + 1
  BY <1>1
<1>3. \A i \in 1 .. Len(cs) : cs[i].a # x.a
  BY DEF CallsFit
<1>4. ASSUME NEW i \in 1 .. Len(ds)
      PROVE  IF ds[i].op = "advance"
             THEN ds[i].a # None => t[ds[i].a] # 0
             ELSE ds[i].a \in Alarm /\ t[ds[i].a] = 0 /\ ds[i].v # 0
  BY <1>1, <1>2 DEF CallsFit
<1>5. ASSUME NEW i \in 1 .. Len(ds), NEW j \in 1 .. Len(ds), i # j, ds[i].a # None
      PROVE  ds[i].a # ds[j].a
  BY <1>1, <1>2, <1>3, <1>5 DEF CallsFit
<1>6. ExpiringIn(ds) = ExpiringIn(cs)
  <2>1. ASSUME NEW y, y \in ExpiringIn(ds) PROVE y \in ExpiringIn(cs)
    BY <1>1, <1>2, <2>1 DEF ExpiringIn
  <2>2. ASSUME NEW y, y \in ExpiringIn(cs) PROVE y \in ExpiringIn(ds)
    <3>0. y # None /\ \E i \in 1 .. Len(cs) : cs[i].op = "advance" /\ cs[i].a = y
      BY <2>2, ExpiringMember
    <3>1. PICK i \in 1 .. Len(cs) : cs[i].op = "advance" /\ cs[i].a = y
      BY <3>0
    <3>2. i \in 1 .. Len(ds) /\ ds[i] = cs[i]
      BY <1>1
    <3>3. ds[i].op = "advance" /\ ds[i].a = y
      BY <3>1, <3>2
    <3> QED
      BY <3>0, <3>2, <3>3, ExpiringMember
  <2> QED
    BY <2>1, <2>2
<1> QED
  BY <1>4, <1>5, <1>6 DEF CallsFit

LEMMA PushedAdvance ==
  ASSUME NEW cs \in Seq(CallSet), NEW x \in CallSet, NEW ds, ds = Append(cs, x),
         NEW t, CallsFit(cs, t), x.op = "advance", x.a = None
  PROVE  ExpiringIn(ds) = ExpiringIn(cs) /\ CallsFit(ds, t)
<1>1. /\ Len(ds) = Len(cs) + 1 /\ Len(cs) \in Nat /\ ds[Len(cs) + 1] = x
      /\ \A i \in 1 .. Len(cs) : ds[i] = cs[i]
  BY CallPushed
<1>2. \A i \in 1 .. Len(ds) : i \in 1 .. Len(cs) \/ i = Len(cs) + 1
  BY <1>1
<1>4. ASSUME NEW i \in 1 .. Len(ds)
      PROVE  IF ds[i].op = "advance"
             THEN ds[i].a # None => t[ds[i].a] # 0
             ELSE ds[i].a \in Alarm /\ t[ds[i].a] = 0 /\ ds[i].v # 0
  BY <1>1, <1>2 DEF CallsFit
<1>5. ASSUME NEW i \in 1 .. Len(ds), NEW j \in 1 .. Len(ds), i # j, ds[i].a # None
      PROVE  ds[i].a # ds[j].a
  BY <1>1, <1>2, <1>5 DEF CallsFit
<1>6. ExpiringIn(ds) = ExpiringIn(cs)
  <2>1. ASSUME NEW y, y \in ExpiringIn(ds) PROVE y \in ExpiringIn(cs)
    BY <1>1, <1>2, <2>1 DEF ExpiringIn
  <2>2. ASSUME NEW y, y \in ExpiringIn(cs) PROVE y \in ExpiringIn(ds)
    <3>0. y # None /\ \E i \in 1 .. Len(cs) : cs[i].op = "advance" /\ cs[i].a = y
      BY <2>2, ExpiringMember
    <3>1. PICK i \in 1 .. Len(cs) : cs[i].op = "advance" /\ cs[i].a = y
      BY <3>0
    <3>2. i \in 1 .. Len(ds) /\ ds[i] = cs[i]
      BY <1>1
    <3>3. ds[i].op = "advance" /\ ds[i].a = y
      BY <3>1, <3>2
    <3> QED
      BY <3>0, <3>2, <3>3, ExpiringMember
  <2> QED
    BY <2>1, <2>2
<1> QED
  BY <1>4, <1>5, <1>6 DEF CallsFit

LEMMA PoppedIdle ==
  ASSUME NEW cs \in Seq(CallSet), cs # <<>>, NEW ds, ds = SubSeq(cs, 1, Len(cs) - 1),
         NEW t, CallsFit(cs, t), cs[Len(cs)].op # "advance" \/ cs[Len(cs)].a = None
  PROVE  /\ ExpiringIn(ds) = ExpiringIn(cs) /\ CallsFit(ds, t)
         /\ cs[Len(cs)].a # None => \A i \in 1 .. Len(ds) : ds[i].a # cs[Len(cs)].a
<1>1. /\ Len(ds) = Len(cs) - 1 /\ Len(cs) \in Nat \ {0}
      /\ \A i \in 1 .. Len(cs) - 1 : ds[i] = cs[i]
  BY CallPopped
<1>2. \A i \in 1 .. Len(ds) : i \in 1 .. Len(cs) /\ i # Len(cs) /\ ds[i] = cs[i]
  BY <1>1
<1>3. CallsFit(ds, t)
  BY <1>2 DEF CallsFit
<1>4. Len(cs) \in 1 .. Len(cs) /\ \A i \in 1 .. Len(cs) : i # Len(cs) => i \in 1 .. Len(ds)
  BY <1>1
<1>5. cs[Len(cs)].a # None => \A i \in 1 .. Len(ds) : ds[i].a # cs[Len(cs)].a
  BY <1>2, <1>4, SMTT(30) DEF CallsFit
<1>6. ExpiringIn(ds) = ExpiringIn(cs)
  <2>1. ASSUME NEW y, y \in ExpiringIn(ds) PROVE y \in ExpiringIn(cs)
    BY <1>2, <2>1 DEF ExpiringIn
  <2>2. ASSUME NEW y, y \in ExpiringIn(cs) PROVE y \in ExpiringIn(ds)
    <3>1. PICK i \in 1 .. Len(cs) : cs[i].op = "advance" /\ cs[i].a = y
      BY <2>2, ExpiringMember
    <3>2. y # None /\ i # Len(cs)
      BY <2>2, <3>1, ExpiringMember
    <3>3. i \in 1 .. Len(ds) /\ ds[i] = cs[i]
      BY <1>2, <1>4, <3>2
    <3> QED
      BY <3>1, <3>2, <3>3, ExpiringMember
  <2> QED
    BY <2>1, <2>2
<1> QED
  BY <1>3, <1>5, <1>6

\* The advance takes an alarm that is in no other call.
LEMMA TurnedTo ==
  ASSUME NEW cs \in Seq(CallSet), cs # <<>>, NEW x \in Alarm, NEW ds,
         ds = [cs EXCEPT ![Len(cs)].a = x], cs[Len(cs)].op = "advance", cs[Len(cs)].a = None,
         NEW t, CallsFit(cs, t), t[x] # 0, x \notin ExpiringIn(cs)
  PROVE  ExpiringIn(ds) = ExpiringIn(cs) \union {x} /\ CallsFit(ds, t)
<1>0. x \in Link /\ x # None
  BY DEF Link
<1>1. /\ Len(ds) = Len(cs) /\ Len(cs) \in Nat \ {0}
      /\ \A i \in 1 .. Len(cs) : i # Len(cs) => ds[i] = cs[i]
      /\ ds[Len(cs)].a = x /\ ds[Len(cs)].op = "advance"
  BY <1>0, CallTurned
<1>2. Len(cs) \in 1 .. Len(cs)
  BY <1>1
<1>3. \A i \in 1 .. Len(cs) : cs[i].a # x
  <2> TAKE i \in 1 .. Len(cs)
  <2>1. CASE cs[i].op = "advance"
    BY <1>0, <2>1, ExpiringMember
  <2>2. CASE cs[i].op # "advance"
    BY <2>2 DEF CallsFit
  <2> QED
    BY <2>1, <2>2
<1>4. CallsFit(ds, t)
  <2>1. ASSUME NEW i \in 1 .. Len(ds)
        PROVE  IF ds[i].op = "advance"
               THEN ds[i].a # None => t[ds[i].a] # 0
               ELSE ds[i].a \in Alarm /\ t[ds[i].a] = 0 /\ ds[i].v # 0
    BY <1>1 DEF CallsFit
  <2>2. ASSUME NEW i \in 1 .. Len(ds), NEW j \in 1 .. Len(ds), i # j, ds[i].a # None
        PROVE  ds[i].a # ds[j].a
    BY <1>1, <1>3, <2>2 DEF CallsFit
  <2> QED
    BY <2>1, <2>2 DEF CallsFit
<1>5. ExpiringIn(ds) = ExpiringIn(cs) \union {x}
  <2>1. ASSUME NEW y, y \in ExpiringIn(ds) PROVE y \in ExpiringIn(cs) \union {x}
    <3>0. y # None /\ \E i \in 1 .. Len(ds) : ds[i].op = "advance" /\ ds[i].a = y
      BY <2>1 DEF ExpiringIn
    <3>1. PICK i \in 1 .. Len(ds) : ds[i].op = "advance" /\ ds[i].a = y /\ y # None
      BY <3>0
    <3> QED
      BY <1>1, <3>1, ExpiringMember
  <2>2. ASSUME NEW y, y \in ExpiringIn(cs) PROVE y \in ExpiringIn(ds)
    <3>1. PICK i \in 1 .. Len(cs) : cs[i].op = "advance" /\ cs[i].a = y /\ y # None
      BY <2>2, ExpiringMember
    <3>2. i \in 1 .. Len(ds) /\ ds[i] = cs[i]
      BY <1>1, <3>1
    <3>3. ds[i].op = "advance" /\ ds[i].a = y
      BY <3>1, <3>2
    <3>4. y # None /\ \E j \in 1 .. Len(ds) : ds[j].op = "advance" /\ ds[j].a = y
      BY <3>1, <3>2, <3>3
    <3> QED
      BY <3>4, ExpiringMember
  <2>3. x \in ExpiringIn(ds)
    BY <1>0, <1>1, <1>2, ExpiringMember
  <2> QED
    BY <2>1, <2>2, <2>3
<1> QED
  BY <1>4, <1>5

\* The function of the alarm of the running advance has returned.
LEMMA TurnedBack ==
  ASSUME NEW cs \in Seq(CallSet), cs # <<>>, NEW ds, ds = [cs EXCEPT ![Len(cs)].a = None],
         cs[Len(cs)].op = "advance", cs[Len(cs)].a # None, NEW t, CallsFit(cs, t)
  PROVE  /\ ExpiringIn(ds) = ExpiringIn(cs) \ {cs[Len(cs)].a}
         /\ CallsFit(ds, t)
         /\ \A i \in 1 .. Len(ds) : ds[i].a # cs[Len(cs)].a
<1>1. /\ Len(ds) = Len(cs) /\ Len(cs) \in Nat \ {0}
      /\ \A i \in 1 .. Len(cs) : i # Len(cs) => ds[i] = cs[i]
      /\ ds[Len(cs)].a = None /\ ds[Len(cs)].op = "advance"
  <2>1. None \in Link
    BY DEF Link
  <2> QED
    BY <2>1, CallTurned
<1>2. Len(cs) \in 1 .. Len(cs)
  BY <1>1
<1>3. \A i \in 1 .. Len(cs) : i # Len(cs) => cs[i].a # cs[Len(cs)].a
  BY <1>2 DEF CallsFit
<1>4. CallsFit(ds, t)
  <2>1. ASSUME NEW i \in 1 .. Len(ds)
        PROVE  IF ds[i].op = "advance"
               THEN ds[i].a # None => t[ds[i].a] # 0
               ELSE ds[i].a \in Alarm /\ t[ds[i].a] = 0 /\ ds[i].v # 0
    BY <1>1 DEF CallsFit
  <2>2. ASSUME NEW i \in 1 .. Len(ds), NEW j \in 1 .. Len(ds), i # j, ds[i].a # None
        PROVE  ds[i].a # ds[j].a
    BY <1>1, <2>2 DEF CallsFit
  <2> QED
    BY <2>1, <2>2 DEF CallsFit
<1>5. \A i \in 1 .. Len(ds) : ds[i].a # cs[Len(cs)].a
  BY <1>1, <1>3
<1>6. ExpiringIn(ds) = ExpiringIn(cs) \ {cs[Len(cs)].a}
  <2>1. ASSUME NEW y, y \in ExpiringIn(ds) PROVE y \in ExpiringIn(cs) \ {cs[Len(cs)].a}
    <3>0. y # None /\ \E i \in 1 .. Len(ds) : ds[i].op = "advance" /\ ds[i].a = y
      BY <2>1, ExpiringMember, ZenonT(30)
    <3>1. PICK i \in 1 .. Len(ds) : ds[i].op = "advance" /\ ds[i].a = y /\ y # None
      BY <3>0
    <3>2. i \in 1 .. Len(cs) /\ ds[i] = cs[i]
      BY <1>1, <3>1
    <3> QED
      BY <1>5, <3>1, <3>2, ExpiringMember
  <2>2. ASSUME NEW y, y \in ExpiringIn(cs), y # cs[Len(cs)].a PROVE y \in ExpiringIn(ds)
    <3>1. PICK i \in 1 .. Len(cs) : cs[i].op = "advance" /\ cs[i].a = y /\ y # None
      BY <2>2, ExpiringMember
    <3>2. i \in 1 .. Len(ds) /\ ds[i] = cs[i]
      BY <1>1, <2>2, <3>1
    <3> QED
      BY <3>1, <3>2, ExpiringMember
  <2> QED
    BY <2>1, <2>2
<1> QED
  BY <1>4, <1>5, <1>6

-----------------------------------------------------------------------------
(* What the operations do to a list                                        *)

LEMMA WholeFrame ==
  ASSUME NEW S, NEW h, NEW nx, NEW nx2, NEW t, NEW t2, Whole(S, h, nx, t),
         \A x \in S : nx2[x] = nx[x] /\ t2[x] = t[x]
  PROVE  Whole(S, h, nx2, t2)
<1>1. PICK r \in [Alarm -> Nat] : Linked(S, h, nx, r) /\ Ascending(S, t, r)
  BY DEF Whole
<1>2. Linked(S, h, nx2, r)
  BY <1>1, LinkedFrame
<1>3. Ascending(S, t2, r)
  BY <1>1, AscendingFrame
<1> QED
  BY <1>2, <1>3 DEF Whole

LEMMA WholeTail ==
  ASSUME NEW S \in SUBSET Alarm, NEW h \in S, NEW nx, NEW nx2, NEW t, NEW t2,
         Whole(S, h, nx, t), \A x \in S \ {h} : nx2[x] = nx[x] /\ t2[x] = t[x]
  PROVE  Whole(S \ {h}, nx[h], nx2, t2)
<1>1. PICK r \in [Alarm -> Nat] : Linked(S, h, nx, r) /\ Ascending(S, t, r)
  BY DEF Whole
<1>2. Linked(S \ {h}, nx[h], nx2, r)
  BY <1>1, LinkedTail
<1>3. Ascending(S \ {h}, t2, r)
  BY <1>1, AscendingFrame
<1> QED
  BY <1>2, <1>3 DEF Whole

LEMMA WholeCut ==
  ASSUME NEW S \in SUBSET Alarm, NEW h, NEW p \in S, NEW a \in S, NEW nx, NEW nx2,
         NEW t, NEW t2, Whole(S, h, nx, t), nx[p] = a, nx2[p] = nx[a],
         \A x \in S \ {p, a} : nx2[x] = nx[x], \A x \in S \ {a} : t2[x] = t[x]
  PROVE  Whole(S \ {a}, h, nx2, t2)
<1>1. PICK r \in [Alarm -> Nat] : Linked(S, h, nx, r) /\ Ascending(S, t, r)
  BY DEF Whole
<1>2. Linked(S \ {a}, h, nx2, r)
  BY <1>1, LinkedCut
<1>3. Ascending(S \ {a}, t2, r)
  BY <1>1, AscendingFrame
<1> QED
  BY <1>2, <1>3 DEF Whole

\* w is a walk along a whole list: it stays in S, sees every alarm of it, in the order of
\* the times, and ends.
Along(S, t, w) ==
  /\ \A n \in Steps : w[n] = None \/ w[n] \in S
  /\ \A n \in Steps, m \in Steps :
       m < n /\ w[n] # None => w[m] # None /\ w[m] # w[n] /\ t[w[m]] <= t[w[n]]
  /\ w[Cardinality(Alarm)] = None
  /\ \A x \in S : \E n \in Steps : w[n] = x

\* n is where the walk stops for the time of a: at the end, or at a later alarm.
PlaceOf(a, n, t, w) ==
  /\ w[n] = None \/ t[w[n]] > t[a]
  /\ \A m \in Steps : m < n => w[m] # None /\ ~(t[w[m]] > t[a])

\* The links nx with a put into the place n are the links nx2.
PutAt(a, n, S, w, nx, nx2) ==
  /\ nx2[a] = w[n]
  /\ n # 0 => nx2[w[n - 1]] = a
  /\ \A x \in S : (n = 0 \/ x # w[n - 1]) => nx2[x] = nx[x]

SameOn(S, t, t2) == \A x \in S : t2[x] = t[x]

LEMMA WholeWalk ==
  ASSUME NEW S \in SUBSET Alarm, NEW h, NEW nx, NEW t, Whole(S, h, nx, t),
         NEW w, WalksTo(Cardinality(Alarm), w, h, nx)
  PROVE  Along(S, t, w)
<1>1. PICK r \in [Alarm -> Nat] : Linked(S, h, nx, r) /\ Ascending(S, t, r)
  BY DEF Whole
<1>2. /\ \A n \in Steps : w[n] = None \/ w[n] \in S
      /\ \A n \in Steps, m \in Steps :
           m < n /\ w[n] # None => w[m] # None /\ r[w[m]] < r[w[n]]
      /\ w[Cardinality(Alarm)] = None
      /\ \A x \in S : \E n \in Steps : w[n] = x
  BY <1>1, WalkFacts, SMTT(30)
<1>3. ASSUME NEW n \in Steps, NEW m \in Steps, m < n, w[n] # None
      PROVE  w[m] # None /\ w[m] # w[n] /\ t[w[m]] <= t[w[n]]
  <2>1. w[m] # None /\ r[w[m]] < r[w[n]] /\ w[m] \in S /\ w[n] \in S
    BY <1>2, <1>3
  <2>2. r[w[m]] \in Nat
    BY <2>1
  <2>3. t[w[m]] <= t[w[n]]
    BY <1>1, <2>1 DEF Ascending
  <2> QED
    BY <2>1, <2>2, <2>3
<1> QED
  BY <1>2, <1>3 DEF Along

\* Where the walk stops, at its end or at an alarm later than the new time, the list
\* stays whole with the new alarm in that place.
LEMMA WholeInsert ==
  ASSUME NEW S \in SUBSET Alarm, NEW h, NEW nx, NEW nx2, NEW a \in Alarm \ S,
         NEW t \in [Alarm -> Nat], NEW t2 \in [Alarm -> Nat], Whole(S, h, nx, t),
         NEW w, WalksTo(Cardinality(Alarm), w, h, nx), SameOn(S, t, t2),
         NEW n \in Steps, PlaceOf(a, n, t2, w), PutAt(a, n, S, w, nx, nx2),
         NEW h2, h2 = IF n = 0 THEN a ELSE h
  PROVE  Whole(S \union {a}, h2, nx2, t2)
<1>0. /\ \A x \in S : t2[x] = t[x]
      /\ w[n] = None \/ t2[w[n]] > t2[a]
      /\ \A m \in Steps : m < n => w[m] # None /\ ~(t2[w[m]] > t2[a])
      /\ nx2[a] = w[n]
      /\ n # 0 => nx2[w[n - 1]] = a
      /\ \A x \in S : (n = 0 \/ x # w[n - 1]) => nx2[x] = nx[x]
  BY DEF SameOn, PlaceOf, PutAt
<1>1. PICK r \in [Alarm -> Nat] : Linked(S, h, nx, r) /\ Ascending(S, t, r)
  BY DEF Whole
<1>2. n \in Nat /\ w[0] = h /\ (w[n] = None \/ w[n] \in S)
  <2>1. n \in Nat /\ w[0] = h
    BY StepsFinite DEF Steps, WalksTo
  <2>2. w[n] = None \/ w[n] \in S
    BY WholeWalk DEF Along
  <2> QED
    BY <2>1, <2>2
<1>3. \A x \in S : x \in Alarm /\ t2[x] \in Nat /\ t2[a] \in Nat
  OBVIOUS
<1>4. CASE n = 0
  <2>1. \A x \in S : x = h => t2[a] <= t2[x]
    BY <1>0, <1>2, <1>3, <1>4
  <2>2. nx2[a] = h /\ \A x \in S : nx2[x] = nx[x]
    BY <1>0, <1>2, <1>4
  <2>3. Whole(S \union {a}, a, nx2, t2)
    BY <1>0, <1>1, <2>1, <2>2, LinkedFirst
  <2> QED
    BY <1>4, <2>3
<1>5. CASE n # 0
  <2>1. n - 1 \in Steps /\ n - 1 < n /\ n \in 1 .. Cardinality(Alarm)
    BY <1>2, <1>5, StepsFinite DEF Steps
  <2>2. w[n - 1] # None /\ ~(t2[w[n - 1]] > t2[a])
    BY <1>0, <2>1
  <2>3. w[n - 1] \in S
    BY <2>1, <2>2, WholeWalk DEF Along
  <2>4. PICK p \in S : p = w[n - 1]
    BY <2>3
  <2>5. w[n] = nx[p]
    BY <2>1, <2>2, <2>4 DEF WalksTo
  <2>6. t2[p] <= t2[a] /\ \A x \in S : x = nx[p] => t2[a] <= t2[x]
    BY <1>0, <1>3, <2>2, <2>4, <2>5
  <2>7. nx2[p] = a /\ nx2[a] = nx[p] /\ \A x \in S \ {p} : nx2[x] = nx[x]
    BY <1>0, <1>5, <2>4, <2>5
  <2>8. Whole(S \union {a}, h, nx2, t2)
    BY <1>0, <1>1, <2>6, <2>7, LinkedAfter
  <2> QED
    BY <1>5, <2>8
<1> QED
  BY <1>4, <1>5

LEMMA EmptyWhole ==
  ASSUME NEW nx, NEW t
  PROVE  Whole({}, None, nx, t)
<1>1. [x \in Alarm |-> 0] \in [Alarm -> Nat]
  OBVIOUS
<1> QED
  BY <1>1 DEF Whole, Linked, Ascending

-----------------------------------------------------------------------------
(* Types                                                                   *)

LEMMA PlusValue ==
  ASSUME NEW u \in Value, NEW v \in Value
  PROVE  Plus(u, v) \in Value
<1>1. u + v \in Nat /\ MaxValue + 1 \in Nat \ {0}
  BY DEF Value
<1>2. \A x \in Nat, y \in Nat \ {0} : x % y \in 0 .. y - 1
  OBVIOUS
<1>3. (u + v) % (MaxValue + 1) \in 0 .. (MaxValue + 1) - 1
  BY <1>1, <1>2
<1> QED
  BY <1>3 DEF Plus, Value

LEMMA CallTypes ==
  ASSUME TypeOK
  PROVE  calls \in Seq(CallSet) /\ (calls # <<>> => Len(calls) \in Nat \ {0} /\ Top \in CallSet)
<1>1. calls \in Seq(CallSet)
  BY DEF TypeOK, CallSet, Ops, Link
<1>2. calls # <<>> => Len(calls) \in Nat \ {0}
  BY <1>1
<1>3. calls # <<>> => Len(calls) \in 1 .. Len(calls)
  BY <1>2
<1> QED
  BY <1>1, <1>2, <1>3 DEF Top

LEMMA CallSetFields ==
  ASSUME NEW x \in CallSet
  PROVE  x.op \in Ops /\ x.c \in Counter /\ x.a \in Link /\ x.v \in Value
BY DEF CallSet

\* The walk along a list, of the right type in every state.
LEMMA HopTypes ==
  ASSUME TypeOK, NEW c \in Counter
  PROVE  /\ WalksTo(Cardinality(Alarm), Hop(c), head[c], nextalarm)
         /\ DOMAIN Hop(c) = Steps /\ \A n \in Steps : Hop(c)[n] \in Link
<1>1. head \in [Counter -> Link] /\ nextalarm \in [Alarm -> Link]
  BY DEF TypeOK, Link
<1>2. WalksTo(Cardinality(Alarm), Hop(c), head[c], nextalarm)
  BY <1>1, HopWalks
<1> QED
  BY <1>2 DEF WalksTo, Steps

\* The place of the first stop
LEMMA FirstStop ==
  ASSUME TypeOK, NEW c \in Counter, NEW a, NEW v, Stops(a, c, v) # {}
  PROVE  /\ Min(Stops(a, c, v)) \in Steps /\ Min(Stops(a, c, v)) \in Stops(a, c, v)
         /\ \A m \in Stops(a, c, v) : Min(Stops(a, c, v)) <= m
<1>1. Stops(a, c, v) \subseteq Steps
  BY HopTypes DEF Stops
<1>2. Stops(a, c, v) \in SUBSET Nat
  BY <1>1, StepsFinite DEF Steps
<1> QED
  BY <1>1, <1>2, MinOf

LEMMA SetAlarmTypes ==
  ASSUME TypeOK, NEW a \in Link, NEW c \in Counter, NEW v \in Value,
         NEW rest \in Seq(CallSet), SetAlarm(a, c, v, rest)
  PROVE  TypeOK'
<1>1. CASE Stops(a, c, v) = {}
  BY <1>1 DEF SetAlarm, Panic, TypeOK, alarmVars
<1>2. CASE Stops(a, c, v) # {}
  <2>1. PICK n \in Steps : n = Min(Stops(a, c, v))
    BY <1>2, FirstStop
  <2>2. /\ expirytime' = [expirytime EXCEPT ![a] = v]
        /\ counter'    = [counter EXCEPT ![a] = c]
        /\ calls' = rest /\ value' = value /\ panic' = panic
        /\ \/ /\ nextalarm' = [nextalarm EXCEPT ![a] = head[c]]
              /\ head'      = [head EXCEPT ![c] = a]
           \/ /\ nextalarm' = [nextalarm EXCEPT ![a] = Hop(c)[n], ![Hop(c)[n - 1]] = a]
              /\ head' = head
    BY <1>2, <2>1 DEF SetAlarm
  <2>3. Hop(c)[n] \in Link /\ head[c] \in Link
    BY HopTypes DEF TypeOK, Link
  <2>4. expirytime' \in [Alarm -> Value] /\ counter' \in [Alarm -> Counter \union {None}]
    BY <2>2 DEF TypeOK
  <2>5. nextalarm' \in [Alarm -> Link] /\ head' \in [Counter -> Link]
    <3>1. nextalarm \in [Alarm -> Link] /\ head \in [Counter -> Link]
      BY DEF TypeOK, Link
    <3> QED
      BY <2>2, <2>3, <3>1
  <2>6. value' \in [Counter -> Value] /\ calls' \in Seq(CallSet)
        /\ panic' \in {"none", "AlarmCorrupt", "CounterOverflow", "hang"}
    BY <2>2 DEF TypeOK
  <2> QED
    BY <2>4, <2>5, <2>6 DEF TypeOK, CallSet, Ops, Link
<1> QED
  BY <1>1, <1>2

LEMMA StopAlarmTypes ==
  ASSUME TypeOK, NEW a \in Alarm, StopAlarm(a)
  PROVE  TypeOK'
<1>1. nextalarm \in [Alarm -> Link] /\ head \in [Counter -> Link] /\ nextalarm[a] \in Link
  BY DEF TypeOK, Link
<1>2. nextalarm' \in [Alarm -> Link] /\ head' \in [Counter -> Link]
  BY <1>1 DEF StopAlarm, Unlink, Panic, alarmVars, Link
<1>3. /\ expirytime' = expirytime \/ expirytime' = [expirytime EXCEPT ![a] = 0]
      /\ counter' = counter \/ counter' = [counter EXCEPT ![a] = None]
      /\ value' = value /\ calls' = calls
      /\ panic' \in {panic, "AlarmCorrupt", "hang"}
  BY DEF StopAlarm, Panic, alarmVars
<1>4. 0 \in Value
  BY DEF Value
<1>5. expirytime' \in [Alarm -> Value] /\ counter' \in [Alarm -> Counter \union {None}]
  BY <1>3, <1>4 DEF TypeOK
<1> QED
  BY <1>2, <1>3, <1>5 DEF TypeOK, Link

LEMMA TypeStep ==
  ASSUME TypeOK, [Next]_vars
  PROVE  TypeOK'
<1>0. calls \in Seq(CallSet) /\ 0 \in Value /\ None \in Link
  BY CallTypes DEF Value, Link
<1>1. ASSUME NEW op \in {"abs", "rel"}, NEW c \in Counter, NEW a \in Alarm, NEW v \in Value,
             BeginSet(op, c, a, v)
      PROVE  TypeOK'
  <2>1. Call(op, c, a, v) \in CallSet
    BY DEF Call, CallSet, Ops, Link
  <2>2. calls' \in Seq(CallSet)
    BY <1>0, <1>1, <2>1 DEF BeginSet
  <2> QED
    BY <1>1, <2>2 DEF BeginSet, TypeOK, alarmVars, CallSet, Ops, Link
<1>2. ASSUME NEW a \in Alarm, StopAlarm(a) PROVE TypeOK'
  BY <1>2, StopAlarmTypes
<1>3. ASSUME NEW c \in Counter, NEW n \in Value, AdvanceCounter(c, n) PROVE TypeOK'
  <2>1. CASE Plus(value[c], n) < value[c]
    BY <1>3, <2>1 DEF AdvanceCounter, Panic, TypeOK, alarmVars
  <2>2. CASE ~(Plus(value[c], n) < value[c])
    <3>1. value[c] \in Value
      BY DEF TypeOK
    <3>2. value' = [value EXCEPT ![c] = Plus(value[c], n)] /\ Plus(value[c], n) \in Value
      BY <1>3, <2>2, <3>1, PlusValue DEF AdvanceCounter
    <3>3. Call("advance", c, None, 0) \in CallSet
      BY <1>0 DEF Call, CallSet, Ops, Link
    <3>4. calls' \in Seq(CallSet)
      BY <1>0, <1>3, <2>2, <3>3 DEF AdvanceCounter
    <3>5. value' \in [Counter -> Value]
      BY <3>2 DEF TypeOK
    <3> QED
      BY <1>3, <2>2, <3>4, <3>5 DEF AdvanceCounter, TypeOK, alarmVars, CallSet, Ops, Link
  <2> QED
    BY <2>1, <2>2
<1>4. ASSUME EndSet PROVE TypeOK'
  <2>1. calls # <<>> /\ Top \in CallSet
    BY <1>4, CallTypes DEF EndSet, Setting
  <2>2. Caller \in Seq(CallSet)
    BY <1>0, <2>1, CallPopped DEF Caller
  <2>3. Top.c \in Counter /\ Top.a \in Link /\ Target(Top.op, Top.c, Top.v) \in Value
    <3>1. Top.c \in Counter /\ Top.a \in Link /\ Top.v \in Value
      BY <2>1, CallSetFields
    <3>2. value[Top.c] \in Value
      BY <3>1 DEF TypeOK
    <3>3. Plus(value[Top.c], Top.v) \in Value
      BY <3>1, <3>2, PlusValue
    <3> QED
      BY <3>1, <3>3 DEF Target
  <2>4. CASE SetAlarm(Top.a, Top.c, Target(Top.op, Top.c, Top.v), Caller)
    BY <2>2, <2>3, <2>4, SetAlarmTypes
  <2>5. CASE calls' = Caller /\ UNCHANGED <<value, head, alarmVars, panic>>
    BY <2>2, <2>5 DEF TypeOK, alarmVars, CallSet, Ops, Link
  <2> QED
    BY <1>4, <2>4, <2>5 DEF EndSet
<1>5. ASSUME Expire PROVE TypeOK'
  <2>1. calls # <<>> /\ Top \in CallSet /\ Top.c \in Counter
    BY <1>5, CallTypes, CallSetFields DEF Expire, Looping
  <2>2. head[Top.c] \in Alarm /\ nextalarm[head[Top.c]] \in Link
    BY <1>5, <2>1 DEF Expire, Due, TypeOK, Link
  <2>3. calls' \in Seq(CallSet)
    <3>1. head[Top.c] \in Link
      BY <2>2 DEF Link
    <3> QED
      BY <1>0, <1>5, <2>1, <3>1, CallTurned DEF Expire
  <2>4. head' \in [Counter -> Link]
    BY <1>5, <2>2 DEF Expire, TypeOK, Link
  <2> QED
    BY <1>5, <2>3, <2>4 DEF Expire, TypeOK, alarmVars, CallSet, Ops, Link
<1>6. ASSUME NEW inc \in Value, ExpiryReturns(inc) PROVE TypeOK'
  <2>1. calls # <<>> /\ Top \in CallSet /\ Top.c \in Counter /\ Top.a \in Alarm
    BY <1>6, CallTypes, CallSetFields DEF ExpiryReturns, Link
  <2>2. PICK loop : loop = [calls EXCEPT ![Len(calls)].a = None]
    OBVIOUS
  <2>3. loop \in Seq(CallSet)
    BY <1>0, <2>1, <2>2, CallTurned
  <2>4. CASE StopsRepeating(Top.a, inc)
    <3>1. /\ expirytime' = [expirytime EXCEPT ![Top.a] = 0]
          /\ counter'    = [counter EXCEPT ![Top.a] = None]
          /\ nextalarm'  = [nextalarm EXCEPT ![Top.a] = None]
          /\ calls'      = loop
          /\ UNCHANGED <<value, head, panic>>
      BY <1>6, <2>2, <2>4 DEF ExpiryReturns
    <3>2. expirytime' \in [Alarm -> Value] /\ counter' \in [Alarm -> Counter \union {None}]
          /\ nextalarm' \in [Alarm -> Link]
      BY <1>0, <3>1 DEF TypeOK, Link
    <3> QED
      BY <2>3, <3>1, <3>2 DEF TypeOK, CallSet, Ops, Link
  <2>5. CASE ~StopsRepeating(Top.a, inc)
    <3>1. expirytime[Top.a] \in Value
      BY <2>1 DEF TypeOK
    <3>2. Plus(expirytime[Top.a], inc) \in Value
      BY <3>1, PlusValue
    <3>3. SetAlarm(Top.a, Top.c, Plus(expirytime[Top.a], inc), loop)
      BY <1>6, <2>2, <2>5 DEF ExpiryReturns
    <3>4. Top.a \in Link
      BY <2>1 DEF Link
    <3> QED
      BY <2>1, <2>3, <3>2, <3>3, <3>4, SetAlarmTypes
  <2> QED
    BY <2>4, <2>5
<1>7. ASSUME EndAdvance PROVE TypeOK'
  <2>1. Caller \in Seq(CallSet)
    BY <1>0, <1>7, CallPopped DEF Caller, EndAdvance, Looping
  <2> QED
    BY <1>7, <2>1 DEF EndAdvance, TypeOK, alarmVars, CallSet, Ops, Link
<1>8. CASE UNCHANGED vars
  BY <1>8 DEF TypeOK, vars, alarmVars
<1> QED
  BY <1>1, <1>2, <1>3, <1>4, <1>5, <1>6, <1>7, <1>8 DEF Next, Begin, Return

\* Every variable keeps its type, whichever rules the application breaks: counters and
\* times stay within dv_u64_t, links name alarms (davroska-time.c).
THEOREM TypeCorrect == Spec => []TypeOK
<1>1. Init => TypeOK
  BY DEF Init, TypeOK, Value
<1>2. TypeOK /\ [Next]_vars => TypeOK'
  BY TypeStep
<1> QED
  BY <1>1, <1>2, PTL DEF Spec

-----------------------------------------------------------------------------
(* The invariant: the lists of the counters                                *)

\* The application keeps the two rules on which the lists depend.
KeepsRules == SetsTwice \notin Liberties /\ StopsExpiring \notin Liberties

\* The alarms that belong on the list of c
On(c) == {a \in Alarm : counter[a] = c} \ Expiring

CallsInv == CallsFit(calls, expirytime)
UseInv   == \A a \in Alarm : expirytime[a] # 0 <=> counter[a] # None
ListInv  == \A c \in Counter : Whole(On(c), head[c], nextalarm, expirytime)
PanicInv == panic \in {"none", "CounterOverflow"}

IInv == TypeOK /\ CallsInv /\ UseInv /\ ListInv /\ PanicInv

LEMMA OnAlarms ==
  ASSUME NEW c \in Counter
  PROVE  /\ On(c) \in SUBSET Alarm
         /\ \A d \in Counter : d # c => On(c) \cap On(d) = {}
BY DEF On

\* The steps between which the lists are not touched.
LEMMA SameLists ==
  ASSUME IInv, TypeOK', CallsInv', UNCHANGED <<head, expirytime, counter, nextalarm>>,
         Expiring' = Expiring, PanicInv'
  PROVE  IInv'
<1>1. \A c \in Counter : On(c)' = On(c)
  BY DEF On
<1>2. \A c \in Counter : Whole(On(c)', head'[c], nextalarm', expirytime')
  BY <1>1 DEF IInv, ListInv
<1>3. ListInv'
  BY <1>2 DEF ListInv
<1>4. UseInv'
  BY DEF IInv, UseInv
<1> QED
  BY <1>3, <1>4 DEF IInv

\* The alarm a has been linked in where the walk along the list of c stops after n steps.
PlacedAt(a, c, n) ==
  /\ PlaceOf(a, n, expirytime', Hop(c))
  /\ n # 0 => Hop(c)[n - 1] \in On(c)
  /\ nextalarm'[a] = Hop(c)[n]
  /\ n # 0 => nextalarm'[Hop(c)[n - 1]] = a
  /\ \A x \in Alarm : x # a /\ (n = 0 \/ x # Hop(c)[n - 1]) => nextalarm'[x] = nextalarm[x]
  /\ head'[c] = IF n = 0 THEN a ELSE head[c]
  /\ \A d \in Counter : d # c => head'[d] = head[d]

\* dv_setalarm() finds the place of the alarm, ...
LEMMA SetAlarmPlace ==
  ASSUME IInv, NEW a \in Alarm, NEW c \in Counter, NEW v \in Value, NEW rest,
         \A d \in Counter : a \notin On(d), SetAlarm(a, c, v, rest)
  PROVE  /\ expirytime' = [expirytime EXCEPT ![a] = v]
         /\ counter'    = [counter EXCEPT ![a] = c]
         /\ calls' = rest /\ UNCHANGED <<value, panic>>
         /\ \E n \in Steps : PlacedAt(a, c, n)
<1> DEFINE w == Hop(c)
           N == Cardinality(Alarm)
<1>0. TypeOK /\ N \in Nat /\ \A d \in Counter : Whole(On(d), head[d], nextalarm, expirytime)
  BY StepsFinite DEF IInv, ListInv
<1>1. /\ WalksTo(N, w, head[c], nextalarm) /\ DOMAIN w = Steps
      /\ \A n \in Steps : w[n] \in Link
  BY <1>0, HopTypes
<1>2. On(c) \in SUBSET Alarm /\ a \in Alarm \ On(c)
  BY OnAlarms
<1>3. /\ \A n \in Steps : w[n] = None \/ w[n] \in On(c)
      /\ w[N] = None
      /\ \A n \in Steps, m \in Steps : m < n /\ w[n] # None => w[m] # None /\ w[m] # w[n]
  <2>1. PICK S \in SUBSET Alarm : S = On(c)
    BY <1>2
  <2>2. Whole(S, head[c], nextalarm, expirytime)
    BY <1>0, <2>1
  <2>3. Along(S, expirytime, w)
    <3> HIDE DEF w
    <3> QED
      BY <1>1, <2>2, WholeWalk DEF N
  <2> HIDE DEF w
  <2> QED
    BY <2>1, <2>3 DEF Along, N
<1>4. N \in Stops(a, c, v)
  <2>1. N \in DOMAIN Hop(c) /\ Hop(c)[N] = None
    BY <1>0, <1>1, <1>3 DEF Steps
  <2> QED
    BY <2>1 DEF Stops
<1>5. PICK n \in Steps : /\ n = Min(Stops(a, c, v)) /\ n \in Stops(a, c, v)
                         /\ \A m \in Stops(a, c, v) : n <= m
  BY <1>0, <1>4, FirstStop
<1>6. PICK t2 : t2 = [expirytime EXCEPT ![a] = v]
  OBVIOUS
<1>7. /\ t2 \in [Alarm -> Nat] /\ expirytime \in [Alarm -> Nat] /\ t2[a] = v
      /\ \A x \in Alarm : x # a => t2[x] = expirytime[x]
  BY <1>0, <1>6 DEF TypeOK, Value
<1>8. /\ expirytime' = t2 /\ counter' = [counter EXCEPT ![a] = c]
      /\ calls' = rest /\ panic' = panic /\ value' = value
      /\ \/ /\ n = 0
            /\ nextalarm' = [nextalarm EXCEPT ![a] = head[c]]
            /\ head'      = [head EXCEPT ![c] = a]
         \/ /\ n # 0
            /\ nextalarm' = [nextalarm EXCEPT ![a] = Hop(c)[n], ![Hop(c)[n - 1]] = a]
            /\ head' = head
  BY <1>4, <1>5, <1>6 DEF SetAlarm
<1>9. \A m \in Steps : m \in Stops(a, c, v) <=> w[m] = None \/ t2[w[m]] > t2[a]
  BY <1>1, <1>6, <1>7 DEF Stops
<1> HIDE DEF w, N
<1>10. w[n] = None \/ t2[w[n]] > t2[a]
  BY <1>5, <1>9
<1>11. ASSUME NEW m \in Steps, m < n PROVE w[m] # None /\ ~(t2[w[m]] > t2[a])
  <2>1. m \notin Stops(a, c, v)
    <3>1. n \in Nat /\ m \in Nat
      BY <1>0 DEF Steps, N
    <3> QED
      BY <1>5, <1>11, <3>1
  <2> QED
    BY <1>9, <2>1
<1>12. /\ n # 0 => w[n - 1] \in On(c) /\ w[n - 1] # a
       /\ n \in Nat /\ w[0] = head[c]
  <2>1. n \in Nat /\ w[0] = head[c]
    BY <1>0, <1>1 DEF Steps, N, WalksTo
  <2>2. ASSUME n # 0 PROVE w[n - 1] \in On(c)
    <3>1. n - 1 \in Steps /\ n - 1 < n
      BY <1>0, <2>1, <2>2 DEF Steps, N
    <3> QED
      BY <1>3, <1>11, <3>1
  <2> QED
    BY <1>2, <2>1, <2>2
<1>13. nextalarm \in [Alarm -> Link] /\ head \in [Counter -> Link]
  BY <1>0 DEF TypeOK, Link
<1>14. /\ nextalarm'[a] = w[n]
       /\ n # 0 => nextalarm'[w[n - 1]] = a
       /\ \A x \in Alarm : x # a /\ (n = 0 \/ x # w[n - 1]) => nextalarm'[x] = nextalarm[x]
       /\ head'[c] = IF n = 0 THEN a ELSE head[c]
       /\ \A d \in Counter : d # c => head'[d] = head[d]
  <2>1. CASE n = 0
    BY <1>8, <1>12, <1>13, <2>1
  <2>2. CASE n # 0
    <3>1. nextalarm' = [nextalarm EXCEPT ![a] = w[n], ![w[n - 1]] = a] /\ head' = head
      BY <1>8, <2>2 DEF w
    <3>2. w[n - 1] \in Alarm /\ w[n - 1] # a
      BY <1>2, <1>12, <2>2
    <3> QED
      BY <1>13, <2>2, <3>1, <3>2
  <2> QED
    BY <2>1, <2>2
<1>15. PlaceOf(a, n, expirytime', w)
  BY <1>8, <1>10, <1>11 DEF PlaceOf
<1>16. PlacedAt(a, c, n)
  BY <1>12, <1>14, <1>15 DEF PlacedAt, w
<1> QED
  BY <1>6, <1>8, <1>16

\* ... and the lists stay whole.
LEMMA SetAlarmEffect ==
  ASSUME IInv, NEW a \in Alarm, NEW c \in Counter, NEW v \in Value, NEW rest,
         \A d \in Counter : a \notin On(d), SetAlarm(a, c, v, rest)
  PROVE  /\ Whole(On(c) \union {a}, head'[c], nextalarm', expirytime')
         /\ \A d \in Counter : d # c => Whole(On(d), head'[d], nextalarm', expirytime')
<1>0. TypeOK /\ \A d \in Counter : Whole(On(d), head[d], nextalarm, expirytime)
  BY DEF IInv, ListInv
<1>1. PICK t2 : t2 = expirytime' /\ t2 = [expirytime EXCEPT ![a] = v]
  BY SetAlarmPlace
<1>2. PICK n \in Steps : PlacedAt(a, c, n)
  BY SetAlarmPlace
<1>3. PICK w : w = Hop(c)
  OBVIOUS
<1>4. /\ PlaceOf(a, n, t2, w)
      /\ n # 0 => w[n - 1] \in On(c)
      /\ nextalarm'[a] = w[n]
      /\ n # 0 => nextalarm'[w[n - 1]] = a
      /\ \A x \in Alarm : x # a /\ (n = 0 \/ x # w[n - 1]) => nextalarm'[x] = nextalarm[x]
      /\ head'[c] = IF n = 0 THEN a ELSE head[c]
      /\ \A d \in Counter : d # c => head'[d] = head[d]
  BY <1>1, <1>2, <1>3 DEF PlacedAt
<1>5. /\ t2 \in [Alarm -> Nat] /\ expirytime \in [Alarm -> Nat]
      /\ \A x \in Alarm : x # a => t2[x] = expirytime[x]
  BY <1>0, <1>1 DEF TypeOK, Value
<1>6. On(c) \in SUBSET Alarm /\ a \in Alarm \ On(c)
  BY OnAlarms
<1>7. Whole(On(c) \union {a}, head'[c], nextalarm', expirytime')
  <2>0. PICK S \in SUBSET Alarm : S = On(c)
    BY <1>6
  <2>1. SameOn(S, expirytime, t2) /\ PutAt(a, n, S, w, nextalarm, nextalarm')
    BY <1>4, <1>5, <1>6, <2>0 DEF SameOn, PutAt
  <2>2. Whole(S, head[c], nextalarm, expirytime) /\ a \in Alarm \ S
    BY <1>0, <1>6, <2>0
  <2>3. WalksTo(Cardinality(Alarm), w, head[c], nextalarm)
    BY <1>0, <1>3, HopTypes
  <2>4. PlaceOf(a, n, t2, w) /\ head'[c] = IF n = 0 THEN a ELSE head[c]
    BY <1>4
  <2>5. t2 \in [Alarm -> Nat] /\ expirytime \in [Alarm -> Nat]
    BY <1>5
  <2>6. Whole(S \union {a}, head'[c], nextalarm', t2)
    BY <2>1, <2>2, <2>3, <2>4, <2>5, WholeInsert
  <2> QED
    BY <1>1, <2>0, <2>6
<1>8. ASSUME NEW d \in Counter, d # c
      PROVE  Whole(On(d), head'[d], nextalarm', expirytime')
  <2>1. \A x \in On(d) : x \in Alarm /\ x # a /\ x \notin On(c)
    BY <1>8, OnAlarms
  <2>2. \A x \in On(d) : nextalarm'[x] = nextalarm[x] /\ t2[x] = expirytime[x]
    BY <1>4, <1>5, <2>1
  <2>3. Whole(On(d), head[d], nextalarm', t2)
    BY <1>0, <2>2, WholeFrame
  <2> QED
    BY <1>1, <1>4, <1>8, <2>3
<1> QED
  BY <1>7, <1>8

LEMMA ExpiringDef == Expiring = ExpiringIn(calls)
BY DEF Expiring, ExpiringIn

LEMMA BeginSetStep ==
  ASSUME IInv, KeepsRules, NEW op \in {"abs", "rel"}, NEW c \in Counter, NEW a \in Alarm,
         NEW v \in Value, BeginSet(op, c, a, v), TypeOK'
  PROVE  IInv'
<1>1. PICK x : x = Call(op, c, a, v)
  OBVIOUS
<1>2. x \in CallSet /\ x.op # "advance" /\ x.a = a /\ x.v # 0 /\ x.op \in {"abs", "rel"}
  BY <1>1 DEF Call, CallSet, Ops, Link, BeginSet
<1>3. calls \in Seq(CallSet) /\ calls' = Append(calls, x) /\ CallsFit(calls, expirytime)
  BY <1>1, CallTypes DEF BeginSet, IInv, CallsInv
<1>4. expirytime[a] = 0
  BY DEF BeginSet, InUse
<1>5. \A i \in 1 .. Len(calls) : calls[i].op # "advance" => calls[i].a # a
  <2>1. \A i \in 1 .. Len(calls) : calls[i].op \in {"abs", "rel"} => calls[i].a # a
    BY DEF BeginSet, KeepsRules
  <2>2. \A i \in 1 .. Len(calls) : calls[i] \in CallSet
    BY <1>3
  <2> QED
    BY <2>1, <2>2, CallSetFields DEF Ops
<1>6. ExpiringIn(calls') = ExpiringIn(calls) /\ CallsFit(calls', expirytime)
  BY <1>2, <1>3, <1>4, <1>5, PushedSet
<1>7. UNCHANGED <<head, expirytime, counter, nextalarm, panic>>
  BY DEF BeginSet, alarmVars
<1>8. CallsInv' /\ Expiring' = Expiring /\ PanicInv'
  BY <1>6, <1>7 DEF CallsInv, Expiring, ExpiringIn, IInv, PanicInv
<1> QED
  BY <1>7, <1>8, SameLists

LEMMA AdvanceStep ==
  ASSUME IInv, NEW c \in Counter, NEW n \in Value, AdvanceCounter(c, n), TypeOK'
  PROVE  IInv'
<1>1. CASE Plus(value[c], n) < value[c]
  <2>1. calls' = calls /\ UNCHANGED <<head, expirytime, counter, nextalarm>>
        /\ panic' = "CounterOverflow"
    BY <1>1 DEF AdvanceCounter, Panic, alarmVars
  <2>2. CallsInv' /\ Expiring' = Expiring /\ PanicInv'
    BY <2>1 DEF CallsInv, Expiring, IInv, PanicInv
  <2> QED
    BY <2>1, <2>2, SameLists
<1>2. CASE ~(Plus(value[c], n) < value[c])
  <2>1. PICK x : x = Call("advance", c, None, 0)
    OBVIOUS
  <2>2. x \in CallSet /\ x.op = "advance" /\ x.a = None
    BY <2>1 DEF Call, CallSet, Ops, Link, Value
  <2>3. calls \in Seq(CallSet) /\ calls' = Append(calls, x) /\ CallsFit(calls, expirytime)
    BY <1>2, <2>1, CallTypes DEF AdvanceCounter, IInv, CallsInv
  <2>4. ExpiringIn(calls') = ExpiringIn(calls) /\ CallsFit(calls', expirytime)
    BY <2>2, <2>3, PushedAdvance
  <2>5. UNCHANGED <<head, expirytime, counter, nextalarm, panic>>
    BY <1>2 DEF AdvanceCounter, alarmVars
  <2>6. CallsInv' /\ Expiring' = Expiring /\ PanicInv'
    BY <2>4, <2>5 DEF CallsInv, Expiring, ExpiringIn, IInv, PanicInv
  <2> QED
    BY <2>5, <2>6, SameLists
<1> QED
  BY <1>1, <1>2

\* The alarm a has been unlinked from the list of c, where it was in the place n.
UnlinkedAt(a, c, n) ==
  /\ Hop(c)[n] = a
  /\ n # 0 => /\ Hop(c)[n - 1] \in On(c) /\ Hop(c)[n - 1] # a
              /\ nextalarm[Hop(c)[n - 1]] = a
              /\ nextalarm'[Hop(c)[n - 1]] = nextalarm[a]
  /\ \A x \in Alarm : x # a /\ (n = 0 \/ x # Hop(c)[n - 1]) => nextalarm'[x] = nextalarm[x]
  /\ head'[c] = IF n = 0 THEN nextalarm[a] ELSE head[c]
  /\ \A d \in Counter : d # c => head'[d] = head[d]

\* An alarm in use that is stopped is found in its counter's list, and what follows it
\* is linked to what goes before.
LEMMA StopAlarmPlace ==
  ASSUME IInv, KeepsRules, NEW a \in Alarm, StopAlarm(a), NEW c, c = counter[a], c # None
  PROVE  /\ c \in Counter /\ a \in On(c)
         /\ expirytime' = [expirytime EXCEPT ![a] = 0]
         /\ counter'    = [counter EXCEPT ![a] = None]
         /\ UNCHANGED <<value, calls, panic>>
         /\ \E n \in Steps : UnlinkedAt(a, c, n)
<1>0. /\ TypeOK /\ \A d \in Counter : Whole(On(d), head[d], nextalarm, expirytime)
      /\ nextalarm \in [Alarm -> Link] /\ head \in [Counter -> Link]
  BY DEF IInv, ListInv, TypeOK, Link
<1>1. c \in Counter /\ a \in On(c) /\ On(c) \in SUBSET Alarm
  <2>1. a \notin Expiring
    BY DEF StopAlarm, KeepsRules
  <2> QED
    BY <1>0, <2>1 DEF On, TypeOK
<1>2. PICK S \in SUBSET Alarm : S = On(c)
  BY <1>1
<1>3. PICK w : w = Hop(c)
  OBVIOUS
<1>4. /\ WalksTo(Cardinality(Alarm), w, head[c], nextalarm)
      /\ Whole(S, head[c], nextalarm, expirytime)
  BY <1>0, <1>1, <1>2, <1>3, HopTypes
<1>5. Along(S, expirytime, w)
  BY <1>4, WholeWalk
<1>6. PICK preds : preds = {n \in 0 .. Cardinality(Alarm) - 1 : Hop(c)[n + 1] = a}
  OBVIOUS
<1>7. head[c] # a => preds # {}
  <2> SUFFICES ASSUME head[c] # a PROVE preds # {}
    OBVIOUS
  <2>1. PICK n \in Steps : w[n] = a
    BY <1>1, <1>2, <1>5 DEF Along
  <2>2. n # 0
    BY <1>4, <2>1 DEF WalksTo
  <2>3. n - 1 \in 0 .. Cardinality(Alarm) - 1 /\ (n - 1) + 1 = n
    BY <2>2, StepsFinite DEF Steps
  <2>4. Hop(c)[(n - 1) + 1] = a
    BY <1>3, <2>1, <2>3
  <2> QED
    BY <1>6, <2>3, <2>4
\* Whichever case applies, this is its effect.
<1>8. /\ expirytime' = [expirytime EXCEPT ![a] = 0]
      /\ counter'    = [counter EXCEPT ![a] = None]
      /\ UNCHANGED <<value, calls, panic>>
      /\ \/ /\ head[c] = a
            /\ head'      = [head EXCEPT ![c] = nextalarm[a]]
            /\ nextalarm' = [nextalarm EXCEPT ![a] = None]
         \/ /\ head[c] # a
            /\ head' = head
            /\ nextalarm' = Unlink(a, Hop(c)[Min(preds)])
  <2>1. CASE head[c] = a
    BY <2>1 DEF StopAlarm
  <2>2. CASE head[c] # a
    BY <1>6, <1>7, <2>2 DEF StopAlarm
  <2> QED
    BY <2>1, <2>2
<1>9. \E n \in Steps : UnlinkedAt(a, c, n)
  <2>1. CASE head[c] = a
    <3>1. 0 \in Steps /\ Hop(c)[0] = a
      BY <1>3, <1>4, <2>1, StepsFinite DEF Steps, WalksTo
    <3>2. /\ head'[c] = nextalarm[a] /\ \A d \in Counter : d # c => head'[d] = head[d]
          /\ \A x \in Alarm : x # a => nextalarm'[x] = nextalarm[x]
      BY <1>0, <1>1, <1>8, <2>1
    <3> QED
      BY <3>1, <3>2 DEF UnlinkedAt
  <2>2. CASE head[c] # a
    <3>1. preds # {} /\ preds \in SUBSET Nat
      BY <1>6, <1>7, <2>2, StepsFinite
    <3>2. PICK m \in preds : m = Min(preds)
      BY <3>1, MinOf
    <3>3. m \in Steps /\ m + 1 \in 1 .. Cardinality(Alarm) /\ (m + 1) - 1 = m /\ m + 1 \in Steps
          /\ w[m + 1] = a
      BY <1>3, <1>6, StepsFinite DEF Steps
    <3>4. w[m] # None /\ w[m] \in S /\ nextalarm[w[m]] = a
      <4>1. w[m + 1] = IF w[(m + 1) - 1] = None THEN None ELSE nextalarm[w[(m + 1) - 1]]
        BY <1>4, <3>3 DEF WalksTo
      <4>2. a # None
        BY AlarmAssumption
      <4>3. w[m] # None /\ nextalarm[w[m]] = a
        BY <3>3, <4>1, <4>2
      <4> QED
        BY <1>5, <3>3, <4>3 DEF Along
    <3>5. w[m] # a
      <4>1. m < m + 1 /\ w[m + 1] # None
        BY <3>3, AlarmAssumption, StepsFinite DEF Steps
      <4> QED
        BY <1>5, <3>3, <4>1 DEF Along
    <3>6. PICK p \in S : p = w[m]
      BY <3>4
    <3>7. head' = head /\ nextalarm' = [nextalarm EXCEPT ![p] = nextalarm[a], ![a] = None]
      BY <1>3, <1>8, <2>2, <3>2, <3>6 DEF Unlink
    <3>8. /\ nextalarm'[p] = nextalarm[a]
          /\ \A x \in Alarm : x # p /\ x # a => nextalarm'[x] = nextalarm[x]
      BY <1>0, <3>5, <3>6, <3>7
    <3>9. PICK n \in Steps : n = m + 1 /\ n - 1 = m /\ n # 0
      BY <3>3
    <3>10. /\ Hop(c)[n] = a /\ Hop(c)[n - 1] = p /\ p \in On(c) /\ p # a /\ nextalarm[p] = a
      BY <1>2, <1>3, <3>3, <3>4, <3>5, <3>6, <3>9
    <3> QED
      BY <3>7, <3>8, <3>9, <3>10 DEF UnlinkedAt
  <2> QED
    BY <2>1, <2>2
<1> QED
  BY <1>1, <1>8, <1>9

\* The lists stay whole.
LEMMA StopAlarmStep ==
  ASSUME IInv, KeepsRules, NEW a \in Alarm, StopAlarm(a), TypeOK'
  PROVE  IInv'
<1>0. /\ TypeOK /\ UseInv /\ CallsFit(calls, expirytime) /\ PanicInv
      /\ \A d \in Counter : Whole(On(d), head[d], nextalarm, expirytime)
      /\ nextalarm \in [Alarm -> Link] /\ head \in [Counter -> Link]
  BY DEF IInv, CallsInv, ListInv, TypeOK, Link
<1>1. a \notin Expiring
  BY DEF StopAlarm, KeepsRules
<1>2. PICK c : c = counter[a]
  OBVIOUS
<1>3. CASE c = None
  <2>1. /\ expirytime' = [expirytime EXCEPT ![a] = 0]
        /\ nextalarm'  = [nextalarm EXCEPT ![a] = None]
        /\ head' = head /\ counter' = counter /\ calls' = calls /\ panic' = panic
    BY <1>2, <1>3 DEF StopAlarm
  <2>2. expirytime[a] = 0
    BY <1>0, <1>2, <1>3 DEF UseInv
  <2>3. expirytime' = expirytime
    BY <1>0, <2>1, <2>2 DEF TypeOK
  <2>4. \A d \in Counter : On(d)' = On(d) /\ \A x \in On(d) : x # a
    BY <1>2, <1>3, <2>1, AlarmAssumption DEF On, Expiring
  <2>5. ASSUME NEW d \in Counter PROVE Whole(On(d)', head'[d], nextalarm', expirytime')
    <3>1. \A x \in On(d) : nextalarm'[x] = nextalarm[x] /\ expirytime[x] = expirytime[x]
      BY <1>0, <2>1, <2>4
    <3>2. Whole(On(d), head[d], nextalarm', expirytime)
      BY <1>0, <3>1, WholeFrame
    <3> QED
      BY <2>1, <2>3, <2>4, <3>2
  <2>6. CallsInv' /\ UseInv' /\ PanicInv'
    BY <1>0, <2>1, <2>3 DEF CallsInv, UseInv, PanicInv
  <2> QED
    BY <2>5, <2>6 DEF IInv, ListInv
<1>4. CASE c # None
  <2>1. /\ c \in Counter /\ a \in On(c) /\ On(c) \in SUBSET Alarm
        /\ expirytime' = [expirytime EXCEPT ![a] = 0]
        /\ counter'    = [counter EXCEPT ![a] = None]
        /\ calls' = calls /\ panic' = panic
    BY <1>2, <1>4, StopAlarmPlace, OnAlarms
  <2>2. PICK S \in SUBSET Alarm : S = On(c)
    BY <2>1
  <2>3. PICK w : w = Hop(c)
    OBVIOUS
  <2>4. /\ WalksTo(Cardinality(Alarm), w, head[c], nextalarm)
        /\ Whole(S, head[c], nextalarm, expirytime)
    BY <1>0, <2>1, <2>2, <2>3, HopTypes
  <2>5. PICK n \in Steps : UnlinkedAt(a, c, n)
    BY <1>2, <1>4, StopAlarmPlace
  <2>6. expirytime[a] # 0
    BY <1>0, <1>2, <1>4 DEF UseInv
  <2>10. \A d \in Counter : On(d)' = IF d = c THEN S \ {a} ELSE On(d)
    <3>1. Expiring' = Expiring
      BY <2>1 DEF Expiring
    <3>2. \A x \in Alarm : counter'[x] = IF x = a THEN None ELSE counter[x]
      BY <1>0, <2>1 DEF TypeOK
    <3> QED
      BY <1>2, <2>1, <2>2, <3>1, <3>2, AlarmAssumption DEF On
  <2>11. \A x \in Alarm : expirytime'[x] = IF x = a THEN 0 ELSE expirytime[x]
    BY <1>0, <2>1 DEF TypeOK
  <2>12. \A d \in Counter : d # c => \A x \in On(d) : x \in Alarm /\ x \notin S
    BY <2>1, <2>2, OnAlarms
  <2>13. /\ Whole(S \ {a}, head'[c], nextalarm', expirytime')
         /\ \A x \in Alarm \ S : nextalarm'[x] = nextalarm[x]
         /\ \A d \in Counter : d # c => head'[d] = head[d]
    <3>0. /\ w[n] = a
          /\ n # 0 => /\ w[n - 1] \in S /\ w[n - 1] # a /\ nextalarm[w[n - 1]] = a
                      /\ nextalarm'[w[n - 1]] = nextalarm[a]
          /\ \A x \in Alarm : x # a /\ (n = 0 \/ x # w[n - 1]) => nextalarm'[x] = nextalarm[x]
          /\ head'[c] = IF n = 0 THEN nextalarm[a] ELSE head[c]
          /\ \A d \in Counter : d # c => head'[d] = head[d]
      BY <2>2, <2>3, <2>5 DEF UnlinkedAt
    <3>1. CASE n = 0
      <4>1. head[c] = a
        BY <2>4, <3>0, <3>1 DEF WalksTo
      <4>2. \A x \in S \ {a} : nextalarm'[x] = nextalarm[x] /\ expirytime'[x] = expirytime[x]
        BY <2>11, <3>0, <3>1
      <4>3. Whole(S, a, nextalarm, expirytime) /\ a \in S
        BY <2>1, <2>2, <2>4, <4>1
      <4>4. Whole(S \ {a}, nextalarm[a], nextalarm', expirytime')
        BY <4>2, <4>3, WholeTail
      <4> QED
        BY <2>1, <2>2, <3>0, <3>1, <4>4
    <3>2. CASE n # 0
      <4>1. PICK p \in S : p = w[n - 1]
        BY <3>0, <3>2
      <4>2. \A x \in S \ {p, a} : nextalarm'[x] = nextalarm[x]
        BY <3>0, <4>1
      <4>3. \A x \in S \ {a} : expirytime'[x] = expirytime[x]
        BY <2>11
      <4>4. nextalarm[p] = a /\ a \in S /\ nextalarm'[p] = nextalarm[a]
        BY <2>1, <2>2, <3>0, <3>2, <4>1
      <4>5. Whole(S \ {a}, head[c], nextalarm', expirytime')
        BY <2>4, <4>2, <4>3, <4>4, WholeCut
      <4> QED
        BY <2>1, <2>2, <3>0, <3>2, <4>1, <4>5
    <3> QED
      BY <3>1, <3>2
  <2>14. ASSUME NEW d \in Counter PROVE Whole(On(d)', head'[d], nextalarm', expirytime')
    <3>1. CASE d = c
      BY <2>10, <2>13, <3>1
    <3>2. CASE d # c
      <4>1. \A x \in On(d) : nextalarm'[x] = nextalarm[x] /\ expirytime'[x] = expirytime[x]
        BY <2>1, <2>2, <2>11, <2>12, <2>13, <3>2
      <4>2. Whole(On(d), head[d], nextalarm', expirytime')
        BY <1>0, <4>1, WholeFrame
      <4> QED
        BY <2>10, <2>13, <3>2, <4>2
    <3> QED
      BY <3>1, <3>2
  <2>15. CallsInv'
    <3>1. \A i \in 1 .. Len(calls) : calls[i].a # None => calls[i].a # a \/ expirytime[a] = 0
      <4>1. ASSUME NEW i \in 1 .. Len(calls), calls[i].a = a PROVE FALSE
        <5>1. CASE calls[i].op = "advance"
          BY <1>1, <4>1, <5>1, ExpiringDef, ExpiringMember, AlarmAssumption
        <5>2. CASE calls[i].op # "advance"
          BY <1>0, <2>6, <4>1, <5>2 DEF CallsFit
        <5> QED
          BY <5>1, <5>2
      <4> QED
        BY <4>1
    <3>2. \A i \in 1 .. Len(calls) : calls[i].a # None => calls[i].a \in Alarm
      <4>1. calls \in Seq(CallSet)
        BY <1>0, CallTypes
      <4>2. \A i \in 1 .. Len(calls) : calls[i] \in CallSet
        BY <4>1
      <4> QED
        BY <4>2, CallSetFields DEF Link
    <3>3. \A i \in 1 .. Len(calls) : calls[i].a # None =>
            (expirytime'[calls[i].a] = 0 <=> expirytime[calls[i].a] = 0)
      BY <2>6, <2>11, <3>1, <3>2
    <3>4. CallsFit(calls, expirytime')
      BY <1>0, <3>3, FitFrame
    <3> QED
      BY <2>1, <3>4 DEF CallsInv
  <2>16. UseInv'
    <3>1. \A x \in Alarm : counter'[x] = IF x = a THEN None ELSE counter[x]
      BY <1>0, <2>1 DEF TypeOK
    <3> QED
      BY <1>0, <2>11, <3>1 DEF UseInv
  <2>17. PanicInv'
    BY <1>0, <2>1 DEF PanicInv
  <2> QED
    BY <2>14, <2>15, <2>16, <2>17 DEF IInv, ListInv
<1> QED
  BY <1>3, <1>4

\* The first alarm of the list leaves it, and is the one whose function runs.
LEMMA ExpireStep ==
  ASSUME IInv, Expire, TypeOK'
  PROVE  IInv'
<1>0. /\ TypeOK /\ UseInv /\ CallsFit(calls, expirytime) /\ PanicInv
      /\ \A d \in Counter : Whole(On(d), head[d], nextalarm, expirytime)
      /\ nextalarm \in [Alarm -> Link] /\ head \in [Counter -> Link]
  BY DEF IInv, CallsInv, ListInv, TypeOK, Link
<1>1. calls # <<>> /\ calls \in Seq(CallSet) /\ Top \in CallSet /\ Top.c \in Counter
  BY <1>0, CallTypes, CallSetFields DEF Expire, Looping
<1>2. PICK c \in Counter : c = Top.c
  BY <1>1
<1>3. PICK h \in Alarm : h = head[c]
  BY <1>0, <1>2 DEF Expire, Due, Link
<1>4. /\ calls' = [calls EXCEPT ![Len(calls)].a = h]
      /\ head'  = [head EXCEPT ![c] = nextalarm[h]]
      /\ UNCHANGED <<expirytime, counter, nextalarm, panic>>
  BY <1>2, <1>3 DEF Expire, alarmVars
<1>5. On(c) \in SUBSET Alarm /\ h \in On(c)
  <2>1. Whole(On(c), h, nextalarm, expirytime) /\ h # None
    BY <1>0, <1>3
  <2>2. h \in On(c)
    BY <2>1 DEF Whole, Linked
  <2> QED
    BY <2>2, OnAlarms
<1>6. expirytime[h] # 0 /\ h \notin Expiring
  BY <1>0, <1>5 DEF On, UseInv
<1>7. ExpiringIn(calls') = ExpiringIn(calls) \union {h} /\ CallsFit(calls', expirytime)
  <2>1. calls[Len(calls)].op = "advance" /\ calls[Len(calls)].a = None
    BY DEF Expire, Looping, Top
  <2>2. h \notin ExpiringIn(calls)
    BY <1>6, ExpiringDef
  <2> QED
    BY <1>0, <1>1, <1>4, <1>6, <2>1, <2>2, TurnedTo
<1>8. Expiring' = Expiring \union {h}
  BY <1>7 DEF Expiring, ExpiringIn
<1>9. \A d \in Counter : On(d)' = IF d = c THEN On(c) \ {h} ELSE On(d)
  BY <1>4, <1>5, <1>8 DEF On
<1>10. ASSUME NEW d \in Counter PROVE Whole(On(d)', head'[d], nextalarm', expirytime')
  <2>1. CASE d = c
    <3>1. \A x \in On(c) \ {h} : nextalarm'[x] = nextalarm[x] /\ expirytime'[x] = expirytime[x]
      BY <1>4
    <3>2. Whole(On(c), h, nextalarm, expirytime)
      BY <1>0, <1>3
    <3>3. PICK S \in SUBSET Alarm : S = On(c)
      BY <1>5
    <3>4. Whole(S \ {h}, nextalarm[h], nextalarm', expirytime')
      BY <1>5, <3>1, <3>2, <3>3, WholeTail
    <3>5. head'[c] = nextalarm[h]
      BY <1>0, <1>4
    <3> QED
      BY <1>9, <2>1, <3>3, <3>4, <3>5
  <2>2. CASE d # c
    <3>1. head'[d] = head[d]
      BY <1>0, <1>4, <2>2
    <3> QED
      BY <1>0, <1>4, <1>9, <2>2, <3>1
  <2> QED
    BY <2>1, <2>2
<1>11. CallsInv' /\ UseInv' /\ PanicInv'
  BY <1>0, <1>4, <1>7 DEF CallsInv, UseInv, PanicInv
<1> QED
  BY <1>10, <1>11 DEF IInv, ListInv

LEMMA EndAdvanceStep ==
  ASSUME IInv, EndAdvance, TypeOK'
  PROVE  IInv'
<1>1. calls # <<>> /\ calls \in Seq(CallSet) /\ CallsFit(calls, expirytime)
  BY CallTypes DEF EndAdvance, Looping, IInv, CallsInv
<1>2. calls' = SubSeq(calls, 1, Len(calls) - 1) /\ calls[Len(calls)].a = None
  BY DEF EndAdvance, Caller, Looping, Top
<1>3. ExpiringIn(calls') = ExpiringIn(calls) /\ CallsFit(calls', expirytime)
  BY <1>1, <1>2, PoppedIdle
<1>4. UNCHANGED <<head, expirytime, counter, nextalarm, panic>>
  BY DEF EndAdvance, alarmVars
<1>5. CallsInv' /\ Expiring' = Expiring /\ PanicInv'
  BY <1>3, <1>4 DEF CallsInv, Expiring, ExpiringIn, IInv, PanicInv
<1> QED
  BY <1>4, <1>5, SameLists

\* After dv_setalarm(), as the last step of a call or of the loop of an advance
LEMMA SetAlarmStep ==
  ASSUME IInv, NEW a \in Alarm, NEW c \in Counter, NEW v \in Value, v # 0, NEW rest,
         \A d \in Counter : a \notin On(d), SetAlarm(a, c, v, rest), TypeOK',
         CallsFit(rest, [expirytime EXCEPT ![a] = v]), ExpiringIn(rest) = Expiring \ {a}
  PROVE  IInv'
<1>0. TypeOK /\ UseInv /\ PanicInv
  BY DEF IInv
<1>1. /\ expirytime' = [expirytime EXCEPT ![a] = v]
      /\ counter'    = [counter EXCEPT ![a] = c]
      /\ calls' = rest /\ panic' = panic
      /\ Whole(On(c) \union {a}, head'[c], nextalarm', expirytime')
      /\ \A d \in Counter : d # c => Whole(On(d), head'[d], nextalarm', expirytime')
  BY SetAlarmPlace, SetAlarmEffect
<1>2. Expiring' = Expiring \ {a}
  BY <1>1 DEF Expiring, ExpiringIn
<1>3. /\ \A x \in Alarm : counter'[x] = IF x = a THEN c ELSE counter[x]
      /\ \A x \in Alarm : expirytime'[x] = IF x = a THEN v ELSE expirytime[x]
  BY <1>0, <1>1 DEF TypeOK
<1>4. \A d \in Counter : On(d)' = IF d = c THEN On(c) \union {a} ELSE On(d)
  BY <1>2, <1>3 DEF On
<1>5. ListInv'
  <2>1. ASSUME NEW d \in Counter PROVE Whole(On(d)', head'[d], nextalarm', expirytime')
    BY <1>1, <1>4
  <2> QED
    BY <2>1 DEF ListInv
<1>6. CallsInv' /\ PanicInv'
  BY <1>0, <1>1 DEF CallsInv, PanicInv
<1>7. UseInv'
  <2>1. c # None
    BY AlarmAssumption
  <2> QED
    BY <1>0, <1>3, <2>1 DEF UseInv
<1> QED
  BY <1>5, <1>6, <1>7 DEF IInv

\* What the call has checked still holds: its alarm is not in use, and on no list.
LEMMA SettingIdleAlarm ==
  ASSUME IInv, Setting
  PROVE  /\ calls # <<>> /\ calls \in Seq(CallSet) /\ Top.op \in {"abs", "rel"}
         /\ Len(calls) \in 1 .. Len(calls) /\ Top = calls[Len(calls)]
         /\ Top.a \in Alarm /\ expirytime[Top.a] = 0 /\ Top.v # 0
         /\ Top.c \in Counter /\ Top.v \in Value
         /\ Top.a \notin Expiring /\ \A d \in Counter : Top.a \notin On(d)
<1>0. TypeOK /\ UseInv /\ CallsFit(calls, expirytime)
  BY DEF IInv, CallsInv
<1>1. calls # <<>> /\ calls \in Seq(CallSet) /\ Top \in CallSet /\ Top.op \in {"abs", "rel"}
  BY <1>0, CallTypes DEF Setting
<1>2. Len(calls) \in 1 .. Len(calls) /\ Top = calls[Len(calls)]
  BY <1>1 DEF Top
<1>3. Top.a \in Alarm /\ expirytime[Top.a] = 0 /\ Top.v # 0 /\ Top.c \in Counter
      /\ Top.v \in Value
  <2>1. calls[Len(calls)].op # "advance"
    BY <1>1, <1>2
  <2>2. calls[Len(calls)].a \in Alarm /\ expirytime[calls[Len(calls)].a] = 0
        /\ calls[Len(calls)].v # 0
    BY <1>0, <1>2, <2>1 DEF CallsFit
  <2> QED
    BY <1>1, <1>2, <2>2, CallSetFields
<1>4. \A d \in Counter : Top.a \notin On(d)
  BY <1>0, <1>3, AlarmAssumption DEF UseInv, On
<1>5. Top.a \notin Expiring
  <2>1. ASSUME Top.a \in Expiring PROVE FALSE
    <3>1. PICK i \in 1 .. Len(calls) : calls[i].op = "advance" /\ calls[i].a = Top.a
      BY <2>1, ExpiringDef, ExpiringMember
    <3>2. expirytime[Top.a] # 0
      BY <1>0, <1>3, <3>1, AlarmAssumption DEF CallsFit
    <3> QED
      BY <1>3, <3>2
  <2> QED
    BY <2>1
<1> QED
  BY <1>1, <1>2, <1>3, <1>4, <1>5

\* A time that is not refused can be set.
LEMMA TargetValue ==
  ASSUME IInv, Setting, NEW v, v = Target(Top.op, Top.c, Top.v),
         ~(Top.op = "rel" /\ v < value[Top.c])
  PROVE  v \in Value /\ v # 0
<1>1. /\ Top.op \in {"abs", "rel"} /\ Top.c \in Counter /\ Top.v \in Value /\ Top.v # 0
      /\ value[Top.c] \in Value
  BY SettingIdleAlarm DEF IInv, TypeOK
<1>2. CASE Top.op = "abs"
  BY <1>1, <1>2 DEF Target
<1>3. CASE Top.op = "rel"
  <2>1. v = Plus(value[Top.c], Top.v) /\ ~(v < value[Top.c])
    BY <1>3 DEF Target
  <2>2. v \in Value
    BY <1>1, <2>1, PlusValue
  <2>3. CASE value[Top.c] = 0
    <3>1. Plus(0, Top.v) = Top.v
      <4>1. \A x \in Nat, y \in Nat : x < y => (0 + x) % y = x
        OBVIOUS
      <4>2. Top.v \in Nat /\ MaxValue + 1 \in Nat /\ Top.v < MaxValue + 1
        BY <1>1 DEF Value
      <4> QED
        BY <4>1, <4>2 DEF Plus
    <3> QED
      BY <1>1, <2>1, <2>2, <2>3, <3>1
  <2>4. CASE value[Top.c] # 0
    BY <1>1, <2>1, <2>2, <2>4 DEF Value
  <2> QED
    BY <2>3, <2>4
<1> QED
  BY <1>1, <1>2, <1>3

LEMMA EndSetStep ==
  ASSUME IInv, EndSet, TypeOK'
  PROVE  IInv'
<1>0. TypeOK /\ UseInv /\ CallsFit(calls, expirytime) /\ Setting
  BY DEF IInv, CallsInv, EndSet
<1>1. PICK rest : rest = Caller
  OBVIOUS
<1>2. /\ calls # <<>> /\ calls \in Seq(CallSet) /\ Len(calls) \in 1 .. Len(calls)
      /\ Top = calls[Len(calls)] /\ Top.op \in {"abs", "rel"}
      /\ Top.a \in Alarm /\ Top.c \in Counter
      /\ Top.a \notin Expiring /\ \A d \in Counter : Top.a \notin On(d)
  BY <1>0, SettingIdleAlarm
<1>3. /\ ExpiringIn(rest) = ExpiringIn(calls) /\ CallsFit(rest, expirytime)
      /\ \A i \in 1 .. Len(rest) : rest[i].a # Top.a
  <2>1. rest = SubSeq(calls, 1, Len(calls) - 1)
    BY <1>1 DEF Caller
  <2>2. calls[Len(calls)].op # "advance" /\ calls[Len(calls)].a # None
    BY <1>2, AlarmAssumption
  <2>3. calls # <<>> /\ calls \in Seq(CallSet) /\ CallsFit(calls, expirytime)
    BY <1>0, <1>2
  <2>4. /\ ExpiringIn(rest) = ExpiringIn(calls) /\ CallsFit(rest, expirytime)
        /\ \A i \in 1 .. Len(rest) : rest[i].a # calls[Len(calls)].a
    BY <2>1, <2>2, <2>3, PoppedIdle, ZenonT(30)
  <2> QED
    BY <1>2, <2>4
<1>4. PICK v : v = Target(Top.op, Top.c, Top.v)
  OBVIOUS
<1>5. CASE Top.op = "rel" /\ v < value[Top.c]
  <2>1. calls' = rest /\ UNCHANGED <<head, expirytime, counter, nextalarm, panic>>
    BY <1>1, <1>4, <1>5 DEF EndSet, alarmVars
  <2>2. CallsInv' /\ Expiring' = Expiring /\ PanicInv'
    BY <1>3, <2>1 DEF CallsInv, Expiring, ExpiringIn, IInv, PanicInv
  <2> QED
    BY <2>1, <2>2, SameLists
<1>6. CASE ~(Top.op = "rel" /\ v < value[Top.c])
  <2>1. SetAlarm(Top.a, Top.c, v, rest)
    BY <1>1, <1>4, <1>6 DEF EndSet
  <2>2. v \in Value /\ v # 0
    BY <1>0, <1>4, <1>6, TargetValue
  <2>3. CallsFit(rest, [expirytime EXCEPT ![Top.a] = v])
    <3>1. \A i \in 1 .. Len(rest) : rest[i].a # None => rest[i].a \in Alarm
      <4>1. rest \in Seq(CallSet)
        BY <1>1, <1>2, CallPopped DEF Caller
      <4>2. \A i \in 1 .. Len(rest) : rest[i] \in CallSet
        BY <4>1
      <4> QED
        BY <4>2, CallSetFields DEF Link
    <3>2. \A i \in 1 .. Len(rest) : rest[i].a # None =>
            ([expirytime EXCEPT ![Top.a] = v][rest[i].a] = 0 <=> expirytime[rest[i].a] = 0)
      BY <1>0, <1>3, <3>1 DEF TypeOK
    <3> QED
      BY <1>3, <3>2, FitFrame
  <2>4. ExpiringIn(rest) = Expiring \ {Top.a}
    BY <1>2, <1>3, ExpiringDef
  <2>5. PICK a \in Alarm : a = Top.a
    BY <1>2
  <2>6. PICK c \in Counter : c = Top.c
    BY <1>2
  <2> QED
    BY <1>2, <2>1, <2>2, <2>3, <2>4, <2>5, <2>6, SetAlarmStep
<1> QED
  BY <1>5, <1>6

\* The alarm whose function has returned is on no list: it stops, or is set again.
LEMMA ExpiryReturnsStep ==
  ASSUME IInv, NEW inc \in Value, ExpiryReturns(inc), TypeOK'
  PROVE  IInv'
<1>0. /\ TypeOK /\ UseInv /\ CallsFit(calls, expirytime) /\ PanicInv
      /\ \A d \in Counter : Whole(On(d), head[d], nextalarm, expirytime)
  BY DEF IInv, CallsInv, ListInv
<1>1. /\ calls # <<>> /\ calls \in Seq(CallSet) /\ Top.a \in Alarm /\ Top.c \in Counter
      /\ Top.op = "advance"
  BY <1>0, CallTypes, CallSetFields DEF ExpiryReturns, Link
<1>2. PICK a \in Alarm : a = Top.a
  BY <1>1
<1>3. PICK c \in Counter : c = Top.c
  BY <1>1
<1>4. PICK loop : loop = [calls EXCEPT ![Len(calls)].a = None]
  OBVIOUS
<1>5. calls[Len(calls)].a = a /\ calls[Len(calls)].op = "advance" /\ a # None
      /\ Len(calls) \in 1 .. Len(calls)
  BY <1>1, <1>2, AlarmAssumption DEF Top
<1>6. /\ ExpiringIn(loop) = ExpiringIn(calls) \ {a} /\ CallsFit(loop, expirytime)
      /\ \A i \in 1 .. Len(loop) : loop[i].a # a
  BY <1>0, <1>1, <1>4, <1>5, TurnedBack, ZenonT(30)
<1>7. a \in Expiring /\ expirytime[a] # 0
  <2>1. a \in Expiring
    BY <1>5, ExpiringDef, ExpiringMember
  <2> QED
    BY <1>0, <1>5, <2>1 DEF CallsFit
<1>8. \A d \in Counter : a \notin On(d)
  BY <1>7 DEF On
<1>9. \A i \in 1 .. Len(loop) : loop[i].a # None => loop[i].a \in Alarm
  <2> SUFFICES ASSUME NEW i \in 1 .. Len(loop), loop[i].a # None PROVE loop[i].a \in Alarm
    OBVIOUS
  <2>1. loop \in Seq(CallSet)
    BY <1>1, <1>4, CallTurned DEF Link
  <2>2. loop[i] \in CallSet
    BY <2>1
  <2> QED
    BY <2>2, CallSetFields DEF Link
<1>10. \A u : CallsFit(loop, [expirytime EXCEPT ![a] = u])
  <2> TAKE u
  <2>1. \A i \in 1 .. Len(loop) : loop[i].a # None =>
          ([expirytime EXCEPT ![a] = u][loop[i].a] = 0 <=> expirytime[loop[i].a] = 0)
    BY <1>0, <1>6, <1>9 DEF TypeOK
  <2> QED
    BY <1>6, <2>1, FitFrame
<1>11. CASE StopsRepeating(a, inc)
  <2>1. /\ expirytime' = [expirytime EXCEPT ![a] = 0]
        /\ counter'    = [counter EXCEPT ![a] = None]
        /\ nextalarm'  = [nextalarm EXCEPT ![a] = None]
        /\ calls' = loop /\ head' = head /\ panic' = panic
    BY <1>2, <1>4, <1>11 DEF ExpiryReturns
  <2>2. Expiring' = Expiring \ {a}
    BY <1>6, <2>1 DEF Expiring, ExpiringIn
  <2>3. \A x \in Alarm : /\ counter'[x] = IF x = a THEN None ELSE counter[x]
                         /\ expirytime'[x] = IF x = a THEN 0 ELSE expirytime[x]
                         /\ x # a => nextalarm'[x] = nextalarm[x]
    BY <1>0, <2>1 DEF TypeOK
  <2>4. \A d \in Counter : On(d)' = On(d)
    BY <1>8, <2>2, <2>3, AlarmAssumption DEF On
  <2>5. ASSUME NEW d \in Counter PROVE Whole(On(d)', head'[d], nextalarm', expirytime')
    <3>1. \A x \in On(d) : nextalarm'[x] = nextalarm[x] /\ expirytime'[x] = expirytime[x]
      BY <1>8, <2>3, OnAlarms
    <3>2. Whole(On(d), head[d], nextalarm', expirytime')
      BY <1>0, <3>1, WholeFrame
    <3> QED
      BY <2>1, <2>4, <3>2
  <2>6. CallsInv' /\ UseInv' /\ PanicInv'
    BY <1>0, <1>10, <2>1, <2>3 DEF CallsInv, UseInv, PanicInv
  <2> QED
    BY <2>5, <2>6 DEF IInv, ListInv
<1>12. CASE ~StopsRepeating(a, inc)
  <2>1. PICK v : v = Plus(expirytime[a], inc)
    OBVIOUS
  <2>2. SetAlarm(a, c, v, loop) /\ ~(v <= expirytime[a])
    BY <1>2, <1>3, <1>4, <1>12, <2>1 DEF ExpiryReturns, StopsRepeating
  <2>3. v \in Value /\ v # 0
    <3>1. expirytime[a] \in Value
      BY <1>0 DEF TypeOK
    <3>2. v \in Value
      BY <2>1, <3>1, PlusValue
    <3> QED
      BY <2>2, <3>1, <3>2 DEF Value
  <2>4. ExpiringIn(loop) = Expiring \ {a}
    BY <1>6, ExpiringDef
  <2> QED
    BY <1>8, <1>10, <2>2, <2>3, <2>4, SetAlarmStep
<1> QED
  BY <1>11, <1>12

LEMMA InductiveInit == Init => IInv
<1> SUFFICES ASSUME Init PROVE IInv
  OBVIOUS
<1>1. TypeOK
  BY DEF Init, TypeOK, Value
<1>2. CallsInv /\ UseInv /\ PanicInv
  BY AlarmAssumption DEF Init, CallsInv, CallsFit, UseInv, PanicInv
<1>3. ASSUME NEW c \in Counter PROVE Whole(On(c), head[c], nextalarm, expirytime)
  <2>1. On(c) = {} /\ head[c] = None
    BY AlarmAssumption DEF On, Init
  <2> QED
    BY <2>1, EmptyWhole
<1> QED
  BY <1>1, <1>2, <1>3 DEF IInv, ListInv

LEMMA InductiveStep ==
  ASSUME IInv, KeepsRules, [Next]_vars
  PROVE  IInv'
<1>1. TypeOK'
  BY TypeStep DEF IInv
<1>2. CASE \E op \in {"abs", "rel"}, c \in Counter, a \in Alarm, v \in Value :
             BeginSet(op, c, a, v)
  BY <1>1, <1>2, BeginSetStep
<1>3. CASE \E a \in Alarm : StopAlarm(a)
  BY <1>1, <1>3, StopAlarmStep
<1>4. CASE \E c \in Counter, n \in Value : AdvanceCounter(c, n)
  BY <1>1, <1>4, AdvanceStep
<1>5. CASE EndSet
  BY <1>1, <1>5, EndSetStep
<1>6. CASE Expire
  BY <1>1, <1>6, ExpireStep
<1>7. CASE \E inc \in Value : ExpiryReturns(inc)
  BY <1>1, <1>7, ExpiryReturnsStep
<1>8. CASE EndAdvance
  BY <1>1, <1>8, EndAdvanceStep
<1>9. CASE UNCHANGED vars
  <2>1. calls' = calls /\ UNCHANGED <<head, expirytime, counter, nextalarm, panic>>
    BY <1>9 DEF vars, alarmVars
  <2>2. CallsInv' /\ Expiring' = Expiring /\ PanicInv'
    BY <2>1 DEF CallsInv, Expiring, IInv, PanicInv
  <2> QED
    BY <1>1, <2>1, <2>2, SameLists
<1> QED
  BY <1>2, <1>3, <1>4, <1>5, <1>6, <1>7, <1>8, <1>9 DEF Next, Begin, Return

\* The links of every list, the times, the counters of the alarms and the calls under
\* way agree, whatever executables and expiry functions set and stop.
THEOREM Invariance ==
  ASSUME KeepsRules
  PROVE  Spec => []IInv
<1>1. IInv /\ [Next]_vars => IInv'
  BY InductiveStep
<1> QED
  BY <1>1, InductiveInit, PTL DEF Spec

-----------------------------------------------------------------------------
(* What follows                                                            *)

\* The walk of the model sees the alarms that belong on the list, in order.
LEMMA HopAlong ==
  ASSUME IInv, NEW c \in Counter
  PROVE  Along(On(c), expirytime, Hop(c)) /\ DOMAIN Hop(c) = Steps
<1>1. On(c) \in SUBSET Alarm
  BY OnAlarms
<1>2. PICK S \in SUBSET Alarm : S = On(c)
  BY <1>1
<1>3. PICK w : w = Hop(c)
  OBVIOUS
<1>4. Whole(S, head[c], nextalarm, expirytime)
  BY <1>2 DEF IInv, ListInv
<1>5. WalksTo(Cardinality(Alarm), w, head[c], nextalarm) /\ DOMAIN w = Steps
  BY <1>3, HopTypes DEF IInv
<1>6. Along(S, expirytime, w)
  BY <1>4, <1>5, WholeWalk
<1> QED
  BY <1>2, <1>3, <1>5, <1>6

LEMMA SoundLists ==
  ASSUME IInv
  PROVE  ListsSound
<1>1. ListsMatch
  <2>1. \A a \in Alarm : (expirytime[a] # 0) <=> (counter[a] # None)
    BY DEF IInv, UseInv
  <2>2. ASSUME NEW c \in Counter PROVE Listed(c) = On(c)
    <3>1. Along(On(c), expirytime, Hop(c)) /\ DOMAIN Hop(c) = Steps
      BY HopAlong
    <3>2. None \notin On(c)
      BY AlarmAssumption DEF On
    <3>3. \A x : x \in Listed(c) <=> x # None /\ \E n \in Steps : Hop(c)[n] = x
      BY <3>1 DEF Listed
    <3> QED
      BY <3>1, <3>2, <3>3 DEF Along
  <2>3. \A c \in Counter : Hop(c)[Cardinality(Alarm)] = None
    BY HopAlong DEF Along
  <2> QED
    BY <2>1, <2>2, <2>3 DEF ListsMatch, On
<1>2. Sorted
  <2>1. ASSUME NEW c \in Counter, NEW n \in 1 .. Cardinality(Alarm), Hop(c)[n] # None
        PROVE  expirytime[Hop(c)[n - 1]] <= expirytime[Hop(c)[n]]
    <3>1. n \in Steps /\ n - 1 \in Steps /\ n - 1 < n
      BY StepsFinite DEF Steps
    <3> QED
      BY <2>1, <3>1, HopAlong DEF Along
  <2> QED
    BY <2>1 DEF Sorted
<1>3. NeverCorrupt
  BY DEF IInv, PanicInv, NeverCorrupt
<1>4. NoReentry
  BY DEF IInv, CallsInv, CallsFit, NoReentry
<1> QED
  BY <1>1, <1>2, <1>3, <1>4 DEF ListsSound

\* The list of every counter holds exactly the alarms that are set on it, in the order of
\* their times, and has an end; dv_stopalarm() always finds its alarm and no expiry
\* function is entered twice (insert(), dv_removealarm(), dv_advancecounter()).
THEOREM ListsWhole ==
  ASSUME KeepsRules
  PROVE  Spec => []ListsSound
<1>1. IInv => ListsSound
  BY SoundLists
<1> QED
  BY <1>1, Invariance, PTL

\* The check that dv_setalarm_abs() and dv_setalarm_rel() make before they disable
\* interrupts holds when they set the alarm, however often they were preempted.
THEOREM CheckHolds ==
  ASSUME KeepsRules
  PROVE  Spec => []CheckStillHolds
<1>1. IInv => CheckStillHolds
  BY SettingIdleAlarm DEF CheckStillHolds
<1> QED
  BY <1>1, Invariance, PTL

-----------------------------------------------------------------------------
(* Lists as sequences: what AlarmClock sees of the links                   *)

\* The alarms of the sequence l are linked one after the other from h on.
Strung(l, h, nx) ==
  /\ h = IF l = <<>> THEN None ELSE l[1]
  /\ \A i \in 1 .. Len(l) : nx[l[i]] = IF i = Len(l) THEN None ELSE l[i + 1]

\* The walk w passes through l and ends.
Through(l, w) ==
  /\ Len(l) \in Steps
  /\ \A i \in 1 .. Len(l) : w[i - 1] = l[i]
  /\ \A n \in Steps : n >= Len(l) => w[n] = None

\* Two walks that start in the same place and follow the same links are one.
LEMMA StrungWalk ==
  ASSUME NEW l \in Seq(Alarm), NEW h, NEW nx, Strung(l, h, nx),
         NEW w, WalksTo(Cardinality(Alarm), w, h, nx), w[Cardinality(Alarm)] = None
  PROVE  Through(l, w)
<1> DEFINE N == Cardinality(Alarm)
           T == {n \in Nat : IF n < Len(l) THEN w[n] = l[n + 1] ELSE w[n] = None}
<1>1. N \in Nat /\ Len(l) \in Nat /\ \A i \in 1 .. Len(l) : l[i] \in Alarm /\ l[i] # None
  BY StepsFinite
<1>2. /\ w[0] = h
      /\ \A n \in 1 .. N : w[n] = IF w[n - 1] = None THEN None ELSE nx[w[n - 1]]
      /\ h = IF l = <<>> THEN None ELSE l[1]
      /\ \A i \in 1 .. Len(l) : nx[l[i]] = IF i = Len(l) THEN None ELSE l[i + 1]
  BY DEF WalksTo, Strung
<1>3. 0 \in T
  <2>1. l = <<>> <=> Len(l) = 0
    OBVIOUS
  <2> QED
    BY <1>1, <1>2, <2>1
<1>4. ASSUME NEW n \in 1 .. N, n - 1 \in T PROVE n \in T
  <2>1. n \in Nat /\ n - 1 \in Nat
    BY <1>1
  <2>2. CASE n - 1 < Len(l)
    <3>1. n \in 1 .. Len(l) /\ w[n - 1] = l[n] /\ (n - 1) + 1 = n
      BY <1>1, <1>4, <2>1, <2>2
    <3>2. w[n] = nx[l[n]]
      BY <1>1, <1>2, <3>1
    <3>3. w[n] = IF n = Len(l) THEN None ELSE l[n + 1]
      BY <1>2, <3>1, <3>2
    <3> QED
      BY <1>1, <2>1, <3>1, <3>3
  <2>3. CASE ~(n - 1 < Len(l))
    <3>1. w[n - 1] = None /\ ~(n < Len(l))
      BY <1>1, <1>4, <2>1, <2>3
    <3>2. w[n] = None
      BY <1>2, <3>1
    <3> QED
      BY <2>1, <3>1, <3>2
  <2> QED
    BY <2>2, <2>3
<1>5. \A n \in 0 .. N : n \in T
  <2> HIDE DEF T, N
  <2> QED
    BY <1>1, <1>3, <1>4, UpTo
<1>6. \A n \in Steps : IF n < Len(l) THEN w[n] = l[n + 1] ELSE w[n] = None
  BY <1>5 DEF Steps
<1>7. ~(N < Len(l))
  <2>1. N \in Steps /\ N + 1 \in Nat
    BY <1>1 DEF Steps
  <2>2. N < Len(l) => N + 1 \in 1 .. Len(l)
    BY <1>1
  <2> QED
    BY <1>1, <1>6, <2>1, <2>2
<1>8. Len(l) \in Steps
  BY <1>1, <1>7 DEF Steps
<1>9. ASSUME NEW i \in 1 .. Len(l) PROVE w[i - 1] = l[i]
  <2>1. i - 1 \in Steps /\ i - 1 < Len(l) /\ (i - 1) + 1 = i
    BY <1>1, <1>7 DEF Steps
  <2> QED
    BY <1>6, <2>1
<1>10. ASSUME NEW n \in Steps, n >= Len(l) PROVE w[n] = None
  <2>1. ~(n < Len(l))
    BY <1>1, <1>10 DEF Steps
  <2> QED
    BY <1>6, <2>1
<1> QED
  BY <1>8, <1>9, <1>10 DEF Through

\* A walk that ends passes through a sequence.
LEMMA WalkStrung ==
  ASSUME NEW h, NEW nx, NEW w, WalksTo(Cardinality(Alarm), w, h, nx),
         w[Cardinality(Alarm)] = None
  PROVE  \E l \in Seq(Alarm) : Strung(l, h, nx)
<1> DEFINE N == Cardinality(Alarm)
           E == {n \in Steps : w[n] = None}
<1>1. N \in Nat /\ N \in Steps /\ Steps \subseteq Nat
  BY StepsFinite DEF Steps
<1>2. PICK e \in E : \A n \in E : e <= n
  <2>1. E \in SUBSET Nat /\ E # {}
    BY <1>1
  <2> HIDE DEF E
  <2> QED
    BY <2>1, MinOf
<1>3. e \in Nat /\ e \in Steps /\ w[e] = None /\ e <= N
  BY <1>1, <1>2 DEF Steps
<1>4. \A n \in Steps : n < e => w[n] # None
  BY <1>1, <1>2, <1>3
<1>5. \A i \in 1 .. e : i - 1 \in Steps /\ i - 1 < e
  BY <1>1, <1>3 DEF Steps
<1>6. \A i \in 1 .. e : w[i - 1] \in Alarm
  <2>1. \A n \in Steps : w[n] \in Link
    BY DEF WalksTo, Steps
  <2> QED
    BY <1>4, <1>5, <2>1 DEF Link
<1>7. PICK l \in Seq(Alarm) : Len(l) = e /\ \A i \in 1 .. e : l[i] = w[i - 1]
  <2>1. PICK f \in [1 .. e -> Alarm] : \A i \in 1 .. e : f[i] = w[i - 1]
    <3>1. [i \in 1 .. e |-> w[i - 1]] \in [1 .. e -> Alarm]
      BY <1>6
    <3> QED
      BY <3>1
  <2>2. f \in Seq(Alarm) /\ Len(f) = e
    BY <1>3, <2>1
  <2> QED
    BY <2>1, <2>2
<1>8. h = IF l = <<>> THEN None ELSE l[1]
  <2>1. w[0] = h
    BY DEF WalksTo
  <2>2. CASE e = 0
    BY <1>3, <1>7, <2>1, <2>2
  <2>3. CASE e # 0
    <3>1. 1 \in 1 .. e /\ l # <<>>
      BY <1>3, <1>7, <2>3
    <3> QED
      BY <1>7, <2>1, <3>1
  <2> QED
    BY <2>2, <2>3
<1>9. ASSUME NEW i \in 1 .. e PROVE nx[l[i]] = IF i = e THEN None ELSE l[i + 1]
  <2>1. i \in 1 .. N /\ w[i - 1] # None /\ l[i] = w[i - 1]
    BY <1>3, <1>4, <1>5, <1>7, <1>1
  <2>2. w[i] = nx[l[i]]
    BY <2>1 DEF WalksTo
  <2>3. i # e => i + 1 \in 1 .. e /\ (i + 1) - 1 = i
    BY <1>3
  <2> QED
    BY <1>3, <1>7, <2>2, <2>3
<1> QED
  BY <1>7, <1>8, <1>9 DEF Strung

\* The list that AlarmClock sees
Timed(l, t) == [i \in 1 .. Len(l) |-> Clock!Entry(l[i], t[l[i]])]

LEMMA ListIsTimed ==
  ASSUME NEW c \in Counter, NEW l \in Seq(Alarm), DOMAIN Hop(c) = Steps, Through(l, Hop(c))
  PROVE  ListOf(c) = Timed(l, expirytime)
<1> DEFINE E == {n \in DOMAIN Hop(c) : Hop(c)[n] = None}
<1>1. PICK w : w = Hop(c)
  OBVIOUS
<1>2. /\ Steps \subseteq Nat /\ Len(l) \in Steps
      /\ \A i \in 1 .. Len(l) : w[i - 1] = l[i] /\ l[i] # None
      /\ \A n \in Steps : n >= Len(l) => w[n] = None
  <2>1. Steps \subseteq Nat /\ \A i \in 1 .. Len(l) : l[i] # None
    BY StepsFinite DEF Steps
  <2> QED
    BY <1>1, <2>1 DEF Through
<1>3. \A n \in Steps : n < Len(l) => w[n] # None
  <2> TAKE n \in Steps
  <2> HAVE n < Len(l)
  <2>1. n + 1 \in 1 .. Len(l) /\ (n + 1) - 1 = n
    BY <1>2
  <2> QED
    BY <1>2, <2>1
<1>4. Len(l) \in E /\ E \in SUBSET Nat /\ \A n \in E : Len(l) <= n
  <2>1. \A n \in E : n \in Steps /\ w[n] = None
    BY <1>1
  <2>2. Len(l) \in E
    BY <1>1, <1>2
  <2>3. Len(l) \in Nat /\ \A n \in E : n \in Nat
    BY <1>2, <2>1
  <2> HIDE DEF E
  <2> QED
    BY <1>3, <2>1, <2>2, <2>3
<1>5. Min(E) = Len(l)
  <2>1. Min(E) \in E /\ \A y \in E : Min(E) <= y
    <3> HIDE DEF E
    <3> QED
      BY <1>4, MinOf
  <2>2. \A x \in Nat, y \in Nat : x <= y /\ y <= x => x = y
    OBVIOUS
  <2> HIDE DEF E
  <2>3. Min(E) \in Nat /\ Len(l) \in Nat
    BY <1>4, <2>1
  <2> QED
    BY <1>4, <2>1, <2>2, <2>3
<1>6. ListOf(c) = [i \in 1 .. Len(l) |-> Clock!Entry(w[i - 1], expirytime[w[i - 1]])]
  BY <1>1, <1>5 DEF ListOf, Clock!Entry
<1> QED
  BY <1>2, <1>6 DEF Timed

\* What InsertAt and RemoveAt do
Inserted(s, k, e, u) ==
  /\ Len(u) = Len(s) + 1 /\ u[k] = e
  /\ \A i \in 1 .. k - 1 : u[i] = s[i]
  /\ \A i \in k .. Len(s) : u[i + 1] = s[i]

Removed(s, k, u) ==
  /\ Len(u) = Len(s) - 1
  /\ \A i \in 1 .. k - 1 : u[i] = s[i]
  /\ \A i \in k .. Len(s) - 1 : u[i] = s[i + 1]

LEMMA SameSeq ==
  ASSUME NEW S, NEW s \in Seq(S), NEW u \in Seq(S), Len(s) = Len(u),
         \A i \in 1 .. Len(s) : s[i] = u[i]
  PROVE  s = u
OBVIOUS

SliceOf(p, S, s, m, n) ==
  /\ p \in Seq(S) /\ Len(p) = n - m + 1
  /\ \A i \in 1 .. n - m + 1 : p[i] = s[m + i - 1]

LEMMA Slice ==
  ASSUME NEW S, NEW s \in Seq(S), NEW m \in Nat, NEW n \in Nat, 1 <= m, n <= Len(s),
         m <= n + 1, NEW p, p = SubSeq(s, m, n)
  PROVE  SliceOf(p, S, s, m, n)
<1>1. Len(p) = n - m + 1
  OBVIOUS
<1>2. \A i \in 1 .. n - m + 1 : p[i] = s[m + i - 1]
  OBVIOUS
<1>3. \A i \in m .. n : s[i] \in S
  OBVIOUS
<1>4. SubSeq(s, m, n) \in Seq(S)
  BY <1>3, SubSeqProperties
<1> QED
  BY <1>1, <1>2, <1>4 DEF SliceOf

LEMMA Joined ==
  ASSUME NEW S, NEW p \in Seq(S), NEW q \in Seq(S), NEW v, v = p \o q
  PROVE  /\ v \in Seq(S) /\ Len(v) = Len(p) + Len(q)
         /\ \A i \in 1 .. Len(p) : v[i] = p[i]
         /\ \A i \in 1 .. Len(q) : v[Len(p) + i] = q[i]
<1>1. v \in Seq(S) /\ Len(v) = Len(p) + Len(q)
  OBVIOUS
<1>2. \A i \in 1 .. Len(p) : v[i] = p[i]
  OBVIOUS
<1>3. \A i \in 1 .. Len(q) : v[Len(p) + i] = q[i]
  OBVIOUS
<1> QED
  BY <1>1, <1>2, <1>3

LEMMA InsertIs ==
  ASSUME NEW S, NEW s \in Seq(S), NEW e \in S, NEW k \in 1 .. Len(s) + 1,
         NEW u \in Seq(S), Inserted(s, k, e, u)
  PROVE  u = Clock!InsertAt(s, k, e)
<1>1. PICK n \in Nat : n = Len(s)
  OBVIOUS
<1>2. PICK p, q, o, m, v : /\ p = SubSeq(s, 1, k - 1) /\ q = SubSeq(s, k, n) /\ o = <<e>>
                           /\ m = p \o o /\ v = m \o q
  OBVIOUS
<1>3. /\ p \in Seq(S) /\ Len(p) = (k - 1) - 1 + 1
      /\ \A i \in 1 .. (k - 1) - 1 + 1 : p[i] = s[1 + i - 1]
  <2>1. k - 1 \in Nat /\ 1 \in Nat /\ 1 <= 1 /\ k - 1 <= Len(s) /\ 1 <= (k - 1) + 1
    BY <1>1
  <2>2. SliceOf(p, S, s, 1, k - 1)
    BY <1>2, <2>1, Slice
  <2> QED
    BY <2>2 DEF SliceOf
<1>4. /\ q \in Seq(S) /\ Len(q) = n - k + 1 /\ \A i \in 1 .. n - k + 1 : q[i] = s[k + i - 1]
  <2>1. k \in Nat /\ 1 <= k /\ n <= Len(s) /\ k <= n + 1
    BY <1>1
  <2>2. SliceOf(q, S, s, k, n)
    BY <1>2, <2>1, Slice
  <2> QED
    BY <2>2 DEF SliceOf
<1>5. o \in Seq(S) /\ Len(o) = 1 /\ o[1] = e
  BY <1>2
<1>6. /\ m \in Seq(S) /\ Len(m) = k /\ m[k] = e /\ \A i \in 1 .. k - 1 : m[i] = s[i]
  <2>1. /\ m \in Seq(S) /\ Len(m) = Len(p) + Len(o)
        /\ \A i \in 1 .. Len(p) : m[i] = p[i]
        /\ \A i \in 1 .. Len(o) : m[Len(p) + i] = o[i]
    BY <1>2, <1>3, <1>5, Joined
  <2>2. Len(p) = k - 1 /\ Len(m) = k /\ 1 \in 1 .. Len(o) /\ Len(p) + 1 = k
    BY <1>3, <1>5, <2>1
  <2>3. \A i \in 1 .. k - 1 : m[i] = s[i]
    BY <1>3, <2>1, <2>2
  <2> QED
    BY <1>5, <2>1, <2>2, <2>3
<1>7. /\ v \in Seq(S) /\ Len(v) = n + 1
      /\ \A i \in 1 .. k : v[i] = m[i]
      /\ \A i \in k .. n : v[i + 1] = s[i]
  <2>1. /\ v \in Seq(S) /\ Len(v) = Len(m) + Len(q)
        /\ \A i \in 1 .. Len(m) : v[i] = m[i]
        /\ \A i \in 1 .. Len(q) : v[Len(m) + i] = q[i]
    BY <1>2, <1>4, <1>6, Joined
  <2>2. ASSUME NEW i \in k .. n PROVE v[i + 1] = s[i]
    <3>1. PICK j \in 1 .. n - k + 1 : k + j = i + 1 /\ k + j - 1 = i
      <4>1. i - k + 1 \in 1 .. n - k + 1 /\ k + (i - k + 1) = i + 1
            /\ k + (i - k + 1) - 1 = i
        BY <1>1
      <4> QED
        BY <4>1
    <3>2. v[k + j] = q[j] /\ q[j] = s[k + j - 1]
      BY <1>4, <1>6, <2>1
    <3> QED
      BY <3>1, <3>2
  <2> QED
    BY <1>1, <1>4, <1>6, <2>1, <2>2
<1>8. ASSUME NEW i \in 1 .. n + 1 PROVE u[i] = v[i]
  <2>0. /\ u[k] = e /\ \A j \in 1 .. k - 1 : u[j] = s[j]
        /\ \A j \in k .. n : u[j + 1] = s[j]
    BY <1>1 DEF Inserted
  <2>1. CASE i < k
    <3>1. i \in 1 .. k - 1 /\ i \in 1 .. k
      BY <1>1, <2>1
    <3> QED
      BY <1>6, <1>7, <2>0, <3>1
  <2>2. CASE i = k
    BY <1>6, <1>7, <2>0, <2>2
  <2>3. CASE i > k
    <3>1. PICK j \in k .. n : j + 1 = i
      <4>1. i - 1 \in k .. n /\ (i - 1) + 1 = i
        BY <1>1, <2>3
      <4> QED
        BY <4>1
    <3> QED
      BY <1>7, <2>0, <3>1
  <2> QED
    BY <1>1, <2>1, <2>2, <2>3
<1>9. u = v
  <2>1. Len(u) = Len(v) /\ Len(u) = n + 1
    BY <1>1, <1>7 DEF Inserted
  <2> QED
    BY <1>7, <1>8, <2>1, SameSeq
<1> QED
  BY <1>1, <1>2, <1>9 DEF Clock!InsertAt

LEMMA RemoveIs ==
  ASSUME NEW S, NEW s \in Seq(S), NEW k \in 1 .. Len(s), NEW u \in Seq(S), Removed(s, k, u)
  PROVE  u = Clock!RemoveAt(s, k)
<1>1. PICK n \in Nat : n = Len(s)
  OBVIOUS
<1>2. PICK p, q, v : p = SubSeq(s, 1, k - 1) /\ q = SubSeq(s, k + 1, n) /\ v = p \o q
  OBVIOUS
<1>3. /\ p \in Seq(S) /\ Len(p) = (k - 1) - 1 + 1
      /\ \A i \in 1 .. (k - 1) - 1 + 1 : p[i] = s[1 + i - 1]
  <2>1. k - 1 \in Nat /\ 1 \in Nat /\ 1 <= 1 /\ k - 1 <= Len(s) /\ 1 <= (k - 1) + 1
    BY <1>1
  <2>2. SliceOf(p, S, s, 1, k - 1)
    BY <1>2, <2>1, Slice
  <2> QED
    BY <2>2 DEF SliceOf
<1>4. /\ q \in Seq(S) /\ Len(q) = n - (k + 1) + 1
      /\ \A i \in 1 .. n - (k + 1) + 1 : q[i] = s[(k + 1) + i - 1]
  <2>1. k + 1 \in Nat /\ 1 <= k + 1 /\ n <= Len(s) /\ k + 1 <= n + 1
    BY <1>1
  <2>2. SliceOf(q, S, s, k + 1, n)
    BY <1>2, <2>1, Slice
  <2> QED
    BY <2>2 DEF SliceOf
<1>7. /\ v \in Seq(S) /\ Len(v) = n - 1
      /\ \A i \in 1 .. k - 1 : v[i] = s[i]
      /\ \A i \in k .. n - 1 : v[i] = s[i + 1]
  <2>1. /\ v \in Seq(S) /\ Len(v) = Len(p) + Len(q)
        /\ \A i \in 1 .. Len(p) : v[i] = p[i]
        /\ \A i \in 1 .. Len(q) : v[Len(p) + i] = q[i]
    BY <1>2, <1>3, <1>4, Joined
  <2>2. Len(p) = k - 1 /\ Len(v) = n - 1
    BY <1>1, <1>3, <1>4, <2>1
  <2>3. \A i \in 1 .. k - 1 : v[i] = s[i]
    BY <1>3, <2>1, <2>2
  <2>4. ASSUME NEW i \in k .. n - 1 PROVE v[i] = s[i + 1]
    <3>1. PICK j \in 1 .. n - (k + 1) + 1 : k - 1 + j = i /\ (k + 1) + j - 1 = i + 1
      <4>1. i - k + 1 \in 1 .. n - (k + 1) + 1 /\ k - 1 + (i - k + 1) = i
            /\ (k + 1) + (i - k + 1) - 1 = i + 1
        BY <1>1
      <4> QED
        BY <4>1
    <3>2. v[k - 1 + j] = q[j] /\ q[j] = s[(k + 1) + j - 1]
      BY <1>4, <2>1, <2>2
    <3> QED
      BY <3>1, <3>2
  <2> QED
    BY <2>1, <2>2, <2>3, <2>4
<1>8. ASSUME NEW i \in 1 .. n - 1 PROVE u[i] = v[i]
  <2>0. /\ \A j \in 1 .. k - 1 : u[j] = s[j]
        /\ \A j \in k .. n - 1 : u[j] = s[j + 1]
    BY <1>1 DEF Removed
  <2>1. i \in 1 .. k - 1 \/ i \in k .. n - 1
    BY <1>1
  <2> QED
    BY <1>7, <2>0, <2>1
<1>9. u = v
  <2>1. Len(u) = Len(v) /\ Len(u) = n - 1
    BY <1>1, <1>7 DEF Removed
  <2> QED
    BY <1>7, <1>8, <2>1, SameSeq
<1> QED
  BY <1>1, <1>2, <1>9 DEF Clock!RemoveAt

\* The first is removed.
LEMMA TailIs ==
  ASSUME NEW S, NEW s \in Seq(S), s # <<>>, NEW u \in Seq(S), Removed(s, 1, u)
  PROVE  u = Tail(s)
<1>1. PICK v : v = Tail(s)
  OBVIOUS
<1>2. v \in Seq(S) /\ Len(v) = Len(s) - 1 /\ \A i \in 1 .. Len(v) : v[i] = s[i + 1]
  BY <1>1, HeadTailProperties
<1>3. Len(u) = Len(v) /\ \A i \in 1 .. Len(u) : u[i] = v[i]
  BY <1>2 DEF Removed
<1> QED
  BY <1>1, <1>2, <1>3, SameSeq

\* There is such a sequence.
LEMMA InsertExists ==
  ASSUME NEW S, NEW s \in Seq(S), NEW e \in S, NEW k \in 1 .. Len(s) + 1
  PROVE  \E u \in Seq(S) : Inserted(s, k, e, u)
<1> DEFINE u == [i \in 1 .. Len(s) + 1 |-> IF i < k THEN s[i] ELSE IF i = k THEN e ELSE s[i - 1]]
<1>1. Len(s) \in Nat /\ k \in Nat
  OBVIOUS
<1>2. u \in Seq(S) /\ Len(u) = Len(s) + 1
  <2>1. \A i \in 1 .. Len(s) + 1 : (i < k => i \in 1 .. Len(s)) /\ (i > k => i - 1 \in 1 .. Len(s))
    BY <1>1
  <2>2. u \in [1 .. Len(s) + 1 -> S]
    BY <1>1, <2>1
  <2> QED
    BY <1>1, <2>2
<1>3. u[k] = e /\ \A i \in 1 .. k - 1 : u[i] = s[i]
  BY <1>1
<1>4. ASSUME NEW i \in k .. Len(s) PROVE u[i + 1] = s[i]
  BY <1>1
<1> QED
  BY <1>2, <1>3, <1>4 DEF Inserted

LEMMA RemoveExists ==
  ASSUME NEW S, NEW s \in Seq(S), NEW k \in 1 .. Len(s)
  PROVE  \E u \in Seq(S) : Removed(s, k, u)
<1> DEFINE u == [i \in 1 .. Len(s) - 1 |-> IF i < k THEN s[i] ELSE s[i + 1]]
<1>1. Len(s) \in Nat /\ k \in Nat /\ Len(s) - 1 \in Nat
  OBVIOUS
<1>2. u \in Seq(S) /\ Len(u) = Len(s) - 1
  <2>1. \A i \in 1 .. Len(s) - 1 : i \in 1 .. Len(s) /\ i + 1 \in 1 .. Len(s)
    BY <1>1
  <2>2. u \in [1 .. Len(s) - 1 -> S]
    BY <1>1, <2>1
  <2> QED
    BY <1>1, <2>2
<1>3. \A i \in 1 .. k - 1 : u[i] = s[i]
  BY <1>1
<1>4. \A i \in k .. Len(s) - 1 : u[i] = s[i + 1]
  BY <1>1
<1> QED
  BY <1>2, <1>3, <1>4 DEF Removed

\* An alarm is linked into its place, ...
LinkedIn(l, k, a, nx, nx2) ==
  /\ nx2[a] = IF k = Len(l) + 1 THEN None ELSE l[k]
  /\ k # 1 => nx2[l[k - 1]] = a
  /\ \A i \in 1 .. Len(l) : i # k - 1 => nx2[l[i]] = nx[l[i]]

LEMMA StrungInsert ==
  ASSUME NEW l \in Seq(Alarm), NEW h, NEW nx, Strung(l, h, nx), NEW a \in Alarm,
         NEW k \in 1 .. Len(l) + 1, NEW u \in Seq(Alarm), Inserted(l, k, a, u),
         NEW nx2, LinkedIn(l, k, a, nx, nx2)
  PROVE  Strung(u, IF k = 1 THEN a ELSE h, nx2)
<1>1. PICK n \in Nat : n = Len(l)
  OBVIOUS
<1>2. /\ k \in 1 .. n + 1 /\ Len(u) = n + 1 /\ u[k] = a
      /\ \A i \in 1 .. k - 1 : u[i] = l[i]
      /\ \A i \in k .. n : u[i + 1] = l[i]
  BY <1>1 DEF Inserted
<1>3. /\ h = IF l = <<>> THEN None ELSE l[1]
      /\ \A i \in 1 .. n : nx[l[i]] = IF i = n THEN None ELSE l[i + 1]
      /\ \A i \in 1 .. n : i # k - 1 => nx2[l[i]] = nx[l[i]]
      /\ nx2[a] = IF k = n + 1 THEN None ELSE l[k]
      /\ k # 1 => nx2[l[k - 1]] = a
  BY <1>1 DEF Strung, LinkedIn
<1>4. u # <<>>
  BY <1>1, <1>2
<1>5. (IF k = 1 THEN a ELSE h) = u[1]
  <2>1. CASE k = 1
    BY <1>2, <2>1
  <2>2. CASE k # 1
    <3>1. 1 \in 1 .. k - 1 /\ l # <<>>
      BY <1>1, <1>2, <2>2
    <3> QED
      BY <1>2, <1>3, <2>2, <3>1
  <2> QED
    BY <2>1, <2>2
<1>6. ASSUME NEW i \in 1 .. n + 1 PROVE nx2[u[i]] = IF i = n + 1 THEN None ELSE u[i + 1]
  <2>1. CASE i < k - 1
    <3>1. /\ i \in 1 .. k - 1 /\ i + 1 \in 1 .. k - 1 /\ i \in 1 .. n /\ i # n /\ i # n + 1
          /\ i # k - 1
      BY <1>2, <2>1
    <3>2. u[i] = l[i] /\ u[i + 1] = l[i + 1]
      BY <1>2, <3>1
    <3> QED
      BY <1>3, <3>1, <3>2
  <2>2. CASE i = k - 1
    <3>1. i \in 1 .. k - 1 /\ i + 1 = k /\ i # n + 1 /\ k # 1
      BY <1>2, <2>2
    <3>2. u[i] = l[i] /\ u[i + 1] = a
      BY <1>2, <3>1
    <3> QED
      BY <1>3, <2>2, <3>1, <3>2
  <2>3. CASE i = k
    <3>1. i # n + 1 => i \in k .. n
      BY <1>2, <2>3
    <3> QED
      BY <1>2, <1>3, <2>3, <3>1
  <2>4. CASE i > k
    <3>1. PICK j \in k .. n : i = j + 1 /\ j \in 1 .. n /\ j # k - 1
      <4>1. i - 1 \in k .. n /\ i = (i - 1) + 1 /\ i - 1 \in 1 .. n /\ i - 1 # k - 1
        BY <1>2, <2>4
      <4> QED
        BY <4>1
    <3>2. u[i] = l[j]
      BY <1>2, <3>1
    <3>3. nx2[l[j]] = IF j = n THEN None ELSE l[j + 1]
      BY <1>3, <3>1
    <3>4. j # n => j + 1 \in k .. n /\ u[(j + 1) + 1] = l[j + 1]
      BY <1>2, <3>1
    <3> QED
      BY <3>1, <3>2, <3>3, <3>4
  <2> QED
    BY <1>2, <2>1, <2>2, <2>3, <2>4
<1> QED
  BY <1>2, <1>4, <1>5, <1>6 DEF Strung

\* ... and its neighbours are linked when it goes.
LinkedPast(l, k, nx, nx2) ==
  /\ k # 1 => nx2[l[k - 1]] = nx[l[k]]
  /\ \A i \in 1 .. Len(l) : i # k - 1 /\ i # k => nx2[l[i]] = nx[l[i]]

LEMMA StrungRemove ==
  ASSUME NEW l \in Seq(Alarm), NEW h, NEW nx, Strung(l, h, nx),
         NEW k \in 1 .. Len(l), NEW u \in Seq(Alarm), Removed(l, k, u),
         NEW nx2, LinkedPast(l, k, nx, nx2)
  PROVE  Strung(u, IF k = 1 THEN nx[l[1]] ELSE h, nx2)
<1>1. PICK n \in Nat : n = Len(l) /\ n # 0
  OBVIOUS
<1>2. /\ k \in 1 .. n /\ Len(u) = n - 1
      /\ \A i \in 1 .. k - 1 : u[i] = l[i]
      /\ \A i \in k .. n - 1 : u[i] = l[i + 1]
  BY <1>1 DEF Removed
<1>3. /\ h = IF l = <<>> THEN None ELSE l[1]
      /\ \A i \in 1 .. n : nx[l[i]] = IF i = n THEN None ELSE l[i + 1]
      /\ \A i \in 1 .. n : i # k - 1 /\ i # k => nx2[l[i]] = nx[l[i]]
      /\ k # 1 => nx2[l[k - 1]] = nx[l[k]]
  BY <1>1 DEF Strung, LinkedPast
<1>4. l # <<>> /\ (u = <<>> <=> n = 1)
  BY <1>1, <1>2
<1>5. (IF k = 1 THEN nx[l[1]] ELSE h) = IF u = <<>> THEN None ELSE u[1]
  <2>1. CASE k = 1
    <3>1. 1 \in 1 .. n /\ (n # 1 => 1 \in k .. n - 1)
      BY <1>1, <2>1
    <3>2. nx[l[1]] = IF 1 = n THEN None ELSE l[2]
      BY <1>3, <3>1
    <3>3. n # 1 => u[1] = l[2]
      BY <1>2, <3>1
    <3> QED
      BY <1>4, <2>1, <3>2, <3>3
  <2>2. CASE k # 1
    <3>1. 1 \in 1 .. k - 1 /\ n # 1
      BY <1>1, <1>2, <2>2
    <3> QED
      BY <1>2, <1>3, <1>4, <2>2, <3>1
  <2> QED
    BY <2>1, <2>2
<1>6. ASSUME NEW i \in 1 .. n - 1 PROVE nx2[u[i]] = IF i = n - 1 THEN None ELSE u[i + 1]
  <2>1. CASE i < k - 1
    <3>1. /\ i \in 1 .. k - 1 /\ i + 1 \in 1 .. k - 1 /\ i \in 1 .. n /\ i # n /\ i # n - 1
          /\ i # k - 1 /\ i # k
      BY <1>2, <2>1
    <3>2. u[i] = l[i] /\ u[i + 1] = l[i + 1]
      BY <1>2, <3>1
    <3> QED
      BY <1>3, <3>1, <3>2
  <2>2. CASE i = k - 1
    <3>1. i \in 1 .. k - 1 /\ i + 1 = k /\ k # 1 /\ (i = n - 1 <=> k = n) /\ k \in 1 .. n
      BY <1>2, <2>2
    <3>2. u[i] = l[k - 1] /\ nx2[l[k - 1]] = IF k = n THEN None ELSE l[k + 1]
      BY <1>2, <1>3, <2>2, <3>1
    <3>3. k # n => k \in k .. n - 1 /\ u[k] = l[k + 1]
      BY <1>2
    <3> QED
      BY <3>1, <3>2, <3>3
  <2>3. CASE i > k - 1
    <3>1. /\ i \in k .. n - 1 /\ i + 1 \in 1 .. n /\ i + 1 # k /\ i + 1 # k - 1
          /\ (i + 1 = n <=> i = n - 1)
      BY <1>2, <2>3
    <3>2. u[i] = l[i + 1]
      BY <1>2, <3>1
    <3>3. nx2[l[i + 1]] = IF i + 1 = n THEN None ELSE l[(i + 1) + 1]
      BY <1>3, <3>1
    <3>4. i + 1 # n => i + 1 \in k .. n - 1 /\ u[i + 1] = l[(i + 1) + 1]
      BY <1>2, <3>1
    <3> QED
      BY <3>1, <3>2, <3>3, <3>4
  <2> QED
    BY <1>2, <2>1, <2>2, <2>3
<1> QED
  BY <1>2, <1>5, <1>6 DEF Strung

LEMMA StrungFrame ==
  ASSUME NEW l \in Seq(Alarm), NEW h, NEW nx, NEW nx2, Strung(l, h, nx),
         \A i \in 1 .. Len(l) : nx2[l[i]] = nx[l[i]]
  PROVE  Strung(l, h, nx2)
BY DEF Strung

-----------------------------------------------------------------------------
(* The lists that AlarmClock sees                                          *)

Entries == [a : Alarm, t : Nat]

LEMMA TimedType ==
  ASSUME NEW l \in Seq(Alarm), NEW t \in [Alarm -> Nat]
  PROVE  /\ Timed(l, t) \in Seq(Entries) /\ Len(Timed(l, t)) = Len(l)
         /\ \A i \in 1 .. Len(l) : Timed(l, t)[i] = Clock!Entry(l[i], t[l[i]])
<1> DEFINE s == Timed(l, t)
<1>1. Len(l) \in Nat /\ \A i \in 1 .. Len(l) : l[i] \in Alarm /\ t[l[i]] \in Nat
  OBVIOUS
<1>2. s \in [1 .. Len(l) -> Entries] /\ \A i \in 1 .. Len(l) : s[i] = Clock!Entry(l[i], t[l[i]])
  <2>1. \A i \in 1 .. Len(l) : Clock!Entry(l[i], t[l[i]]) \in Entries
    BY <1>1 DEF Entries, Clock!Entry
  <2> QED
    BY <2>1 DEF Timed
<1> HIDE DEF s
<1>3. s \in Seq(Entries) /\ Len(s) = Len(l)
  <2>1. PICK n \in Nat : n = Len(l)
    BY <1>1
  <2>2. s \in [1 .. n -> Entries]
    BY <1>2, <2>1
  <2>3. s \in Seq(Entries) /\ Len(s) = n
    BY <2>2
  <2> QED
    BY <2>1, <2>3
<1> QED
  BY <1>2, <1>3 DEF s

\* The alarms of l, all but that in the place k, keep their times.
KeepTimes(l, k, t, t2) == \A i \in 1 .. Len(l) : i # k => t2[l[i]] = t[l[i]]

\* The list u, with the times t2, is l with the times t and a put into the place k, or
\* without what is in the place k.
TimedPut(l, t, k, a, u, t2) ==
  Timed(u, t2) = Clock!InsertAt(Timed(l, t), k, Clock!Entry(a, t2[a]))
TimedCut(l, t, k, u, t2) ==
  /\ Timed(u, t2) = Clock!RemoveAt(Timed(l, t), k)
  /\ k = 1 => Timed(u, t2) = Tail(Timed(l, t))

LEMMA TimedInsert ==
  ASSUME NEW l \in Seq(Alarm), NEW a \in Alarm, NEW k \in 1 .. Len(l) + 1,
         NEW u \in Seq(Alarm), Inserted(l, k, a, u),
         NEW t \in [Alarm -> Nat], NEW t2 \in [Alarm -> Nat], KeepTimes(l, 0, t, t2)
  PROVE  TimedPut(l, t, k, a, u, t2)
<1>1. PICK s \in Seq(Entries) : /\ s = Timed(l, t) /\ Len(s) = Len(l)
                                /\ \A i \in 1 .. Len(l) : s[i] = Clock!Entry(l[i], t[l[i]])
  BY TimedType
<1>2. PICK v \in Seq(Entries) : /\ v = Timed(u, t2) /\ Len(v) = Len(u)
                                /\ \A i \in 1 .. Len(u) : v[i] = Clock!Entry(u[i], t2[u[i]])
  BY TimedType
<1>3. PICK e \in Entries : e = Clock!Entry(a, t2[a])
  BY DEF Entries, Clock!Entry
<1>4. PICK n \in Nat : n = Len(l)
  OBVIOUS
<1>5. k \in 1 .. n + 1
  BY <1>4
<1>6. Len(u) = n + 1 /\ u[k] = a
  BY <1>4 DEF Inserted
<1>7. \A i \in 1 .. k - 1 : u[i] = l[i]
  BY DEF Inserted
<1>8. \A i \in k .. n : u[i + 1] = l[i]
  BY <1>4 DEF Inserted
<1>9. /\ \A i \in 1 .. n : s[i] = Clock!Entry(l[i], t[l[i]]) /\ t2[l[i]] = t[l[i]]
      /\ \A i \in 1 .. n + 1 : v[i] = Clock!Entry(u[i], t2[u[i]])
  BY <1>1, <1>2, <1>4, <1>6 DEF KeepTimes
<1>10. Len(s) = n /\ Len(v) = n + 1
  BY <1>1, <1>2, <1>4, <1>6
<1>11. v[k] = e
  BY <1>3, <1>5, <1>6, <1>9
<1>12. ASSUME NEW i \in 1 .. k - 1 PROVE v[i] = s[i]
  <2>1. i \in 1 .. n /\ i \in 1 .. n + 1
    BY <1>5
  <2>2. v[i] = Clock!Entry(u[i], t2[u[i]]) /\ s[i] = Clock!Entry(l[i], t[l[i]])
    BY <1>9, <2>1
  <2>3. u[i] = l[i] /\ t2[l[i]] = t[l[i]]
    BY <1>7, <1>9, <2>1
  <2> QED
    BY <2>2, <2>3
<1>13. ASSUME NEW i \in k .. n PROVE v[i + 1] = s[i]
  <2>1. i \in 1 .. n /\ i + 1 \in 1 .. n + 1
    BY <1>5
  <2>2. v[i + 1] = Clock!Entry(u[i + 1], t2[u[i + 1]]) /\ s[i] = Clock!Entry(l[i], t[l[i]])
    BY <1>9, <2>1
  <2>3. u[i + 1] = l[i] /\ t2[l[i]] = t[l[i]]
    BY <1>8, <1>9, <2>1
  <2> QED
    BY <2>2, <2>3
<1>14. Inserted(s, k, e, v)
  BY <1>10, <1>11, <1>12, <1>13 DEF Inserted
<1>15. k \in 1 .. Len(s) + 1
  BY <1>5, <1>10
<1> QED
  BY <1>1, <1>2, <1>3, <1>14, <1>15, InsertIs DEF TimedPut

LEMMA TimedRemove ==
  ASSUME NEW l \in Seq(Alarm), NEW k \in 1 .. Len(l), NEW u \in Seq(Alarm), Removed(l, k, u),
         NEW t \in [Alarm -> Nat], NEW t2 \in [Alarm -> Nat], KeepTimes(l, k, t, t2)
  PROVE  TimedCut(l, t, k, u, t2)
<1>1. PICK s \in Seq(Entries) : /\ s = Timed(l, t) /\ Len(s) = Len(l)
                                /\ \A i \in 1 .. Len(l) : s[i] = Clock!Entry(l[i], t[l[i]])
  BY TimedType
<1>2. PICK v \in Seq(Entries) : /\ v = Timed(u, t2) /\ Len(v) = Len(u)
                                /\ \A i \in 1 .. Len(u) : v[i] = Clock!Entry(u[i], t2[u[i]])
  BY TimedType
<1>3. PICK n \in Nat : n = Len(l)
  OBVIOUS
<1>4. k \in 1 .. n
  BY <1>3
<1>5. Len(u) = n - 1
  BY <1>3 DEF Removed
<1>6. \A i \in 1 .. k - 1 : u[i] = l[i]
  BY DEF Removed
<1>7. \A i \in k .. n - 1 : u[i] = l[i + 1]
  BY <1>3 DEF Removed
<1>8. /\ \A i \in 1 .. n : s[i] = Clock!Entry(l[i], t[l[i]])
      /\ \A i \in 1 .. n : i # k => t2[l[i]] = t[l[i]]
      /\ \A i \in 1 .. n - 1 : v[i] = Clock!Entry(u[i], t2[u[i]])
  BY <1>1, <1>2, <1>3, <1>5 DEF KeepTimes
<1>9. Len(s) = n /\ Len(v) = n - 1
  BY <1>1, <1>2, <1>3, <1>5
<1>10. ASSUME NEW i \in 1 .. k - 1 PROVE v[i] = s[i]
  <2>1. i \in 1 .. n /\ i \in 1 .. n - 1 /\ i # k
    BY <1>4
  <2>2. v[i] = Clock!Entry(u[i], t2[u[i]]) /\ s[i] = Clock!Entry(l[i], t[l[i]])
    BY <1>8, <2>1
  <2>3. u[i] = l[i] /\ t2[l[i]] = t[l[i]]
    BY <1>6, <1>8, <2>1
  <2> QED
    BY <2>2, <2>3
<1>11. ASSUME NEW i \in k .. n - 1 PROVE v[i] = s[i + 1]
  <2>1. i + 1 \in 1 .. n /\ i \in 1 .. n - 1 /\ i + 1 # k
    BY <1>4
  <2>2. v[i] = Clock!Entry(u[i], t2[u[i]]) /\ s[i + 1] = Clock!Entry(l[i + 1], t[l[i + 1]])
    BY <1>8, <2>1
  <2>3. u[i] = l[i + 1] /\ t2[l[i + 1]] = t[l[i + 1]]
    BY <1>7, <1>8, <2>1
  <2> QED
    BY <2>2, <2>3
<1>12. Removed(s, k, v)
  BY <1>9, <1>10, <1>11 DEF Removed
<1>13. k \in 1 .. Len(s)
  BY <1>4, <1>9
<1>14. v = Clock!RemoveAt(s, k)
  BY <1>12, <1>13, RemoveIs
<1>15. k = 1 => v = Tail(s)
  <2>1. s # <<>>
    BY <1>13
  <2> QED
    BY <1>12, <2>1, TailIs
<1> QED
  BY <1>1, <1>2, <1>14, <1>15 DEF TimedCut

-----------------------------------------------------------------------------
(* The lists of the counters in a state                                    *)

\* However the list of c is written as a sequence, AlarmClock sees that sequence.
ListsSeen ==
  \A c \in Counter : \A l \in Seq(Alarm) :
    Strung(l, head[c], nextalarm) => ListOf(c) = Timed(l, expirytime)

LEMMA WalkEnds ==
  ASSUME IInv, NEW c \in Counter
  PROVE  /\ WalksTo(Cardinality(Alarm), Hop(c), head[c], nextalarm)
         /\ Hop(c)[Cardinality(Alarm)] = None /\ DOMAIN Hop(c) = Steps
<1>1. WalksTo(Cardinality(Alarm), Hop(c), head[c], nextalarm)
  BY HopTypes DEF IInv
<1> QED
  BY <1>1, HopAlong DEF Along

LEMMA SeenLists ==
  ASSUME IInv
  PROVE  ListsSeen
<1> SUFFICES ASSUME NEW c \in Counter, NEW l \in Seq(Alarm), Strung(l, head[c], nextalarm)
             PROVE  ListOf(c) = Timed(l, expirytime)
  BY DEF ListsSeen
<1>1. PICK w, h : w = Hop(c) /\ h = head[c]
  OBVIOUS
<1>2. WalksTo(Cardinality(Alarm), w, h, nextalarm) /\ w[Cardinality(Alarm)] = None
  BY <1>1, WalkEnds
<1>3. Through(l, w)
  BY <1>1, <1>2, StrungWalk
<1> QED
  BY <1>1, <1>3, WalkEnds, ListIsTimed

\* The list of c: its links, the walk along it, its alarms in the order of their times.
OnList(c, l) ==
  /\ l \in Seq(Alarm)
  /\ Strung(l, head[c], nextalarm)
  /\ Through(l, Hop(c))
  /\ ListOf(c) = Timed(l, expirytime)
  /\ \A x : x \in On(c) <=> \E i \in 1 .. Len(l) : l[i] = x
  /\ \A i \in 1 .. Len(l), j \in 1 .. Len(l) :
       i < j => l[i] # l[j] /\ expirytime[l[i]] <= expirytime[l[j]]

LEMMA ListView ==
  ASSUME IInv, NEW c \in Counter
  PROVE  \E l : OnList(c, l)
<1>1. PICK w, h : w = Hop(c) /\ h = head[c]
  OBVIOUS
<1>2. WalksTo(Cardinality(Alarm), w, h, nextalarm) /\ w[Cardinality(Alarm)] = None
  BY <1>1, WalkEnds
<1>3. PICK l \in Seq(Alarm) : Strung(l, h, nextalarm)
  BY <1>2, WalkStrung
<1>4. Through(l, w)
  BY <1>2, <1>3, StrungWalk
<1>5. ListOf(c) = Timed(l, expirytime)
  BY <1>1, <1>4, WalkEnds, ListIsTimed
<1>6. /\ \A n \in Steps : w[n] = None \/ w[n] \in On(c)
      /\ \A n \in Steps, m \in Steps :
           m < n /\ w[n] # None =>
             w[m] # None /\ w[m] # w[n] /\ expirytime[w[m]] <= expirytime[w[n]]
      /\ \A x \in On(c) : \E n \in Steps : w[n] = x
  BY <1>1, HopAlong DEF Along
<1>7. /\ Len(l) \in Nat /\ Steps \subseteq Nat
      /\ \A i \in 1 .. Len(l) : i - 1 \in Steps /\ w[i - 1] = l[i] /\ l[i] # None
      /\ \A n \in Steps : n >= Len(l) => w[n] = None
  <2>1. Len(l) \in Steps /\ Steps \subseteq Nat /\ \A i \in 1 .. Len(l) : l[i] # None
    BY <1>4, StepsFinite DEF Through, Steps
  <2>2. \A i \in 1 .. Len(l) : i - 1 \in Steps
    BY <2>1, StepsFinite DEF Steps
  <2> QED
    BY <1>4, <2>1, <2>2 DEF Through
<1>8. ASSUME NEW x PROVE x \in On(c) <=> \E i \in 1 .. Len(l) : l[i] = x
  <2>1. ASSUME x \in On(c) PROVE \E i \in 1 .. Len(l) : l[i] = x
    <3>1. PICK n \in Steps : w[n] = x
      BY <1>6, <2>1
    <3>2. x # None
      BY <2>1 DEF On
    <3>3. n < Len(l) /\ n \in Nat
      BY <1>7, <3>1, <3>2
    <3>4. n + 1 \in 1 .. Len(l) /\ (n + 1) - 1 = n
      BY <1>7, <3>3
    <3> QED
      BY <1>7, <3>1, <3>4
  <2>2. ASSUME NEW i \in 1 .. Len(l), l[i] = x PROVE x \in On(c)
    BY <1>6, <1>7, <2>2
  <2> QED
    BY <2>1, <2>2
<1>9. ASSUME NEW i \in 1 .. Len(l), NEW j \in 1 .. Len(l), i < j
      PROVE  l[i] # l[j] /\ expirytime[l[i]] <= expirytime[l[j]]
  <2>1. i - 1 \in Steps /\ j - 1 \in Steps /\ i - 1 < j - 1
    BY <1>7, <1>9
  <2> QED
    BY <1>6, <1>7, <2>1
<1> QED
  BY <1>1, <1>3, <1>4, <1>5, <1>8, <1>9 DEF OnList

\* What AlarmClock sees of a list depends on the links and times of its own alarms.
LEMMA SameListOf ==
  ASSUME IInv, IInv', NEW c \in Counter, head'[c] = head[c],
         \A x \in On(c) : nextalarm'[x] = nextalarm[x] /\ expirytime'[x] = expirytime[x]
  PROVE  ListOf(c)' = ListOf(c)
<1>1. PICK l : OnList(c, l)
  BY ListView
<1>2. PICK h : h = head[c]
  OBVIOUS
<1>3. /\ l \in Seq(Alarm) /\ Strung(l, h, nextalarm) /\ ListOf(c) = Timed(l, expirytime)
      /\ \A i \in 1 .. Len(l) : l[i] \in On(c)
  BY <1>1, <1>2 DEF OnList
<1>4. Strung(l, h, nextalarm')
  BY <1>3, StrungFrame
<1>5. Timed(l, expirytime') = Timed(l, expirytime)
  BY <1>3 DEF Timed
<1>6. ListsSeen'
  BY SeenLists, PTL
<1>7. ListOf(c)' = Timed(l, expirytime')
  BY <1>2, <1>3, <1>4, <1>6 DEF ListsSeen
<1> QED
  BY <1>3, <1>5, <1>7

\* dv_setalarm() puts the alarm after those of the same time.
LEMMA AlarmPut ==
  ASSUME IInv, IInv', NEW a \in Alarm, NEW c \in Counter, NEW v \in Value,
         \A d \in Counter : a \notin On(d), NEW n \in Steps, PlacedAt(a, c, n),
         expirytime' = [expirytime EXCEPT ![a] = v]
  PROVE  Clock!Put(c, a, v)
<1>0. PICK t \in [Alarm -> Nat], t2 \in [Alarm -> Nat] : t = expirytime /\ t2 = expirytime'
  <2>1. expirytime \in [Alarm -> Nat] /\ expirytime' \in [Alarm -> Nat]
    BY DEF IInv, TypeOK, Value
  <2> QED
    BY <2>1
<1>1. PICK l \in Seq(Alarm) : OnList(c, l)
  <2>1. \E l : l \in Seq(Alarm) /\ OnList(c, l)
    BY ListView DEF OnList
  <2> QED
    BY <2>1
<1>2. PICK h : h = head[c]
  OBVIOUS
<1>3. PICK w : w = Hop(c)
  OBVIOUS
<1>4. /\ l \in Seq(Alarm) /\ Strung(l, h, nextalarm) /\ Through(l, w)
      /\ ListOf(c) = Timed(l, t)
      /\ \A i \in 1 .. Len(l) : l[i] \in On(c) /\ l[i] \in Alarm /\ l[i] # a
      /\ \A i \in 1 .. Len(l), j \in 1 .. Len(l) : i < j => t[l[i]] <= t[l[j]]
  <2>1. /\ l \in Seq(Alarm) /\ Strung(l, h, nextalarm) /\ Through(l, w)
        /\ ListOf(c) = Timed(l, t)
        /\ \A i \in 1 .. Len(l) : l[i] \in On(c)
        /\ \A i \in 1 .. Len(l), j \in 1 .. Len(l) : i < j => t[l[i]] <= t[l[j]]
    BY <1>0, <1>1, <1>2, <1>3 DEF OnList
  <2> QED
    BY <2>1, OnAlarms
<1>5. /\ t \in [Alarm -> Nat] /\ t2 \in [Alarm -> Nat] /\ t2[a] = v
      /\ \A x \in Alarm : x # a => t2[x] = t[x]
  BY <1>0 DEF IInv, TypeOK, Value
<1>6. /\ Len(l) \in Nat /\ n \in Nat /\ Len(l) \in Steps
      /\ \A m \in Steps : m \in Nat
      /\ \A i \in 1 .. Len(l) : i - 1 \in Steps /\ w[i - 1] = l[i]
      /\ \A m \in Steps : m >= Len(l) => w[m] = None
  <2>1. Len(l) \in Steps /\ \A m \in Steps : m \in Nat
    BY <1>4, StepsFinite DEF Through, Steps
  <2>2. \A i \in 1 .. Len(l) : i - 1 \in Steps
    BY <2>1, StepsFinite DEF Steps
  <2> QED
    BY <1>4, <2>1, <2>2 DEF Through
<1>7. /\ w[n] = None \/ t2[w[n]] > t2[a]
      /\ \A m \in Steps : m < n => w[m] # None /\ ~(t2[w[m]] > t2[a])
      /\ nextalarm'[a] = w[n]
      /\ n # 0 => nextalarm'[w[n - 1]] = a
      /\ \A x \in Alarm : x # a /\ (n = 0 \/ x # w[n - 1]) => nextalarm'[x] = nextalarm[x]
      /\ head'[c] = IF n = 0 THEN a ELSE h
      /\ \A d \in Counter : d # c => head'[d] = head[d]
      /\ n # 0 => w[n - 1] \in On(c)
  BY <1>0, <1>2, <1>3 DEF PlacedAt, PlaceOf
<1>8. n <= Len(l)
  <2>1. Len(l) < n => w[Len(l)] # None
    BY <1>6, <1>7
  <2> QED
    BY <1>6, <2>1
<1>9. PICK k \in 1 .. Len(l) + 1 : k = n + 1 /\ k - 1 = n
  <2>1. n + 1 \in 1 .. Len(l) + 1 /\ (n + 1) - 1 = n
    BY <1>6, <1>8
  <2> QED
    BY <2>1
<1>10. PICK u \in Seq(Alarm) : Inserted(l, k, a, u)
  BY <1>4, InsertExists
<1>11. \A i \in 1 .. Len(l) : i <= n => w[i - 1] = l[i] /\ t[l[i]] <= v
  <2> SUFFICES ASSUME NEW i \in 1 .. Len(l), i <= n PROVE w[i - 1] = l[i] /\ t[l[i]] <= v
    OBVIOUS
  <2>1. i - 1 \in Steps /\ i - 1 < n /\ w[i - 1] = l[i]
    BY <1>6
  <2>2. ~(t2[l[i]] > t2[a]) /\ l[i] \in Alarm /\ l[i] # a
    BY <1>4, <1>7, <2>1
  <2>3. ~(t[l[i]] > v) /\ t[l[i]] \in Nat /\ v \in Nat
    BY <1>5, <2>2
  <2> QED
    BY <2>1, <2>3
<1>12. \A i \in 1 .. Len(l) : i > n => t[l[i]] > v
  <2> SUFFICES ASSUME NEW i \in 1 .. Len(l), i > n PROVE t[l[i]] > v
    OBVIOUS
  <2>1. k \in 1 .. Len(l) /\ w[n] = l[k]
    BY <1>6, <1>9
  <2>2. t[l[k]] > v
    <3>1. l[k] \in Alarm /\ l[k] # a /\ l[k] # None
      BY <1>4, <2>1
    <3> QED
      BY <1>5, <1>7, <2>1, <3>1
  <2>3. k = i \/ k < i
    BY <1>6, <1>9
  <2>4. k = i \/ t[l[k]] <= t[l[i]]
    BY <1>4, <2>1, <2>3
  <2>5. t[l[k]] \in Nat /\ t[l[i]] \in Nat /\ v \in Nat
    BY <1>4, <1>5, <2>1
  <2>6. \A x \in Nat, y \in Nat, z \in Nat : x > z /\ x <= y => y > z
    OBVIOUS
  <2> QED
    BY <2>2, <2>4, <2>5, <2>6
<1>13. Strung(u, IF k = 1 THEN a ELSE h, nextalarm')
  <2>1. nextalarm'[a] = IF k = Len(l) + 1 THEN None ELSE l[k]
    <3>1. CASE k = Len(l) + 1
      <4>1. n >= Len(l)
        BY <1>6, <1>9, <3>1
      <4> QED
        BY <1>6, <1>7, <3>1, <4>1
    <3>2. CASE k # Len(l) + 1
      <4>1. k \in 1 .. Len(l)
        BY <1>6, <3>2
      <4>2. w[k - 1] = l[k]
        BY <1>6, <4>1
      <4> QED
        BY <1>7, <1>9, <3>2, <4>2
    <3> QED
      BY <3>1, <3>2
  <2>2. k # 1 => k - 1 \in 1 .. Len(l) /\ n # 0 /\ w[n - 1] = l[k - 1]
    <3>1. k # 1 => k - 1 \in 1 .. Len(l) /\ n # 0 /\ (k - 1) - 1 = n - 1
      BY <1>6, <1>9
    <3> QED
      BY <1>6, <3>1
  <2>3. k # 1 => nextalarm'[l[k - 1]] = a
    BY <1>7, <2>2
  <2>4. ASSUME NEW i \in 1 .. Len(l), i # k - 1 PROVE nextalarm'[l[i]] = nextalarm[l[i]]
    <3>1. CASE n = 0
      BY <1>4, <1>7, <3>1
    <3>2. CASE n # 0
      <4>1. k # 1
        BY <1>6, <1>9, <3>2
      <4>2. l[i] # l[k - 1]
        <5>1. i \in Int /\ k \in Int
          OBVIOUS
        <5>2. i < k - 1 \/ k - 1 < i
          BY <2>4, <5>1
        <5> QED
          BY <1>1, <2>2, <4>1, <5>2 DEF OnList
      <4> QED
        BY <1>4, <1>7, <2>2, <4>1, <4>2
    <3> QED
      BY <3>1, <3>2
  <2>5. LinkedIn(l, k, a, nextalarm, nextalarm')
    BY <2>1, <2>3, <2>4 DEF LinkedIn
  <2> QED
    BY <1>4, <1>10, <2>5, StrungInsert
<1>14. ListOf(c)' = Timed(u, t2)
  <2>1. ListsSeen'
    BY SeenLists, PTL
  <2>2. head'[c] = IF k = 1 THEN a ELSE h
    <3>1. k = 1 <=> n = 0
      BY <1>6, <1>9
    <3> QED
      BY <1>7, <3>1
  <2> QED
    BY <1>0, <1>10, <1>13, <2>1, <2>2 DEF ListsSeen
<1>15. TimedPut(l, t, k, a, u, t2)
  <2>1. KeepTimes(l, 0, t, t2)
    BY <1>4, <1>5 DEF KeepTimes
  <2> QED
    BY <1>10, <2>1, TimedInsert
<1>16. ASSUME NEW d \in Counter, d # c PROVE ListOf(d)' = ListOf(d)
  <2>1. \A x \in On(d) : x \in Alarm /\ x # a /\ x \notin On(c)
    BY <1>16, OnAlarms
  <2>2. \A x \in On(d) : nextalarm'[x] = nextalarm[x] /\ expirytime'[x] = expirytime[x]
    BY <1>0, <1>5, <1>7, <2>1
  <2> QED
    BY <1>7, <1>16, <2>2, SameListOf
<1>17. PICK L : L = Timed(l, t)
  OBVIOUS
<1>18. /\ Len(L) = Len(l)
       /\ \A i \in 1 .. Len(l) : L[i].t = t[l[i]]
  <2>1. Len(L) = Len(l) /\ \A i \in 1 .. Len(l) : L[i] = Clock!Entry(l[i], t[l[i]])
    BY <1>17, TimedType
  <2>2. ASSUME NEW i \in 1 .. Len(l) PROVE L[i].t = t[l[i]]
    <3>1. L[i] = Clock!Entry(l[i], t[l[i]])
      BY <2>1
    <3> QED
      BY <3>1 DEF Clock!Entry
  <2> QED
    BY <2>1, <2>2
<1>19. Lists[c] = L
  BY <1>4, <1>17 DEF Lists
<1>20. Clock!IsPlace(L, k, v)
  <2>1. \A j \in 1 .. k - 1 : L[j].t <= v
    <3>1. \A j \in 1 .. k - 1 : j \in 1 .. Len(l) /\ j <= n
      BY <1>6, <1>9
    <3> QED
      BY <1>11, <1>18, <3>1
  <2>2. \A j \in k .. Len(L) : L[j].t > v
    BY <1>6, <1>9, <1>12, <1>18
  <2>3. k \in 1 .. Len(L) + 1
    BY <1>18
  <2> QED
    BY <2>1, <2>2, <2>3 DEF Clock!IsPlace
<1>21. Lists' = [Lists EXCEPT ![c] = Clock!InsertAt(L, k, Clock!Entry(a, v))]
  <2>1. ListOf(c)' = Clock!InsertAt(L, k, Clock!Entry(a, v))
    BY <1>5, <1>14, <1>15, <1>17 DEF TimedPut
  <2>2. Lists' = [d \in Counter |-> ListOf(d)']
    BY DEF Lists
  <2> QED
    BY <1>16, <2>1, <2>2 DEF Lists
<1> QED
  BY <1>18, <1>19, <1>20, <1>21 DEF Clock!Put

-----------------------------------------------------------------------------
(* The advances under way                                                  *)

\* m calls that were preempted while they set an alarm, then k advances, and at most one
\* call that the expiry function of the last of them makes
Shape(cs, m, k) ==
  /\ \/ Len(cs) = m + k
     \/ k # 0 /\ Len(cs) = m + k + 1 /\ cs[m + k + 1].op # "advance"
  /\ \A i \in 1 .. m : cs[i].op # "advance"
  /\ \A i \in m + 1 .. m + k : cs[i].op = "advance"

Services == [c : Counter, a : Link, t : Nat]

\* The sequence s is what AlarmClock sees of the calls cs when the times are t.
Shows(s, cs, t, m, k) ==
  /\ s \in Seq(Services) /\ Len(s) = k
  /\ \A i \in 1 .. k : s[i] = ServedBy(cs[m + i], t)

\* The k advances of cs and of ds are in the same state.
SameAdvances(cs, t, m, ds, t2, m2, k) ==
  \A i \in 1 .. k : ServedBy(ds[m2 + i], t2) = ServedBy(cs[m + i], t)

LEMMA ServedType ==
  ASSUME NEW x \in CallSet, NEW t \in [Alarm -> Nat]
  PROVE  ServedBy(x, t) \in Services
<1>1. x.c \in Counter /\ x.a \in Link
  BY CallSetFields
<1>2. (IF x.a = None THEN 0 ELSE t[x.a]) \in Nat
  BY <1>1 DEF Link
<1> QED
  BY <1>1, <1>2 DEF ServedBy, Services

LEMMA ShapeBounds ==
  ASSUME NEW cs \in Seq(CallSet), NEW m \in Nat, NEW k \in Nat, Shape(cs, m, k)
  PROVE  1 .. LastAdvance(cs) - Preempted(cs) = 1 .. k /\ (k # 0 => Preempted(cs) = m)
<1>1. PICK n \in Nat : n = Len(cs)
  OBVIOUS
<1>2. /\ n = m + k \/ (k # 0 /\ n = m + k + 1 /\ cs[n].op # "advance")
      /\ \A i \in 1 .. m : cs[i].op # "advance"
      /\ \A i \in m + 1 .. m + k : cs[i].op = "advance"
  BY <1>1 DEF Shape
<1>3. PICK p \in 0 .. n : /\ p = Preempted(cs)
                          /\ \A i \in 1 .. p : cs[i].op # "advance"
                          /\ p < n => cs[p + 1].op = "advance"
  <2>1. m \in 0 .. n /\ (m < n => m + 1 \in m + 1 .. m + k)
    BY <1>2
  <2>2. m < n => cs[m + 1].op = "advance"
    BY <1>2, <2>1
  <2>3. \E p \in 0 .. n : /\ \A i \in 1 .. p : cs[i].op # "advance"
                          /\ p < n => cs[p + 1].op = "advance"
    BY <1>2, <2>1, <2>2
  <2>4. \E p \in 0 .. Len(cs) : /\ \A i \in 1 .. p : cs[i].op # "advance"
                                /\ p < Len(cs) => cs[p + 1].op = "advance"
    BY <1>1, <2>3
  <2>5. PICK p : /\ p = Preempted(cs) /\ p \in 0 .. Len(cs)
                 /\ \A i \in 1 .. p : cs[i].op # "advance"
                 /\ p < Len(cs) => cs[p + 1].op = "advance"
    BY <2>4 DEF Preempted
  <2>6. p \in 0 .. n /\ (p < n => cs[p + 1].op = "advance")
    BY <1>1, <2>5
  <2> QED
    BY <2>5, <2>6
<1>4. p = m
  <2>1. p < m => p + 1 \in 1 .. m /\ p < n
    BY <1>2
  <2>2. ~(p < m)
    BY <1>2, <1>3, <2>1
  <2>3. p > m => m + 1 \in m + 1 .. m + k /\ m + 1 \in 1 .. p
    BY <1>2
  <2>4. ~(p > m)
    BY <1>2, <1>3, <2>3
  <2> QED
    BY <2>2, <2>4
<1>5. cs = <<>> <=> n = 0
  BY <1>1
<1>6. LastAdvance(cs) = IF n # 0 /\ cs[n].op # "advance" THEN n - 1 ELSE n
  BY <1>1, <1>5 DEF LastAdvance
<1>7. CASE k = 0
  <2>1. LastAdvance(cs) = n \/ LastAdvance(cs) = n - 1
    BY <1>6
  <2>2. LastAdvance(cs) - p = 0 \/ LastAdvance(cs) - p = -1
    BY <1>2, <1>4, <1>7, <2>1
  <2>3. 1 .. 0 = {} /\ 1 .. (-1) = {}
    OBVIOUS
  <2> QED
    BY <1>3, <1>7, <2>2, <2>3
<1>8. CASE k # 0
  <2>1. LastAdvance(cs) = m + k
    <3>1. CASE n = m + k
      <4>1. m + k \in m + 1 .. m + k
        BY <1>8
      <4>2. cs[n].op = "advance"
        BY <1>2, <3>1, <4>1
      <4> QED
        BY <1>6, <3>1, <4>2
    <3>2. CASE n # m + k
      <4>1. n = m + k + 1 /\ cs[n].op # "advance" /\ n # 0
        BY <1>2, <3>2
      <4> QED
        BY <1>6, <4>1
    <3> QED
      BY <3>1, <3>2
  <2>2. LastAdvance(cs) - p = k
    BY <1>4, <2>1
  <2> QED
    BY <1>3, <1>4, <2>2
<1> QED
  BY <1>7, <1>8

LEMMA ServedShown ==
  ASSUME NEW cs \in Seq(CallSet), NEW m \in Nat, NEW k \in Nat, Shape(cs, m, k),
         NEW t \in [Alarm -> Nat]
  PROVE  Shows(ServedIn(cs, t), cs, t, m, k)
<1> DEFINE f == [i \in 1 .. k |-> ServedBy(cs[m + i], t)]
<1>1. ServedIn(cs, t) = f
  <2>1. ServedIn(cs, t) = [i \in 1 .. k |-> ServedBy(cs[Preempted(cs) + i], t)]
    BY ShapeBounds DEF ServedIn
  <2>2. CASE k = 0
    <3>1. 1 .. k = {}
      BY <2>2
    <3> QED
      BY <2>1, <3>1
  <2>3. CASE k # 0
    BY <2>1, <2>3, ShapeBounds
  <2> QED
    BY <2>2, <2>3
<1>2. \A i \in 1 .. k : cs[m + i] \in CallSet
  <2> TAKE i \in 1 .. k
  <2>1. m + i \in 1 .. Len(cs)
    BY DEF Shape
  <2> QED
    BY <2>1
<1>3. f \in [1 .. k -> Services]
  BY <1>2, ServedType
<1>4. \A i \in 1 .. k : f[i] = ServedBy(cs[m + i], t)
  OBVIOUS
<1> HIDE DEF f
<1>5. f \in Seq(Services) /\ Len(f) = k
  BY <1>3
<1> QED
  BY <1>1, <1>4, <1>5 DEF Shows

\* The same calls and times of alarms are seen as the same.
LEMMA ShownSame ==
  ASSUME NEW s, NEW cs, NEW t, NEW m \in Nat, NEW k \in Nat, Shows(s, cs, t, m, k),
         NEW u, NEW ds, NEW t2, NEW m2 \in Nat, Shows(u, ds, t2, m2, k),
         SameAdvances(cs, t, m, ds, t2, m2, k)
  PROVE  u = s
<1>1. s \in Seq(Services) /\ u \in Seq(Services) /\ Len(s) = k /\ Len(u) = k
  BY DEF Shows
<1>2. \A i \in 1 .. Len(u) : u[i] = s[i]
  BY <1>1 DEF Shows, SameAdvances
<1> QED
  BY <1>1, <1>2, SameSeq

\* Where the API may be used, no call is in the middle of its work.
LEMMA FreeShape ==
  ASSUME ApiFree, calls \in Seq(CallSet), NEW m \in Nat, NEW k \in Nat, Shape(calls, m, k)
  PROVE  Len(calls) = m + k
<1> SUFFICES ASSUME k # 0, Len(calls) = m + k + 1, calls[m + k + 1].op # "advance"
             PROVE  FALSE
  BY DEF Shape
<1>1. m + k \in 1 .. Len(calls) /\ m + k \in m + 1 .. m + k /\ Len(calls) # 0
  OBVIOUS
<1>2. calls[m + k].op = "advance"
  BY <1>1 DEF Shape
<1>3. Locked /\ calls # <<>> /\ Top.op # "advance"
  BY <1>1, <1>2 DEF Locked, Top
<1> QED
  BY <1>3 DEF ApiFree, Setting

LEMMA ShapePushedSet ==
  ASSUME NEW cs \in Seq(CallSet), NEW x \in CallSet, NEW ds, ds = Append(cs, x),
         NEW m \in Nat, NEW k \in Nat, Shape(cs, m, k), Len(cs) = m + k, x.op # "advance"
  PROVE  Shape(ds, IF k = 0 THEN m + 1 ELSE m, k)
<1>1. /\ Len(ds) = m + k + 1 /\ ds[m + k + 1] = x
      /\ \A i \in 1 .. m + k : ds[i] = cs[i]
  BY CallPushed
<1>2. /\ \A i \in 1 .. m : cs[i].op # "advance"
      /\ \A i \in m + 1 .. m + k : cs[i].op = "advance"
  BY DEF Shape
<1>3. /\ \A i \in 1 .. m : ds[i].op # "advance"
      /\ \A i \in m + 1 .. m + k : ds[i].op = "advance"
  BY <1>1, <1>2
<1>4. CASE k = 0
  <2>1. \A i \in 1 .. m + 1 : ds[i].op # "advance"
    BY <1>1, <1>3, <1>4
  <2>2. \A i \in (m + 1) + 1 .. (m + 1) + k : ds[i].op = "advance"
    BY <1>4
  <2> QED
    BY <1>1, <1>4, <2>1, <2>2 DEF Shape
<1>5. CASE k # 0
  BY <1>1, <1>3, <1>5 DEF Shape
<1> QED
  BY <1>4, <1>5

LEMMA ShapePushedAdvance ==
  ASSUME NEW cs \in Seq(CallSet), NEW x \in CallSet, NEW ds, ds = Append(cs, x),
         NEW m \in Nat, NEW k \in Nat, Shape(cs, m, k), Len(cs) = m + k, x.op = "advance"
  PROVE  Shape(ds, m, k + 1)
<1>1. /\ Len(ds) = m + k + 1 /\ ds[m + k + 1] = x
      /\ \A i \in 1 .. m + k : ds[i] = cs[i]
  BY CallPushed
<1>2. /\ \A i \in 1 .. m : cs[i].op # "advance"
      /\ \A i \in m + 1 .. m + k : cs[i].op = "advance"
  BY DEF Shape
<1>3. \A i \in 1 .. m : ds[i].op # "advance"
  BY <1>1, <1>2
<1>4. \A i \in m + 1 .. m + (k + 1) : ds[i].op = "advance"
  <2> TAKE i \in m + 1 .. m + (k + 1)
  <2>1. CASE i = m + k + 1
    BY <1>1, <2>1
  <2>2. CASE i # m + k + 1
    <3>1. i \in m + 1 .. m + k /\ i \in 1 .. m + k
      BY <2>2
    <3> QED
      BY <1>1, <1>2, <3>1
  <2> QED
    BY <2>1, <2>2
<1>5. Len(ds) = m + (k + 1)
  BY <1>1
<1> QED
  BY <1>3, <1>4, <1>5 DEF Shape

\* A call other than an advance has returned.
StillShaped(ds, m2, m, k) == m2 \in Nat /\ Shape(ds, m2, k) /\ (k # 0 => Len(ds) = m + k)

LEMMA ShapePoppedSet ==
  ASSUME NEW cs \in Seq(CallSet), cs # <<>>, NEW ds, ds = SubSeq(cs, 1, Len(cs) - 1),
         NEW m \in Nat, NEW k \in Nat, Shape(cs, m, k), cs[Len(cs)].op # "advance",
         NEW m2, m2 = IF k = 0 THEN m - 1 ELSE m
  PROVE  StillShaped(ds, m2, m, k)
<1>0. PICK n \in Nat \ {0} : n = Len(cs)
  OBVIOUS
<1>1. Len(ds) = n - 1 /\ \A i \in 1 .. n - 1 : ds[i] = cs[i]
  BY <1>0, CallPopped
<1>2. /\ n = m + k \/ (k # 0 /\ n = m + k + 1)
      /\ \A i \in 1 .. m : cs[i].op # "advance"
      /\ \A i \in m + 1 .. m + k : cs[i].op = "advance"
      /\ cs[n].op # "advance"
  BY <1>0 DEF Shape
<1>3. CASE k = 0
  <2>1. m2 \in Nat /\ m2 = m - 1
    BY <1>2, <1>3
  <2>2. Len(ds) = m2 + k /\ \A i \in 1 .. m2 : i \in 1 .. m /\ i \in 1 .. n - 1
    BY <1>1, <1>2, <1>3, <2>1
  <2>3. \A i \in 1 .. m2 : ds[i].op # "advance"
    BY <1>1, <1>2, <2>2
  <2>4. \A i \in m2 + 1 .. m2 + k : ds[i].op = "advance"
    BY <1>3
  <2> QED
    BY <1>3, <2>1, <2>2, <2>3, <2>4 DEF Shape, StillShaped
<1>4. CASE k # 0
  <2>1. n # m + k
    <3>1. m + k \in m + 1 .. m + k
      BY <1>4
    <3> QED
      BY <1>2, <3>1
  <2>2. Len(ds) = m + k /\ n - 1 = m + k
    BY <1>1, <1>2, <2>1
  <2>3. /\ \A i \in 1 .. m : ds[i].op # "advance"
        /\ \A i \in m + 1 .. m + k : ds[i].op = "advance"
    BY <1>1, <1>2, <2>2
  <2> QED
    BY <1>4, <2>2, <2>3 DEF Shape, StillShaped
<1> QED
  BY <1>3, <1>4

\* The running call is an advance: it is the last of them.
LEMMA ShapeTop ==
  ASSUME NEW cs \in Seq(CallSet), cs # <<>>, NEW m \in Nat, NEW k \in Nat, Shape(cs, m, k),
         cs[Len(cs)].op = "advance"
  PROVE  k # 0 /\ Len(cs) = m + k
<1>0. PICK n \in Nat \ {0} : n = Len(cs)
  OBVIOUS
<1>1. /\ n = m + k \/ (k # 0 /\ n = m + k + 1 /\ cs[n].op # "advance")
      /\ \A i \in 1 .. m : cs[i].op # "advance"
      /\ cs[n].op = "advance"
  BY <1>0 DEF Shape
<1>2. n = m + k
  BY <1>1
<1>3. k = 0 => n \in 1 .. m
  BY <1>2
<1> QED
  BY <1>0, <1>1, <1>2, <1>3

LEMMA ShapePoppedAdvance ==
  ASSUME NEW cs \in Seq(CallSet), cs # <<>>, NEW ds, ds = SubSeq(cs, 1, Len(cs) - 1),
         NEW m \in Nat, NEW k \in Nat, Shape(cs, m, k), cs[Len(cs)].op = "advance"
  PROVE  Shape(ds, m, k - 1)
<1>0. PICK n \in Nat \ {0} : n = Len(cs)
  OBVIOUS
<1>1. Len(ds) = n - 1 /\ \A i \in 1 .. n - 1 : ds[i] = cs[i]
  BY <1>0, CallPopped
<1>2. k # 0 /\ n = m + k
  BY <1>0, ShapeTop
<1>3. /\ \A i \in 1 .. m : cs[i].op # "advance"
      /\ \A i \in m + 1 .. m + k : cs[i].op = "advance"
  BY DEF Shape
<1>4. /\ \A i \in 1 .. m : i \in 1 .. n - 1
      /\ \A i \in m + 1 .. m + (k - 1) : i \in m + 1 .. m + k /\ i \in 1 .. n - 1
  BY <1>2
<1>5. /\ \A i \in 1 .. m : ds[i].op # "advance"
      /\ \A i \in m + 1 .. m + (k - 1) : ds[i].op = "advance"
  BY <1>1, <1>3, <1>4
<1>6. Len(ds) = m + (k - 1)
  BY <1>1, <1>2
<1> QED
  BY <1>5, <1>6 DEF Shape

LEMMA ShapeTurned ==
  ASSUME NEW cs \in Seq(CallSet), cs # <<>>, NEW x \in Link, NEW ds,
         ds = [cs EXCEPT ![Len(cs)].a = x],
         NEW m \in Nat, NEW k \in Nat, Shape(cs, m, k)
  PROVE  Shape(ds, m, k)
<1>0. PICK n \in Nat \ {0} : n = Len(cs)
  OBVIOUS
<1>1. /\ Len(ds) = n
      /\ \A i \in 1 .. n : ds[i].op = cs[i].op
  BY <1>0, CallTurned
<1>2. /\ n = m + k \/ (k # 0 /\ n = m + k + 1 /\ cs[n].op # "advance")
      /\ \A i \in 1 .. m : cs[i].op # "advance"
      /\ \A i \in m + 1 .. m + k : cs[i].op = "advance"
  BY <1>0 DEF Shape
<1>3. \A i \in m + 1 .. m + k : i \in 1 .. n
  BY <1>2
<1>4. \A i \in 1 .. m : i \in 1 .. n
  BY <1>2
<1>5. /\ \A i \in 1 .. m : ds[i].op # "advance"
      /\ \A i \in m + 1 .. m + k : ds[i].op = "advance"
  BY <1>1, <1>2, <1>3, <1>4
<1>6. n = m + k + 1 => ds[n].op = cs[n].op
  BY <1>1
<1> QED
  BY <1>1, <1>2, <1>5, <1>6 DEF Shape

-----------------------------------------------------------------------------
(* Each step as a step of AlarmClock                                       *)

LEMMA ListsStill ==
  ASSUME IInv, IInv', UNCHANGED <<head, nextalarm, expirytime>>
  PROVE  Lists' = Lists
<1>1. ASSUME NEW c \in Counter PROVE ListOf(c)' = ListOf(c)
  BY SameListOf
<1>2. Lists' = [c \in Counter |-> ListOf(c)']
  BY DEF Lists
<1> QED
  BY <1>1, <1>2 DEF Lists

\* An alarm is unlinked: AlarmClock removes it.
LEMMA AlarmRemoved ==
  ASSUME IInv, IInv', NEW a \in Alarm, NEW c \in Counter, a \in On(c), NEW n \in Steps,
         UnlinkedAt(a, c, n), \A x \in Alarm : x # a => expirytime'[x] = expirytime[x]
  PROVE  \E k \in 1 .. Len(Lists[c]) :
           /\ k = n + 1
           /\ Lists' = [Lists EXCEPT ![c] = Clock!RemoveAt(Lists[c], k)]
           /\ k = 1 => Lists' = [Lists EXCEPT ![c] = Tail(Lists[c])]
<1>0. PICK t \in [Alarm -> Nat], t2 \in [Alarm -> Nat] : t = expirytime /\ t2 = expirytime'
  <2>1. expirytime \in [Alarm -> Nat] /\ expirytime' \in [Alarm -> Nat]
    BY DEF IInv, TypeOK, Value
  <2> QED
    BY <2>1
<1>1. PICK l \in Seq(Alarm) : OnList(c, l)
  <2>1. \E l : l \in Seq(Alarm) /\ OnList(c, l)
    BY ListView DEF OnList
  <2> QED
    BY <2>1
<1>2. PICK h, w : h = head[c] /\ w = Hop(c)
  OBVIOUS
<1>4. /\ Strung(l, h, nextalarm) /\ Through(l, w) /\ ListOf(c) = Timed(l, t)
      /\ \A i \in 1 .. Len(l) : l[i] \in On(c) /\ l[i] \in Alarm
      /\ \A i \in 1 .. Len(l), j \in 1 .. Len(l) : i < j => l[i] # l[j]
  BY <1>0, <1>1, <1>2, OnAlarms DEF OnList
<1>6. /\ Len(l) \in Nat /\ n \in Nat
      /\ \A i \in 1 .. Len(l) : w[i - 1] = l[i]
      /\ n >= Len(l) => w[n] = None
  BY <1>4, StepsFinite DEF Through, Steps
<1>7. /\ w[n] = a
      /\ n # 0 => nextalarm'[w[n - 1]] = nextalarm[a]
      /\ \A x \in Alarm : x # a /\ (n = 0 \/ x # w[n - 1]) => nextalarm'[x] = nextalarm[x]
      /\ head'[c] = IF n = 0 THEN nextalarm[a] ELSE h
      /\ \A d \in Counter : d # c => head'[d] = head[d]
      /\ n # 0 => w[n - 1] \in On(c)
  BY <1>2 DEF UnlinkedAt
<1>8. PICK k \in 1 .. Len(l) : k = n + 1 /\ k - 1 = n
  <2>1. ~(n >= Len(l))
    BY <1>6, <1>7, AlarmAssumption
  <2>2. n + 1 \in 1 .. Len(l) /\ (n + 1) - 1 = n
    BY <1>6, <2>1
  <2> QED
    BY <2>2
<1>9. l[k] = a
  BY <1>6, <1>7, <1>8
<1>10. PICK u \in Seq(Alarm) : Removed(l, k, u)
  BY RemoveExists
<1>11. \A i \in 1 .. Len(l) : i # k => l[i] # a
  <2> SUFFICES ASSUME NEW i \in 1 .. Len(l), i # k PROVE l[i] # l[k]
    BY <1>9
  <2>1. i < k \/ k < i
    OBVIOUS
  <2> QED
    BY <1>4, <2>1
<1>13. Strung(u, IF k = 1 THEN nextalarm[l[1]] ELSE h, nextalarm')
  <2>1. k # 1 => k - 1 \in 1 .. Len(l) /\ n # 0 /\ w[n - 1] = l[k - 1]
    <3>1. k # 1 => k - 1 \in 1 .. Len(l) /\ n # 0 /\ (k - 1) - 1 = n - 1
      BY <1>6, <1>8
    <3> QED
      BY <1>6, <3>1
  <2>2. k # 1 => nextalarm'[l[k - 1]] = nextalarm[l[k]]
    BY <1>7, <1>9, <2>1
  <2>3. ASSUME NEW i \in 1 .. Len(l), i # k - 1, i # k PROVE nextalarm'[l[i]] = nextalarm[l[i]]
    <3>0. l[i] # a /\ l[i] \in Alarm
      BY <1>4, <1>11, <2>3
    <3>1. CASE n = 0
      BY <1>7, <3>0, <3>1
    <3>2. CASE n # 0
      <4>1. k # 1
        BY <1>6, <1>8, <3>2
      <4>2. l[i] # l[k - 1]
        <5>1. i \in Int /\ k \in Int
          OBVIOUS
        <5>2. i < k - 1 \/ k - 1 < i
          BY <2>3, <5>1
        <5> QED
          BY <1>4, <2>1, <4>1, <5>2
      <4> QED
        BY <1>7, <2>1, <3>0, <4>1, <4>2
    <3> QED
      BY <3>1, <3>2
  <2>4. Strung(l, h, nextalarm)
    BY <1>4
  <2>5. LinkedPast(l, k, nextalarm, nextalarm')
    BY <2>2, <2>3 DEF LinkedPast
  <2> QED
    BY <1>10, <2>4, <2>5, StrungRemove
<1>14. ListOf(c)' = Timed(u, t2)
  <2>1. ListsSeen'
    BY SeenLists, PTL
  <2>2. head'[c] = IF k = 1 THEN nextalarm[l[1]] ELSE h
    <3>1. k = 1 <=> n = 0
      BY <1>6, <1>8
    <3> QED
      BY <1>7, <1>9, <3>1
  <2> QED
    BY <1>0, <1>10, <1>13, <2>1, <2>2 DEF ListsSeen
<1>15. TimedCut(l, t, k, u, t2)
  <2>1. KeepTimes(l, k, t, t2)
    BY <1>0, <1>4, <1>11 DEF KeepTimes
  <2> QED
    BY <1>10, <2>1, TimedRemove
<1>16. ASSUME NEW d \in Counter, d # c PROVE ListOf(d)' = ListOf(d)
  <2>1. \A x \in On(d) : x \in Alarm /\ x # a /\ x \notin On(c)
    BY <1>16, OnAlarms
  <2>2. \A x \in On(d) : nextalarm'[x] = nextalarm[x] /\ expirytime'[x] = expirytime[x]
    BY <1>7, <2>1
  <2> QED
    BY <1>7, <1>16, <2>2, SameListOf
<1>17. PICK L : L = Timed(l, t)
  OBVIOUS
<1>18. Len(L) = Len(l)
  BY <1>17, TimedType
<1>19. Lists[c] = L
  BY <1>4, <1>17 DEF Lists
<1>20. Lists' = [Lists EXCEPT ![c] = ListOf(c)']
  <2>1. Lists' = [d \in Counter |-> ListOf(d)']
    BY DEF Lists
  <2> QED
    BY <1>16, <2>1 DEF Lists
<1>21. ListOf(c)' = Clock!RemoveAt(L, k) /\ (k = 1 => ListOf(c)' = Tail(L))
  BY <1>14, <1>15, <1>17 DEF TimedCut
<1> QED
  BY <1>8, <1>18, <1>19, <1>20, <1>21

\* An alarm is due for AlarmClock when it is for davroska.
LEMMA DueSeen ==
  ASSUME IInv, NEW c \in Counter
  PROVE  /\ Clock!IsDue(c) <=> Due(c)
         /\ head[c] # None => Head(Lists[c]) = Clock!Entry(head[c], expirytime[head[c]])
<1>1. PICK l \in Seq(Alarm) : OnList(c, l)
  <2>1. \E l : l \in Seq(Alarm) /\ OnList(c, l)
    BY ListView DEF OnList
  <2> QED
    BY <2>1
<1>2. PICK t \in [Alarm -> Nat] : t = expirytime
  <2>1. expirytime \in [Alarm -> Nat]
    BY DEF IInv, TypeOK, Value
  <2> QED
    BY <2>1
<1>3. Lists[c] = Timed(l, t) /\ Strung(l, head[c], nextalarm)
  BY <1>1, <1>2 DEF Lists, OnList
<1>4. PICK L : L = Timed(l, t)
  OBVIOUS
<1>5. /\ L \in Seq(Entries) /\ Len(L) = Len(l)
      /\ \A i \in 1 .. Len(l) : L[i] = Clock!Entry(l[i], t[l[i]])
  BY <1>4, TimedType
<1>6. CASE l = <<>>
  <2>1. head[c] = None /\ L = <<>>
    BY <1>3, <1>5, <1>6 DEF Strung
  <2> QED
    BY <1>3, <1>4, <2>1 DEF Clock!IsDue, Due
<1>7. CASE l # <<>>
  <2>1. 1 \in 1 .. Len(l) /\ l[1] # None
    BY <1>7
  <2>2. head[c] = l[1] /\ head[c] # None /\ L # <<>> /\ Head(L) = L[1]
    BY <1>3, <1>5, <1>7, <2>1 DEF Strung
  <2>3. Head(L) = Clock!Entry(head[c], expirytime[head[c]])
    BY <1>2, <1>5, <2>1, <2>2
  <2>4. Head(L).t = expirytime[head[c]]
    BY <2>3 DEF Clock!Entry
  <2> QED
    BY <1>3, <1>4, <2>2, <2>3, <2>4 DEF Clock!IsDue, Due
<1> QED
  BY <1>6, <1>7

\* AlarmClock sees the same advances in both states.
SameServing(cs, t, ds, t2) == ServedIn(ds, t2) = ServedIn(cs, t)

\* The same calls with the same times: AlarmClock sees no difference.
LEMMA ServingStill ==
  ASSUME NEW cs \in Seq(CallSet), NEW m \in Nat, NEW k \in Nat, Shape(cs, m, k),
         NEW ds \in Seq(CallSet), NEW m2 \in Nat, Shape(ds, m2, k),
         NEW t \in [Alarm -> Nat], NEW t2 \in [Alarm -> Nat],
         SameAdvances(cs, t, m, ds, t2, m2, k)
  PROVE  SameServing(cs, t, ds, t2)
<1>1. PICK s : s = ServedIn(cs, t)
  OBVIOUS
<1>2. PICK u : u = ServedIn(ds, t2)
  OBVIOUS
<1>3. Shows(s, cs, t, m, k) /\ Shows(u, ds, t2, m2, k)
  BY <1>1, <1>2, ServedShown
<1> QED
  BY <1>1, <1>2, <1>3, ShownSame DEF SameServing

\* The alarm a is idle.
LEMMA IdleAlarm ==
  ASSUME IInv, NEW a \in Alarm, \A d \in Counter : a \notin On(d),
         NEW m \in Nat, NEW k \in Nat, Shape(calls, m, k),
         \A i \in m + 1 .. m + k : calls[i].a # a
  PROVE  Clock!IsIdle(a)
<1>0. PICK t \in [Alarm -> Nat] : t = expirytime
  <2>1. expirytime \in [Alarm -> Nat]
    BY DEF IInv, TypeOK, Value
  <2> QED
    BY <2>1
<1>1. ASSUME NEW c \in Counter, NEW x \in Clock!Range(Lists[c]) PROVE x.a # a
  <2>1. PICK l \in Seq(Alarm) : OnList(c, l)
    <3>1. \E l : l \in Seq(Alarm) /\ OnList(c, l)
      BY ListView DEF OnList
    <3> QED
      BY <3>1
  <2>2. PICK L : L = Timed(l, t) /\ L = Lists[c]
    BY <1>0, <2>1 DEF OnList, Lists
  <2>3. /\ L \in Seq(Entries) /\ Len(L) = Len(l)
        /\ \A i \in 1 .. Len(l) : L[i] = Clock!Entry(l[i], t[l[i]])
    <3>1. /\ Timed(l, t) \in Seq(Entries) /\ Len(Timed(l, t)) = Len(l)
          /\ \A i \in 1 .. Len(l) : Timed(l, t)[i] = Clock!Entry(l[i], t[l[i]])
      BY TimedType
    <3> QED
      BY <2>2, <3>1
  <2>4. PICK i \in 1 .. Len(l) : x = L[i]
    BY <2>2, <2>3 DEF Clock!Range
  <2>5. x.a = l[i]
    <3>1. x = Clock!Entry(l[i], t[l[i]])
      BY <2>3, <2>4
    <3> QED
      BY <3>1 DEF Clock!Entry
  <2> QED
    BY <2>1, <2>5 DEF OnList
<1>2. ASSUME NEW x \in Clock!Range(Serving) PROVE x.a # a
  <2>1. PICK s : s = Serving
    OBVIOUS
  <2>2. Shows(s, calls, t, m, k)
    BY <1>0, <2>1, CallTypes, ServedShown DEF Serving, IInv
  <2>3. s \in Seq(Services) /\ Len(s) = k /\ \A i \in 1 .. k : s[i] = ServedBy(calls[m + i], t)
    BY <2>2 DEF Shows
  <2>4. PICK i \in 1 .. k : x = s[i]
    BY <2>1, <2>3 DEF Clock!Range
  <2>5. x.a = calls[m + i].a
    BY <2>3, <2>4 DEF ServedBy
  <2>6. m + i \in m + 1 .. m + k
    OBVIOUS
  <2> QED
    BY <2>5, <2>6
<1> QED
  BY <1>1, <1>2 DEF Clock!IsIdle

-----------------------------------------------------------------------------
(* The steps that AlarmClock does not see, and those that only one call takes *)

CallShape == \E m \in Nat, k \in Nat : Shape(calls, m, k)

LEMMA TimesTyped ==
  ASSUME IInv
  PROVE  expirytime \in [Alarm -> Nat] /\ calls \in Seq(CallSet)
BY CallTypes DEF IInv, TypeOK, Value

\* The same calls are under way, and the alarms of the advances keep their times.
LEMMA ServingKept ==
  ASSUME IInv, IInv', NEW m \in Nat, NEW k \in Nat, Shape(calls, m, k),
         NEW ds, ds = calls', NEW m2 \in Nat, Shape(ds, m2, k),
         SameAdvances(calls, expirytime, m, ds, expirytime', m2, k)
  PROVE  CallShape' /\ Serving' = Serving
<1>1. PICK t \in [Alarm -> Nat], t2 \in [Alarm -> Nat] : t = expirytime /\ t2 = expirytime'
  <2>1. expirytime \in [Alarm -> Nat] /\ expirytime' \in [Alarm -> Nat]
    BY DEF IInv, TypeOK, Value
  <2> QED
    BY <2>1
<1>2. PICK cs \in Seq(CallSet) : cs = calls
  BY TimesTyped
<1>3. ds \in Seq(CallSet)
  <2>1. (calls \in Seq(CallSet))'
    BY TimesTyped, PTL
  <2> QED
    BY <2>1
<1>4. Shape(cs, m, k) /\ SameAdvances(cs, t, m, ds, t2, m2, k)
  BY <1>1, <1>2
<1>5. SameServing(cs, t, ds, t2)
  BY <1>3, <1>4, ServingStill
<1>6. Serving' = ServedIn(ds, t2) /\ Serving = ServedIn(cs, t)
  BY <1>1, <1>2 DEF Serving
<1>7. \E i \in Nat, j \in Nat : Shape(ds, i, j)
  OBVIOUS
<1> QED
  BY <1>5, <1>6, <1>7 DEF CallShape, SameServing

\* An alarm that is not expiring has no part in the advances.
LEMMA NotServed ==
  ASSUME NEW a \in Alarm, a \notin Expiring, NEW m \in Nat, NEW k \in Nat, Shape(calls, m, k),
         Len(calls) \in Nat
  PROVE  \A i \in m + 1 .. m + k : calls[i].a # a
<1> SUFFICES ASSUME NEW i \in m + 1 .. m + k, calls[i].a = a PROVE FALSE
  OBVIOUS
<1>1. i \in 1 .. Len(calls) /\ calls[i].op = "advance"
  BY DEF Shape
<1> QED
  BY <1>1, ExpiringDef, ExpiringMember

\* Times other than those of the expiring alarms do not matter.
LEMMA SameServed ==
  ASSUME NEW x, NEW y, x.c = y.c, x.a = y.a, NEW t, NEW t2, x.a # None => t[x.a] = t2[x.a]
  PROVE  ServedBy(y, t2) = ServedBy(x, t)
BY DEF ServedBy

\* dv_setalarm_abs/rel() begin: nothing that AlarmClock sees has changed.
LEMMA BeginSetUnseen ==
  ASSUME IInv, IInv', NEW m \in Nat, NEW k \in Nat, Shape(calls, m, k),
         NEW op \in {"abs", "rel"}, NEW c \in Counter, NEW a \in Alarm, NEW v \in Value,
         BeginSet(op, c, a, v)
  PROVE  CallShape' /\ value' = value /\ Lists' = Lists /\ Serving' = Serving
<1>1. PICK x : x = Call(op, c, a, v)
  OBVIOUS
<1>2. x \in CallSet /\ x.op # "advance"
  BY <1>1 DEF Call, CallSet, Ops, Link
<1>3. PICK cs \in Seq(CallSet) : cs = calls
  BY TimesTyped
<1>4. PICK ds : ds = Append(cs, x)
  OBVIOUS
<1>13. ds = calls'
  BY <1>1, <1>3, <1>4 DEF BeginSet
<1>5. Len(cs) = m + k
  BY <1>3, FreeShape DEF BeginSet
<1>6. PICK m2 \in Nat : m2 = IF k = 0 THEN m + 1 ELSE m
  OBVIOUS
<1>7. Shape(ds, m2, k)
  <2>1. Shape(cs, m, k)
    BY <1>3
  <2> QED
    BY <1>2, <1>4, <1>5, <1>6, <2>1, ShapePushedSet
<1>8. UNCHANGED <<value, head, expirytime, nextalarm>>
  BY DEF BeginSet, alarmVars
<1>9. ASSUME NEW i \in 1 .. k PROVE ds[m2 + i] = cs[m + i]
  <2>1. m2 = m /\ m + i \in 1 .. Len(cs)
    BY <1>5, <1>6
  <2>2. \A j \in 1 .. Len(cs) : ds[j] = cs[j]
    BY <1>2, <1>3, <1>4, CallPushed
  <2> QED
    BY <2>1, <2>2
<1>10. SameAdvances(calls, expirytime, m, ds, expirytime', m2, k)
  BY <1>3, <1>8, <1>9 DEF SameAdvances
<1>11. CallShape' /\ Serving' = Serving
  BY <1>7, <1>10, <1>13, ServingKept
<1>12. Lists' = Lists
  BY <1>8, ListsStill
<1> QED
  BY <1>8, <1>11, <1>12

\* The k advances of the calls cs are those of calls.
KeepsAdvances(cs, m2, m, k) ==
  /\ m2 \in Nat /\ Shape(cs, m2, k)
  /\ \A i \in 1 .. k : cs[m2 + i] = calls[m + i]

\* A call that is preempted no more: it returns.
LEMMA SetReturns ==
  ASSUME IInv, Setting, NEW m \in Nat, NEW k \in Nat, Shape(calls, m, k),
         NEW rest, rest = Caller, NEW m2, m2 = IF k = 0 THEN m - 1 ELSE m
  PROVE  KeepsAdvances(rest, m2, m, k)
<1>1. PICK cs \in Seq(CallSet) : cs = calls
  BY TimesTyped
<1>2. cs # <<>> /\ cs[Len(cs)].op # "advance"
  BY <1>1, SettingIdleAlarm
<1>3. rest = SubSeq(cs, 1, Len(cs) - 1) /\ Shape(cs, m, k)
  BY <1>1 DEF Caller
<1>4. StillShaped(rest, m2, m, k)
  <2>1. cs \in Seq(CallSet) /\ rest = SubSeq(cs, 1, Len(cs) - 1) /\ Shape(cs, m, k)
    BY <1>1, <1>3
  <2> QED
    BY <1>2, <2>1, ShapePoppedSet
<1>5. /\ Len(rest) = Len(cs) - 1 /\ Len(cs) \in Nat
      /\ \A i \in 1 .. Len(cs) - 1 : rest[i] = cs[i]
  <2>1. cs # <<>>
    BY <1>2
  <2>2. rest = SubSeq(cs, 1, Len(cs) - 1)
    BY <1>3
  <2> QED
    BY <2>1, <2>2, CallPopped
<1>6. ASSUME NEW i \in 1 .. k PROVE rest[m2 + i] = cs[m + i]
  <2>1. m2 = m /\ Len(rest) = m + k
    BY <1>4 DEF StillShaped
  <2>2. m + i \in 1 .. Len(cs) - 1
    BY <1>5, <2>1
  <2> QED
    BY <1>5, <2>1, <2>2
<1> QED
  BY <1>1, <1>4, <1>6 DEF KeepsAdvances, StillShaped

ClockStep == [Clock!Next]_(Clock!vars)

LEMMA ClockStutters ==
  ASSUME value' = value, Lists' = Lists, Serving' = Serving
  PROVE  ClockStep
BY DEF ClockStep, Clock!vars

\* dv_setalarm_abs/rel(): AlarmClock arms the alarm, unless its time is refused.
LEMMA EndSetSeen ==
  ASSUME IInv, IInv', NEW m \in Nat, NEW k \in Nat, Shape(calls, m, k), EndSet
  PROVE  CallShape' /\ ClockStep
<1>0. Setting
  BY DEF EndSet
<1>1. PICK rest : rest = Caller
  OBVIOUS
<1>2. PICK v : v = Target(Top.op, Top.c, Top.v)
  OBVIOUS
<1>3. PICK m2 \in Nat : Shape(rest, m2, k) /\ \A i \in 1 .. k : rest[m2 + i] = calls[m + i]
  <2>1. PICK m2 : m2 = IF k = 0 THEN m - 1 ELSE m
    OBVIOUS
  <2>2. KeepsAdvances(rest, m2, m, k)
    BY <1>0, <1>1, <2>1, SetReturns
  <2> QED
    BY <2>2 DEF KeepsAdvances
<1>4. CASE Top.op = "rel" /\ v < value[Top.c]
  <2>1. rest = calls' /\ UNCHANGED <<value, head, expirytime, nextalarm>>
    BY <1>1, <1>2, <1>4 DEF EndSet, alarmVars
  <2>2. SameAdvances(calls, expirytime, m, rest, expirytime', m2, k)
    BY <1>3, <2>1 DEF SameAdvances
  <2>3. CallShape' /\ Serving' = Serving
    BY <1>3, <2>1, <2>2, ServingKept
  <2>4. Lists' = Lists
    BY <2>1, ListsStill
  <2> QED
    BY <2>1, <2>3, <2>4, ClockStutters
<1>5. CASE ~(Top.op = "rel" /\ v < value[Top.c])
  <2>1. PICK a \in Alarm, c \in Counter : a = Top.a /\ c = Top.c
    BY <1>0, SettingIdleAlarm
  <2>2. SetAlarm(a, c, v, rest)
    BY <1>1, <1>2, <1>5, <2>1 DEF EndSet
  <2>3. v \in Value /\ v # 0
    BY <1>0, <1>2, <1>5, TargetValue
  <2>4. a \notin Expiring /\ (\A d \in Counter : a \notin On(d)) /\ Len(calls) \in Nat
    BY <1>0, <2>1, SettingIdleAlarm
  <2>5. /\ expirytime' = [expirytime EXCEPT ![a] = v]
        /\ calls' = rest /\ value' = value
    BY <2>2, <2>3, <2>4, SetAlarmPlace
  <2>6. PICK n \in Steps : PlacedAt(a, c, n)
    BY <2>2, <2>3, <2>4, SetAlarmPlace
  <2>7. Clock!Put(c, a, v)
    BY <2>3, <2>4, <2>5, <2>6, AlarmPut
  <2>8. \A i \in m + 1 .. m + k : calls[i].a # a
    BY <2>4, NotServed
  <2>9. Clock!IsIdle(a)
    BY <2>4, <2>8, IdleAlarm
  <2>10. ASSUME NEW i \in 1 .. k
         PROVE  ServedBy(rest[m2 + i], expirytime') = ServedBy(calls[m + i], expirytime)
    <3>1. rest[m2 + i] = calls[m + i]
      BY <1>3
    <3>2. m + i \in m + 1 .. m + k /\ m + i \in 1 .. Len(calls)
      BY DEF Shape
    <3>3. calls[m + i].a # a
      BY <2>8, <3>2
    <3>4. calls[m + i].a \in Link
      <4>1. calls[m + i] \in CallSet
        BY <3>2, TimesTyped
      <4> QED
        BY <4>1, CallSetFields
    <3>5. calls[m + i].a # None => expirytime[calls[m + i].a] = expirytime'[calls[m + i].a]
      BY <2>5, <3>3, <3>4, TimesTyped DEF Link
    <3> QED
      BY <3>1, <3>5, SameServed
  <2>11. SameAdvances(calls, expirytime, m, rest, expirytime', m2, k)
    BY <2>10 DEF SameAdvances
  <2>12. CallShape' /\ Serving' = Serving
    BY <1>3, <2>5, <2>11, ServingKept
  <2>13. v \in 1 .. MaxValue
    BY <2>3 DEF Value
  <2>14. Clock!Arm(a)
    BY <2>5, <2>7, <2>9, <2>12, <2>13 DEF Clock!Arm
  <2> QED
    BY <2>12, <2>14 DEF ClockStep, Clock!Next
<1> QED
  BY <1>4, <1>5

\* dv_stopalarm() takes the alarm from its list, if it is on one.
LEMMA StopAlarmSeen ==
  ASSUME IInv, IInv', KeepsRules, NEW m \in Nat, NEW k \in Nat, Shape(calls, m, k),
         NEW a \in Alarm, StopAlarm(a)
  PROVE  CallShape' /\ ClockStep
<1>0. expirytime \in [Alarm -> Nat] /\ calls \in Seq(CallSet)
  BY TimesTyped
<1>1. CASE counter[a] = None
  <2>1. /\ expirytime' = [expirytime EXCEPT ![a] = 0]
        /\ nextalarm'  = [nextalarm EXCEPT ![a] = None]
        /\ head' = head /\ value' = value /\ calls' = calls
    BY <1>1 DEF StopAlarm
  <2>2. expirytime[a] = 0
    BY <1>1 DEF IInv, UseInv
  <2>3. expirytime' = expirytime
    BY <1>0, <2>1, <2>2
  <2>4. ASSUME NEW c \in Counter PROVE ListOf(c)' = ListOf(c)
    <3>1. \A x \in On(c) : x \in Alarm /\ x # a
      BY <1>1, AlarmAssumption DEF On
    <3>2. \A x \in On(c) : nextalarm'[x] = nextalarm[x]
      BY <2>1, <3>1 DEF IInv, TypeOK
    <3> QED
      BY <2>1, <2>3, <3>2, SameListOf
  <2>5. Lists' = Lists
    <3>1. Lists' = [c \in Counter |-> ListOf(c)']
      BY DEF Lists
    <3> QED
      BY <2>4, <3>1 DEF Lists
  <2>6. SameAdvances(calls, expirytime, m, calls, expirytime', m, k)
    BY <2>3 DEF SameAdvances
  <2>7. CallShape' /\ Serving' = Serving
    BY <2>1, <2>6, ServingKept
  <2> QED
    BY <2>1, <2>5, <2>7, ClockStutters
<1>2. CASE counter[a] # None
  <2>1. PICK c : c = counter[a] /\ c # None
    BY <1>2
  <2>2. /\ c \in Counter /\ a \in On(c)
        /\ expirytime' = [expirytime EXCEPT ![a] = 0] /\ calls' = calls /\ value' = value
    BY <2>1, StopAlarmPlace
  <2>3. PICK n \in Steps : UnlinkedAt(a, c, n)
    BY <2>1, StopAlarmPlace
  <2>4. \A x \in Alarm : x # a => expirytime'[x] = expirytime[x]
    BY <1>0, <2>2
  <2>5. PICK p \in 1 .. Len(Lists[c]) :
          Lists' = [Lists EXCEPT ![c] = Clock!RemoveAt(Lists[c], p)]
    BY <2>2, <2>3, <2>4, AlarmRemoved
  <2>6. a \notin Expiring /\ Len(calls) \in Nat
    BY <1>0, <2>2 DEF On
  <2>7. \A i \in m + 1 .. m + k : calls[i].a # a
    BY <2>6, NotServed
  <2>8. ASSUME NEW i \in 1 .. k
        PROVE  ServedBy(calls[m + i], expirytime') = ServedBy(calls[m + i], expirytime)
    <3>1. m + i \in m + 1 .. m + k /\ m + i \in 1 .. Len(calls)
      BY <2>6 DEF Shape
    <3>2. calls[m + i].a # a
      BY <2>7, <3>1
    <3>3. calls[m + i].a \in Link
      <4>1. calls[m + i] \in CallSet
        BY <1>0, <3>1
      <4> QED
        BY <4>1, CallSetFields
    <3>4. calls[m + i].a # None => expirytime[calls[m + i].a] = expirytime'[calls[m + i].a]
      BY <2>4, <3>2, <3>3 DEF Link
    <3> QED
      BY <3>4, SameServed
  <2>9. SameAdvances(calls, expirytime, m, calls, expirytime', m, k)
    BY <2>8 DEF SameAdvances
  <2>10. CallShape' /\ Serving' = Serving
    BY <2>2, <2>9, ServingKept
  <2>11. Clock!Disarm(c)
    BY <2>2, <2>5, <2>10 DEF Clock!Disarm
  <2> QED
    BY <2>2, <2>10, <2>11 DEF ClockStep, Clock!Next
<1> QED
  BY <1>1, <1>2

-----------------------------------------------------------------------------
(* The advance of a counter                                                *)

\* The addition of dv_u64_t gives the sum, or something smaller.
LEMMA PlusWraps ==
  ASSUME NEW u \in Value, NEW v \in Value
  PROVE  /\ u + v <= MaxValue => Plus(u, v) = u + v
         /\ u + v > MaxValue => Plus(u, v) < u
<1>1. PICK M \in Nat : M = MaxValue + 1
  BY AlarmAssumption
<1>2. u \in Nat /\ v \in Nat /\ u < M /\ v < M
  BY <1>1 DEF Value
<1>3. \A x \in Nat, y \in Nat : x < y => x % y = x
  OBVIOUS
<1>4. \A x \in Nat, y \in Nat : y <= x /\ x < y + y => x % y = x - y
  <2> SUFFICES ASSUME NEW x \in Nat, NEW y \in Nat, y <= x, x < y + y PROVE x % y = x - y
    OBVIOUS
  <2>1. y \in Nat \ {0}
    OBVIOUS
  <2>2. x % y \in 0 .. y - 1 /\ x = y * (x \div y) + (x % y) /\ x \div y \in Int
    BY <2>1
  <2>3. PICK q \in Int, r \in Int : q = x \div y /\ r = x % y
    BY <2>2
  <2>4. r \in 0 .. y - 1 /\ x = y * q + r
    BY <2>2, <2>3
  <2>5. q = 1
    <3>1. CASE q <= 0
      <4>1. y * q <= 0
        BY <2>1, <3>1, SMT
      <4> QED
        BY <2>1, <2>4, <4>1
    <3>2. CASE q >= 2
      <4>1. y * q >= y + y
        BY <2>1, <3>2, SMT
      <4> QED
        BY <2>1, <2>4, <4>1
    <3> QED
      BY <2>3, <3>1, <3>2
  <2> QED
    BY <2>1, <2>3, <2>4, <2>5
<1>5. CASE u + v <= MaxValue
  <2>1. u + v \in Nat /\ u + v < M
    BY <1>1, <1>2, <1>5, AlarmAssumption
  <2>2. (u + v) % M = u + v
    BY <1>2, <1>3, <2>1
  <2> QED
    BY <1>1, <1>2, <1>5, <2>2, AlarmAssumption DEF Plus
<1>6. CASE u + v > MaxValue
  <2>1. u + v \in Nat /\ M <= u + v /\ u + v < M + M
    BY <1>1, <1>2, <1>6, AlarmAssumption
  <2>2. (u + v) % M = (u + v) - M
    BY <1>4, <2>1
  <2>3. (u + v) - M < u
    BY <1>2
  <2> QED
    BY <1>1, <1>2, <1>6, <2>2, <2>3, AlarmAssumption DEF Plus
<1> QED
  BY <1>1, <1>2, <1>5, <1>6, AlarmAssumption

\* What AlarmClock sees of the calls and times of this state and the next
LEMMA ServingSeen ==
  ASSUME IInv, NEW m \in Nat, NEW k \in Nat, Shape(calls, m, k)
  PROVE  Shows(Serving, calls, expirytime, m, k)
<1>1. PICK cs \in Seq(CallSet), t \in [Alarm -> Nat] : cs = calls /\ t = expirytime
  BY TimesTyped
<1>2. Shows(ServedIn(cs, t), cs, t, m, k)
  BY <1>1, ServedShown
<1> QED
  BY <1>1, <1>2 DEF Serving

LEMMA ServingSeenNext ==
  ASSUME IInv', NEW m \in Nat, NEW k \in Nat, NEW ds, ds = calls', Shape(ds, m, k)
  PROVE  Shows(Serving', ds, expirytime', m, k)
<1>1. (expirytime \in [Alarm -> Nat] /\ calls \in Seq(CallSet))'
  BY TimesTyped, PTL
<1>2. PICK t \in [Alarm -> Nat] : t = expirytime'
  BY <1>1
<1>3. Shows(ServedIn(ds, t), ds, t, m, k)
  BY <1>1, <1>2, ServedShown
<1> QED
  BY <1>2, <1>3 DEF Serving

\* dv_advancecounter() begins, or panics.
LEMMA AdvanceSeen ==
  ASSUME IInv, IInv', NEW m \in Nat, NEW k \in Nat, Shape(calls, m, k),
         NEW c \in Counter, NEW n \in Value, AdvanceCounter(c, n)
  PROVE  CallShape' /\ ClockStep
<1>0. value \in [Counter -> Value] /\ value[c] \in Value
  BY DEF IInv, TypeOK
<1>1. CASE Plus(value[c], n) < value[c]
  <2>1. /\ calls' = calls /\ UNCHANGED <<value, head, expirytime, nextalarm>>
    BY <1>1 DEF AdvanceCounter, Panic, alarmVars
  <2>2. SameAdvances(calls, expirytime, m, calls, expirytime', m, k)
    BY <2>1 DEF SameAdvances
  <2>3. CallShape' /\ Serving' = Serving
    BY <2>1, <2>2, ServingKept
  <2>4. Lists' = Lists
    BY <2>1, ListsStill
  <2> QED
    BY <2>1, <2>3, <2>4, ClockStutters
<1>2. CASE ~(Plus(value[c], n) < value[c])
  <2>1. /\ value' = [value EXCEPT ![c] = Plus(@, n)]
        /\ calls' = Append(calls, Call("advance", c, None, 0))
        /\ UNCHANGED <<head, expirytime, nextalarm>>
    BY <1>2 DEF AdvanceCounter, alarmVars
  <2>2. value[c] + n <= MaxValue /\ Plus(value[c], n) = value[c] + n
    <3>1. ~(value[c] + n > MaxValue)
      BY <1>0, <1>2, PlusWraps
    <3>2. value[c] + n <= MaxValue
      BY <1>0, <3>1, AlarmAssumption DEF Value
    <3> QED
      BY <1>0, <3>2, PlusWraps
  <2>3. PICK x : x = Call("advance", c, None, 0)
    OBVIOUS
  <2>4. x \in CallSet /\ x.op = "advance" /\ x.c = c /\ x.a = None
    BY <2>3 DEF Call, CallSet, Ops, Link, Value
  <2>5. PICK cs \in Seq(CallSet) : cs = calls
    BY TimesTyped
  <2>6. PICK ds : ds = Append(cs, x)
    OBVIOUS
  <2>7. ds = calls'
    BY <2>1, <2>3, <2>5, <2>6
  <2>8. Len(cs) = m + k /\ Shape(cs, m, k)
    BY <2>5, FreeShape DEF AdvanceCounter
  <2>9. Shape(ds, m, k + 1)
    BY <2>4, <2>5, <2>6, <2>8, ShapePushedAdvance
  <2>10. /\ ds[m + k + 1] = x
         /\ \A i \in 1 .. m + k : ds[i] = cs[i]
    BY <2>4, <2>5, <2>6, <2>8, CallPushed
  <2>11. PICK s, u, t : s = Serving /\ u = Serving' /\ t = expirytime
    OBVIOUS
  <2>12. Shows(s, calls, t, m, k)
    BY <2>11, ServingSeen
  <2>13. Shows(u, ds, t, m, k + 1)
    <3>1. k + 1 \in Nat
      OBVIOUS
    <3>2. Shows(u, ds, expirytime', m, k + 1)
      BY <2>7, <2>9, <2>11, <3>1, ServingSeenNext
    <3> QED
      BY <2>1, <2>11, <3>2
  <2>14. PICK r \in Services : r = [c |-> c, a |-> None, t |-> 0]
    BY DEF Services, Link
  <2>15. u = Append(s, r)
    <3>1. /\ s \in Seq(Services) /\ Len(s) = k /\ u \in Seq(Services) /\ Len(u) = k + 1
          /\ \A i \in 1 .. k : s[i] = ServedBy(cs[m + i], t)
          /\ \A i \in 1 .. k + 1 : u[i] = ServedBy(ds[m + i], t)
      BY <2>5, <2>12, <2>13 DEF Shows
    <3>2. u[k + 1] = r
      <4>1. u[k + 1] = ServedBy(x, t)
        BY <2>10, <3>1
      <4> QED
        BY <2>4, <2>14, <4>1 DEF ServedBy
    <3>3. \A i \in 1 .. k : u[i] = s[i]
      <4> TAKE i \in 1 .. k
      <4>1. i \in 1 .. k + 1 /\ m + i \in 1 .. m + k
        OBVIOUS
      <4> QED
        BY <2>10, <3>1, <4>1
    <3>4. PICK z : z = Append(s, r)
      OBVIOUS
    <3>5. z \in Seq(Services) /\ Len(z) = k + 1 /\ z[k + 1] = r /\ \A i \in 1 .. k : z[i] = s[i]
      BY <2>14, <3>1, <3>4
    <3>6. \A i \in 1 .. k + 1 : u[i] = z[i]
      BY <3>2, <3>3, <3>5
    <3>7. u = z
      BY <3>1, <3>5, <3>6, SameSeq
    <3> QED
      BY <3>4, <3>7
  <2>16. Lists' = Lists
    BY <2>1, ListsStill
  <2>17. CallShape'
    <3>1. k + 1 \in Nat
      OBVIOUS
    <3>2. \E i \in Nat, j \in Nat : Shape(ds, i, j)
      BY <2>9, <3>1
    <3> QED
      BY <2>7, <3>2 DEF CallShape
  <2>18. value' = [value EXCEPT ![c] = @ + n]
    BY <2>1, <2>2
  <2>19. Clock!Advance(c, n)
    BY <2>2, <2>11, <2>14, <2>15, <2>16, <2>18 DEF Clock!Advance
  <2> QED
    BY <2>17, <2>19 DEF ClockStep, Clock!Next, Value
<1> QED
  BY <1>1, <1>2

\* u is s with its last service turned to the alarm a, whose time is t.
TurnedIn(s, u, a, t) == u = [s EXCEPT ![Len(s)].a = a, ![Len(s)].t = t]

\* u and s have k services and differ in the last alone, which has a and t in u.
SameButLast(s, u, k, a, t) ==
  /\ s \in Seq(Services) /\ u \in Seq(Services) /\ Len(s) = k /\ Len(u) = k
  /\ u[k].c = s[k].c /\ u[k].a = a /\ u[k].t = t
  /\ \A i \in 1 .. k : i # k => u[i] = s[i]

\* Services that differ in the last alone: it has turned.
LEMMA ServiceTurned ==
  ASSUME NEW s, NEW u, NEW k \in Nat \ {0}, NEW a \in Link, NEW t, SameButLast(s, u, k, a, t)
  PROVE  TurnedIn(s, u, a, t)
<1>0. /\ s \in Seq(Services) /\ u \in Seq(Services) /\ Len(s) = k /\ Len(u) = k
      /\ u[k].c = s[k].c /\ u[k].a = a /\ u[k].t = t
      /\ \A i \in 1 .. k : i # k => u[i] = s[i]
  BY DEF SameButLast
<1>1. k \in 1 .. k /\ s[k] \in Services /\ u[k] \in Services
  BY <1>0
<1>2. PICK y : y = [s[k] EXCEPT !.a = a, !.t = t]
  OBVIOUS
<1>3. y = u[k]
  BY <1>0, <1>1, <1>2 DEF Services
<1>4. PICK z : z = [s EXCEPT ![k] = y]
  OBVIOUS
<1>5. z \in Seq(Services) /\ Len(z) = k /\ \A i \in 1 .. k : z[i] = u[i]
  BY <1>0, <1>1, <1>3, <1>4
<1>6. u = z
  BY <1>0, <1>5, SameSeq
<1>7. z = [s EXCEPT ![Len(s)].a = a, ![Len(s)].t = t]
  BY <1>0, <1>1, <1>2, <1>4
<1> QED
  BY <1>6, <1>7 DEF TurnedIn

\* What AlarmClock sees of the running advance when it turns to x, whose time is t
Turns(s, u, x, t) ==
  /\ s # <<>> /\ s[Len(s)] = ServedBy(Top, expirytime)
  /\ TurnedIn(s, u, x, t)

\* The advance on top of the stack turns to another alarm, or to none.
LEMMA AdvanceTurns ==
  ASSUME IInv, IInv', NEW m \in Nat, NEW k \in Nat, Shape(calls, m, k),
         calls # <<>>, Top.op = "advance", NEW x \in Link, NEW ds, ds = calls',
         ds = [calls EXCEPT ![Len(calls)].a = x], NEW t, t = IF x = None THEN 0 ELSE expirytime'[x],
         \A y \in Alarm : y \in Expiring /\ y # Top.a => expirytime'[y] = expirytime[y],
         NoReentry, NEW s, s = Serving, NEW u, u = Serving'
  PROVE  CallShape' /\ Turns(s, u, x, t)
<1>1. PICK cs \in Seq(CallSet) : cs = calls
  BY TimesTyped
<1>2. cs # <<>> /\ cs[Len(cs)] = Top /\ Shape(cs, m, k)
  BY <1>1 DEF Top
<1>3. k # 0 /\ Len(cs) = m + k
  BY <1>1, <1>2, ShapeTop
<1>4. ds = [cs EXCEPT ![Len(cs)].a = x]
  BY <1>1
<1>5. Shape(ds, m, k)
  BY <1>1, <1>2, <1>4, ShapeTurned
<1>6. /\ \A i \in 1 .. Len(cs) : i # Len(cs) => ds[i] = cs[i]
      /\ ds[Len(cs)].a = x /\ ds[Len(cs)].c = cs[Len(cs)].c
  BY <1>1, <1>2, <1>4, CallTurned
<1>7. Shows(s, cs, expirytime, m, k)
  BY <1>1, ServingSeen
<1>8. Shows(u, ds, expirytime', m, k)
  BY <1>5, ServingSeenNext
<1>9. /\ s \in Seq(Services) /\ u \in Seq(Services) /\ Len(s) = k /\ Len(u) = k
      /\ \A i \in 1 .. k : s[i] = ServedBy(cs[m + i], expirytime)
      /\ \A i \in 1 .. k : u[i] = ServedBy(ds[m + i], expirytime')
  BY <1>7, <1>8 DEF Shows
<1>10. k \in 1 .. k /\ s[k] = ServedBy(Top, expirytime)
  BY <1>2, <1>3, <1>9
<1>11. u[k].c = Top.c /\ u[k].a = x /\ u[k].t = t
  <2>1. u[k] = ServedBy(ds[m + k], expirytime')
    BY <1>9, <1>10
  <2>2. ds[m + k].a = x /\ ds[m + k].c = Top.c
    BY <1>2, <1>3, <1>6
  <2> QED
    BY <2>1, <2>2 DEF ServedBy
<1>12. ASSUME NEW i \in 1 .. k, i # k PROVE u[i] = s[i]
  <2>1. /\ m + i \in 1 .. Len(cs) /\ m + i # Len(cs) /\ m + i \in m + 1 .. m + k
        /\ Len(cs) \in 1 .. Len(cs)
    BY <1>3, <1>12
  <2>2. ds[m + i] = cs[m + i] /\ cs[m + i] \in CallSet
    BY <1>1, <1>6, <2>1
  <2>3. cs[m + i].op = "advance"
    BY <1>2, <2>1 DEF Shape
  <2>4. cs[m + i].a # None => cs[m + i].a # cs[Len(cs)].a
    BY <1>1, <1>2, <2>1, <2>3 DEF NoReentry
  <2>5. cs[m + i].a # None => cs[m + i].a \in Alarm /\ cs[m + i].a \in Expiring
    <3>1. cs[m + i].a \in Link
      BY <2>2, CallSetFields
    <3> QED
      BY <1>1, <2>1, <2>3, <3>1, ExpiringDef, ExpiringMember DEF Link
  <2>6. cs[m + i].a # None => expirytime[cs[m + i].a] = expirytime'[cs[m + i].a]
    BY <1>2, <2>4, <2>5
  <2>7. ServedBy(ds[m + i], expirytime') = ServedBy(cs[m + i], expirytime)
    <3>1. PICK y, z : y = cs[m + i] /\ z = ds[m + i]
      OBVIOUS
    <3>2. z = y /\ (y.a # None => expirytime[y.a] = expirytime'[y.a])
      BY <2>2, <2>6, <3>1
    <3>3. ServedBy(z, expirytime') = ServedBy(y, expirytime)
      BY <3>2 DEF ServedBy
    <3> QED
      BY <3>1, <3>3
  <2> QED
    BY <1>9, <2>7
<1>13. CallShape'
  <2>1. \E i \in Nat, j \in Nat : Shape(ds, i, j)
    BY <1>5
  <2> QED
    BY <2>1 DEF CallShape
<1>14. u[k].c = s[k].c
  BY <1>10, <1>11 DEF ServedBy
<1>15. TurnedIn(s, u, x, t)
  <2>1. SameButLast(s, u, k, x, t)
    BY <1>9, <1>11, <1>12, <1>14 DEF SameButLast
  <2>2. k \in Nat \ {0}
    BY <1>3
  <2> QED
    BY <2>1, <2>2, ServiceTurned
<1>16. s # <<>>
  BY <1>3, <1>9
<1> QED
  BY <1>9, <1>10, <1>13, <1>15, <1>16 DEF Turns

\* The running advance, as both see it
LEMMA Running ==
  ASSUME IInv, calls # <<>>, Top.op = "advance"
  PROVE  /\ calls \in Seq(CallSet) /\ Top.c \in Counter /\ Top.a \in Link
         /\ Len(calls) \in Nat \ {0} /\ Top = calls[Len(calls)]
         /\ Top.a # None => /\ Top.a \in Expiring /\ expirytime[Top.a] # 0
                            /\ \A d \in Counter : Top.a \notin On(d)
<1>1. calls \in Seq(CallSet) /\ Len(calls) \in Nat \ {0} /\ Top \in CallSet
  BY CallTypes DEF IInv
<1>2. Top = calls[Len(calls)] /\ Len(calls) \in 1 .. Len(calls)
  BY <1>1 DEF Top
<1>3. ASSUME Top.a # None
      PROVE  /\ Top.a \in Expiring /\ expirytime[Top.a] # 0
             /\ \A d \in Counter : Top.a \notin On(d)
  <2>1. Top.a \in Expiring
    BY <1>2, <1>3, ExpiringDef, ExpiringMember
  <2>2. expirytime[Top.a] # 0
    BY <1>2, <1>3 DEF IInv, CallsInv, CallsFit
  <2> QED
    BY <2>1, <2>2 DEF On
<1> QED
  BY <1>1, <1>2, <1>3, CallSetFields

\* The loop of dv_advancecounter(): the first alarm of the list expires.
LEMMA ExpireSeen ==
  ASSUME IInv, IInv', NEW m \in Nat, NEW k \in Nat, Shape(calls, m, k), Expire
  PROVE  CallShape' /\ ClockStep
<1>1. calls # <<>> /\ Top.op = "advance" /\ Top.a = None /\ Due(Top.c)
  BY DEF Expire, Looping
<1>2. PICK c \in Counter : c = Top.c
  BY <1>1, Running
<1>3. PICK h \in Alarm : h = head[c] /\ h # None
  BY <1>1, <1>2, AlarmAssumption DEF Due, IInv, TypeOK
<1>4. /\ calls' = [calls EXCEPT ![Len(calls)].a = h]
      /\ head'  = [head EXCEPT ![c] = nextalarm[h]]
      /\ expirytime' = expirytime /\ nextalarm' = nextalarm /\ value' = value
  BY <1>2, <1>3 DEF Expire, alarmVars
<1>5. h \in On(c)
  <2>1. Whole(On(c), h, nextalarm, expirytime)
    BY <1>3 DEF IInv, ListInv
  <2> QED
    BY <1>3, <2>1 DEF Whole, Linked
<1>6. UnlinkedAt(h, c, 0) /\ 0 \in Steps
  <2>1. Hop(c)[0] = h
    BY <1>3, WalkEnds DEF WalksTo
  <2>2. head'[c] = nextalarm[h] /\ \A d \in Counter : d # c => head'[d] = head[d]
    BY <1>4 DEF IInv, TypeOK
  <2>3. 0 \in Steps
    BY StepsFinite DEF Steps
  <2> QED
    BY <1>4, <2>1, <2>2, <2>3 DEF UnlinkedAt
<1>7. Lists' = [Lists EXCEPT ![c] = Tail(Lists[c])]
  <2>1. \A x \in Alarm : x # h => expirytime'[x] = expirytime[x]
    BY <1>4
  <2>2. PICK p \in 1 .. Len(Lists[c]) :
          /\ p = 0 + 1
          /\ p = 1 => Lists' = [Lists EXCEPT ![c] = Tail(Lists[c])]
    BY <1>5, <1>6, <2>1, AlarmRemoved
  <2> QED
    BY <2>2
<1>8. PICK e : e = expirytime[h]
  OBVIOUS
<1>9. PICK L : L = Head(Lists[c])
  OBVIOUS
<1>10. Clock!IsDue(c) /\ L.a = h /\ L.t = e
  <2>1. Clock!IsDue(c) /\ L = Clock!Entry(h, e)
    BY <1>1, <1>2, <1>3, <1>8, <1>9, DueSeen
  <2> QED
    BY <2>1 DEF Clock!Entry
<1>11. PICK s, u, ds : s = Serving /\ u = Serving' /\ ds = calls'
  OBVIOUS
<1>12. CallShape' /\ Turns(s, u, h, e)
  <2>1. h \in Link /\ e = IF h = None THEN 0 ELSE expirytime'[h]
    BY <1>3, <1>4, <1>8 DEF Link
  <2>2. NoReentry
    BY SoundLists DEF ListsSound
  <2>3. \A y \in Alarm : y \in Expiring /\ y # Top.a => expirytime'[y] = expirytime[y]
    BY <1>4
  <2>4. ds = [calls EXCEPT ![Len(calls)].a = h]
    BY <1>4, <1>11
  <2> QED
    BY <1>1, <1>11, <2>1, <2>2, <2>3, <2>4, AdvanceTurns
<1>13. /\ s # <<>> /\ s[Len(s)].c = c /\ s[Len(s)].a = None
       /\ u = [s EXCEPT ![Len(s)].a = h, ![Len(s)].t = e]
  BY <1>1, <1>2, <1>12 DEF Turns, TurnedIn, ServedBy
<1>14. Clock!Top.c = c /\ Clock!Top.a = None
  BY <1>11, <1>13 DEF Clock!Top
<1>15. Clock!Expire
  <2>1. Serving' = [Serving EXCEPT ![Len(Serving)].a = L.a, ![Len(Serving)].t = L.t]
    BY <1>10, <1>11, <1>13
  <2>2. Lists' = [Lists EXCEPT ![c] = Tail(@)]
    BY <1>7
  <2> QED
    BY <1>4, <1>9, <1>10, <1>11, <1>13, <1>14, <2>1, <2>2 DEF Clock!Expire
<1> QED
  BY <1>12, <1>15 DEF ClockStep, Clock!Next

\* The expiry function has returned: its alarm stops, or expires again after inc.
LEMMA ReturnSeen ==
  ASSUME IInv, IInv', NEW m \in Nat, NEW k \in Nat, Shape(calls, m, k),
         NEW inc \in Value, ExpiryReturns(inc)
  PROVE  CallShape' /\ ClockStep
<1>1. calls # <<>> /\ Top.op = "advance" /\ Top.a # None
  BY DEF ExpiryReturns
<1>2. PICK c \in Counter, a \in Alarm : c = Top.c /\ a = Top.a
  BY <1>1, Running DEF Link
<1>3. (\A d \in Counter : a \notin On(d)) /\ expirytime[a] # 0
  BY <1>1, <1>2, Running
<1>4. PICK e \in Value : e = expirytime[a] /\ expirytime \in [Alarm -> Value]
  BY DEF IInv, TypeOK
<1>5. PICK v : v = Plus(e, inc)
  OBVIOUS
<1>6. PICK loop : loop = [calls EXCEPT ![Len(calls)].a = None]
  OBVIOUS
<1>7. StopsRepeating(a, inc) <=> v <= e
  BY <1>4, <1>5 DEF StopsRepeating
<1>8. /\ v \in Value /\ e \in Nat /\ inc \in Nat /\ v \in Nat /\ MaxValue \in Nat
      /\ v <= e <=> ~(inc > 0 /\ e + inc <= MaxValue)
      /\ ~(v <= e) => v = e + inc /\ v # 0
  <2>1. v \in Value /\ e \in Nat /\ inc \in Nat /\ MaxValue \in Nat
    BY <1>4, <1>5, PlusValue, AlarmAssumption DEF Value
  <2>2. v \in Nat
    BY <2>1 DEF Value
  <2>3. (e + inc <= MaxValue => v = e + inc) /\ (e + inc > MaxValue => v < e)
    BY <1>4, <1>5, PlusWraps
  <2> QED
    BY <2>1, <2>2, <2>3
<1>9. ASSUME ~(v <= e) PROVE SetAlarm(a, c, v, loop)
  <2>1. ~StopsRepeating(a, inc) /\ v = Plus(expirytime[a], inc)
    BY <1>4, <1>5, <1>7, <1>9
  <2> QED
    BY <1>2, <1>6, <2>1 DEF ExpiryReturns
<1>10. /\ calls' = loop /\ value' = value
       /\ expirytime' = [expirytime EXCEPT ![a] = IF v <= e THEN 0 ELSE v]
       /\ IF v <= e THEN Lists' = Lists ELSE Clock!Put(c, a, v)
  <2>1. CASE v <= e
    <3>1. /\ expirytime' = [expirytime EXCEPT ![a] = 0]
          /\ nextalarm'  = [nextalarm EXCEPT ![a] = None]
          /\ calls' = loop /\ head' = head /\ value' = value
      BY <1>2, <1>6, <1>7, <2>1 DEF ExpiryReturns
    <3>2. ASSUME NEW d \in Counter PROVE ListOf(d)' = ListOf(d)
      <4>1. \A x \in On(d) : x \in Alarm /\ x # a
        BY <1>3, OnAlarms
      <4>2. \A x \in On(d) : nextalarm'[x] = nextalarm[x] /\ expirytime'[x] = expirytime[x]
        BY <3>1, <4>1 DEF IInv, TypeOK
      <4> QED
        BY <3>1, <4>2, SameListOf
    <3>3. Lists' = Lists
      <4>1. Lists' = [d \in Counter |-> ListOf(d)']
        BY DEF Lists
      <4> QED
        BY <3>2, <4>1 DEF Lists
    <3> QED
      BY <2>1, <3>1, <3>3
  <2>2. CASE ~(v <= e)
    <3>1. /\ expirytime' = [expirytime EXCEPT ![a] = v]
          /\ calls' = loop /\ value' = value
      BY <1>3, <1>8, <1>9, <2>2, SetAlarmPlace
    <3>2. PICK n \in Steps : PlacedAt(a, c, n)
      BY <1>3, <1>8, <1>9, <2>2, SetAlarmPlace
    <3>3. Clock!Put(c, a, v)
      BY <1>3, <1>8, <3>1, <3>2, AlarmPut
    <3> QED
      BY <2>2, <3>1, <3>3
  <2> QED
    BY <2>1, <2>2
<1>11. PICK s, u, ds : s = Serving /\ u = Serving' /\ ds = calls'
  OBVIOUS
<1>12. CallShape' /\ Turns(s, u, None, 0)
  <2>1. None \in Link /\ 0 = IF None = None THEN 0 ELSE expirytime'[None]
    BY DEF Link
  <2>2. NoReentry
    BY SoundLists DEF ListsSound
  <2>3. \A y \in Alarm : y \in Expiring /\ y # Top.a => expirytime'[y] = expirytime[y]
    BY <1>2, <1>4, <1>10
  <2>4. ds = [calls EXCEPT ![Len(calls)].a = None]
    BY <1>6, <1>10, <1>11
  <2> QED
    BY <1>1, <1>11, <2>1, <2>2, <2>3, <2>4, AdvanceTurns
<1>13. /\ s # <<>> /\ s[Len(s)].c = c /\ s[Len(s)].a = a /\ s[Len(s)].t = e
       /\ u = [s EXCEPT ![Len(s)].a = None, ![Len(s)].t = 0]
  BY <1>1, <1>2, <1>4, <1>12 DEF Turns, TurnedIn, ServedBy
<1>14. Clock!Top.c = c /\ Clock!Top.a = a /\ Clock!Top.t = e /\ a # None
  BY <1>1, <1>2, <1>11, <1>13 DEF Clock!Top
<1>15. Clock!Expired(inc)
  <2>1. Serving # <<>> /\ Serving' = [Serving EXCEPT ![Len(Serving)].a = None,
                                                    ![Len(Serving)].t = 0]
    BY <1>11, <1>13
  <2>2. CASE v <= e
    BY <1>8, <1>10, <1>14, <2>1, <2>2 DEF Clock!Expired
  <2>3. CASE ~(v <= e)
    <3>1. Clock!Put(Clock!Top.c, Clock!Top.a, Clock!Top.t + inc)
      BY <1>8, <1>10, <1>14, <2>3
    <3> QED
      BY <1>8, <1>10, <1>14, <2>1, <2>3, <3>1 DEF Clock!Expired
  <2> QED
    BY <2>2, <2>3
<1> QED
  BY <1>12, <1>15 DEF ClockStep, Clock!Next, Value

\* dv_advancecounter() returns: nothing is due.
LEMMA EndAdvanceSeen ==
  ASSUME IInv, IInv', NEW m \in Nat, NEW k \in Nat, Shape(calls, m, k), EndAdvance
  PROVE  CallShape' /\ ClockStep
<1>1. calls # <<>> /\ Top.op = "advance" /\ Top.a = None /\ ~Due(Top.c)
  BY DEF EndAdvance, Looping
<1>2. PICK c \in Counter : c = Top.c
  BY <1>1, Running
<1>3. calls' = Caller /\ UNCHANGED <<value, head, expirytime, nextalarm>>
  BY DEF EndAdvance, alarmVars
<1>4. PICK cs \in Seq(CallSet) : cs = calls
  BY TimesTyped
<1>5. PICK ds : ds = SubSeq(cs, 1, Len(cs) - 1)
  OBVIOUS
<1>6. ds = calls'
  BY <1>3, <1>4, <1>5 DEF Caller
<1>7. cs # <<>> /\ cs[Len(cs)] = Top /\ Shape(cs, m, k)
  BY <1>1, <1>4 DEF Top
<1>8. k # 0 /\ Len(cs) = m + k
  BY <1>1, <1>4, <1>7, ShapeTop
<1>9. Shape(ds, m, k - 1) /\ k - 1 \in Nat
  <2>1. cs[Len(cs)].op = "advance" /\ k - 1 \in Nat
    BY <1>1, <1>7, <1>8
  <2> QED
    BY <1>4, <1>5, <1>7, <2>1, ShapePoppedAdvance
<1>10. \A i \in 1 .. Len(cs) - 1 : ds[i] = cs[i]
  BY <1>4, <1>5, <1>7, CallPopped
<1>11. PICK s, u, t : s = Serving /\ u = Serving' /\ t = expirytime
  OBVIOUS
<1>12. Shows(s, cs, t, m, k)
  BY <1>4, <1>7, <1>11, ServingSeen
<1>13. Shows(u, ds, t, m, k - 1)
  <2>1. Shows(u, ds, expirytime', m, k - 1)
    BY <1>6, <1>9, <1>11, ServingSeenNext
  <2> QED
    BY <1>3, <1>11, <2>1
<1>14. /\ s \in Seq(Services) /\ Len(s) = k /\ u \in Seq(Services) /\ Len(u) = k - 1
       /\ \A i \in 1 .. k : s[i] = ServedBy(cs[m + i], t)
       /\ \A i \in 1 .. k - 1 : u[i] = ServedBy(ds[m + i], t)
  BY <1>12, <1>13 DEF Shows
<1>15. s # <<>> /\ s[Len(s)].c = c /\ s[Len(s)].a = None
  <2>1. s[Len(s)] = ServedBy(Top, t)
    BY <1>7, <1>8, <1>14
  <2> QED
    BY <1>1, <1>2, <1>8, <1>14, <2>1 DEF ServedBy
<1>16. u = SubSeq(s, 1, Len(s) - 1)
  <2>1. \A i \in 1 .. k - 1 : u[i] = s[i]
    <3> TAKE i \in 1 .. k - 1
    <3>1. i \in 1 .. k /\ m + i \in 1 .. Len(cs) - 1
      BY <1>8
    <3> QED
      BY <1>10, <1>14, <3>1
  <2>2. PICK z : z = SubSeq(s, 1, k - 1)
    OBVIOUS
  <2>3. z \in Seq(Services) /\ Len(z) = k - 1 /\ \A i \in 1 .. k - 1 : z[i] = s[i]
    <3>1. k - 1 \in Nat /\ 1 \in Nat /\ 1 <= 1 /\ k - 1 <= Len(s) /\ 1 <= (k - 1) + 1
      BY <1>9, <1>14
    <3>2. SliceOf(z, Services, s, 1, k - 1)
      BY <1>14, <2>2, <3>1, Slice
    <3> QED
      BY <3>1, <3>2 DEF SliceOf
  <2>4. u = z
    BY <1>14, <2>1, <2>3, SameSeq
  <2> QED
    BY <1>14, <2>2, <2>4
<1>17. Clock!Top.c = c /\ Clock!Top.a = None
  BY <1>11, <1>15 DEF Clock!Top
<1>18. ~Clock!IsDue(c)
  BY <1>1, <1>2, DueSeen
<1>19. Lists' = Lists
  BY <1>3, ListsStill
<1>20. Clock!Advanced
  BY <1>3, <1>11, <1>15, <1>16, <1>17, <1>18, <1>19 DEF Clock!Advanced
<1>21. CallShape'
  <2>1. \E i \in Nat, j \in Nat : Shape(ds, i, j)
    BY <1>9
  <2> QED
    BY <1>6, <2>1 DEF CallShape
<1> QED
  BY <1>20, <1>21 DEF ClockStep, Clock!Next

-----------------------------------------------------------------------------
(* The refinement                                                          *)

LEMMA ClockInit ==
  ASSUME Init
  PROVE  CallShape /\ Clock!Init
<1>1. IInv
  BY InductiveInit
<1>2. Shape(calls, 0, 0)
  BY DEF Init, Shape
<1>3. Serving = <<>>
  <2>1. Shows(Serving, calls, expirytime, 0, 0)
    BY <1>1, <1>2, ServingSeen
  <2> QED
    BY <2>1 DEF Shows
<1>4. ASSUME NEW c \in Counter PROVE Lists[c] = <<>>
  <2>1. PICK l \in Seq(Alarm) : OnList(c, l)
    <3>1. \E l : l \in Seq(Alarm) /\ OnList(c, l)
      BY <1>1, ListView DEF OnList
    <3> QED
      BY <3>1
  <2>2. l = <<>>
    <3>1. Strung(l, None, nextalarm)
      BY <2>1 DEF OnList, Init
    <3>2. l # <<>> => l[1] \in Alarm
      BY <2>1
    <3> QED
      BY <3>1, <3>2, AlarmAssumption DEF Strung
  <2>3. ListOf(c) \in Seq(Entries) /\ Len(ListOf(c)) = 0
    <3>1. PICK t \in [Alarm -> Nat] : t = expirytime
      BY <1>1, TimesTyped
    <3>2. ListOf(c) = Timed(l, t)
      BY <2>1, <3>1 DEF OnList
    <3> QED
      BY <2>1, <2>2, <3>2, TimedType
  <2> QED
    BY <2>3 DEF Lists
<1>5. Lists = [c \in Counter |-> <<>>]
  BY <1>4 DEF Lists
<1> QED
  BY <1>2, <1>3, <1>5 DEF CallShape, Clock!Init, Init

LEMMA ClockNext ==
  ASSUME IInv, IInv', KeepsRules, CallShape, [Next]_vars
  PROVE  CallShape' /\ ClockStep
<1>0. PICK m \in Nat, k \in Nat : Shape(calls, m, k)
  BY DEF CallShape
<1>1. CASE \E op \in {"abs", "rel"}, c \in Counter, a \in Alarm, v \in Value :
             BeginSet(op, c, a, v)
  BY <1>0, <1>1, BeginSetUnseen, ClockStutters
<1>2. CASE \E a \in Alarm : StopAlarm(a)
  BY <1>0, <1>2, StopAlarmSeen
<1>3. CASE \E c \in Counter, n \in Value : AdvanceCounter(c, n)
  BY <1>0, <1>3, AdvanceSeen
<1>4. CASE EndSet
  BY <1>0, <1>4, EndSetSeen
<1>5. CASE Expire
  BY <1>0, <1>5, ExpireSeen
<1>6. CASE \E inc \in Value : ExpiryReturns(inc)
  BY <1>0, <1>6, ReturnSeen
<1>7. CASE EndAdvance
  BY <1>0, <1>7, EndAdvanceSeen
<1>8. CASE UNCHANGED vars
  <2>1. calls' = calls /\ UNCHANGED <<value, head, expirytime, nextalarm>>
    BY <1>8 DEF vars, alarmVars
  <2>2. SameAdvances(calls, expirytime, m, calls, expirytime', m, k)
    BY <2>1 DEF SameAdvances
  <2>3. CallShape' /\ Serving' = Serving
    BY <1>0, <2>1, <2>2, ServingKept
  <2> QED
    BY <2>1, <2>3, ListsStill, ClockStutters
<1> QED
  BY <1>1, <1>2, <1>3, <1>4, <1>5, <1>6, <1>7, <1>8 DEF Next, Begin, Return

\* The linked lists, their times and the nested calls of davroska-time.c keep the promises
\* of AlarmClock: what a counter has listed expires in the order of the times, the first set
\* first among those of one time, none early, none passed over, and an alarm is armed only
\* when it is neither listed nor expiring.
THEOREM RefinesAlarmClock ==
  ASSUME KeepsRules
  PROVE  Spec => ImplementsAlarmClock
<1>1. Init => CallShape /\ Clock!Init
  BY ClockInit
<1>2. IInv /\ IInv' /\ CallShape /\ [Next]_vars => CallShape' /\ [Clock!Next]_(Clock!vars)
  BY ClockNext DEF ClockStep
<1> QED
  BY <1>1, <1>2, Invariance, PTL DEF Spec, ImplementsAlarmClock, Clock!Spec
=============================================================================
