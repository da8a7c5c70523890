----------------------------- MODULE DvOsekProofs -----------------------------
(***************************************************************************)
(* Theorems of DvOsek, for every number of counters and alarms, all maxima *)
(* and cycles, and every width of a davroska counter.                      *)
(***************************************************************************)
EXTENDS DvOsek, FiniteSetTheorems, SequenceTheorems, WellFoundedInduction, TLAPS

\* The numbers that the constants bound
LEMMA Bounds == MaxValue \in Nat /\ Counter \subseteq Nat /\ Task \subseteq Nat
<1>1. Cardinality(Counter) \in Nat /\ Cardinality(Task) \in Nat
  BY OsekAssumption, FS_CardinalityType
<1> QED
  BY <1>1, OsekAssumption

USE Bounds

-----------------------------------------------------------------------------
(* Arithmetic of dv_u64_t                                                  *)

Value == 0 .. MaxValue

\* x / m is q, the remainder r.
Splits(x, m, q, r) == q \in Int /\ r \in 0 .. m - 1 /\ x = m * q + r

LEMMA Divides ==
  ASSUME NEW m \in Nat \ {0}, NEW x \in Int, NEW q, NEW r, Splits(x, m, q, r)
  PROVE  x % m = r
<1>0. q \in Int /\ r \in 0 .. m - 1 /\ x = m * q + r
  BY DEF Splits
<1>1. x % m \in 0 .. m - 1 /\ x = m * (x \div m) + (x % m) /\ x \div m \in Int
  OBVIOUS
<1>2. PICK d \in Int, s \in 0 .. m - 1 : d = x \div m /\ s = x % m /\ x = m * d + s
  BY <1>1
<1>3. d = q
  <2>0. m * q \in Int /\ m * d \in Int
    BY <1>0
  <2>1. m * d + s = m * q + r
    BY <1>0, <1>2
  <2>2. CASE d > q
    <3>1. m * d >= m * q + m
      <4>1. PICK e \in Nat : d = q + 1 + e
        BY <1>0, <2>2
      <4>2. m * d = m * q + m + m * e /\ m * e \in Nat
        BY <1>0, <4>1, SMT
      <4> QED
        BY <2>0, <4>2
    <3>2. m * d \in Int /\ m * q \in Int
      BY <1>0
    <3> QED
      BY <1>0, <1>2, <2>1, <3>1, <3>2
  <2>3. CASE d < q
    <3>1. m * q >= m * d + m
      <4>1. PICK e \in Nat : q = d + 1 + e
        BY <1>0, <2>3
      <4>2. m * q = m * d + m + m * e /\ m * e \in Nat
        BY <1>0, <4>1, SMT
      <4> QED
        BY <2>0, <4>2
    <3>2. m * d \in Int /\ m * q \in Int
      BY <1>0
    <3> QED
      BY <1>0, <1>2, <2>1, <3>1, <3>2
  <2> QED
    BY <1>0, <2>2, <2>3
<1>4. m * d \in Int
  OBVIOUS
<1> QED
  BY <1>0, <1>2, <1>3, <1>4

\* The sum, or the sum less 2^64.
LEMMA PlusIs ==
  ASSUME NEW u \in Value, NEW v \in Value
  PROVE  Plus(u, v) = IF u + v <= MaxValue THEN u + v ELSE u + v - MaxValue - 1
<1>1. PICK M \in Nat \ {0} : M = MaxValue + 1
  OBVIOUS
<1>2. u \in Nat /\ v \in Nat /\ u < M /\ v < M
  BY <1>1 DEF Value
<1>3. CASE u + v < M
  <2>1. Splits(u + v, M, 0, u + v)
    BY <1>1, <1>2, <1>3 DEF Splits
  <2>2. (u + v) % M = u + v
    BY <1>2, <2>1, Divides
  <2> QED
    BY <1>1, <1>2, <1>3, <2>2 DEF Plus
<1>4. CASE u + v >= M
  <2>1. Splits(u + v, M, 1, u + v - M)
    BY <1>1, <1>2, <1>4 DEF Splits
  <2>2. (u + v) % M = u + v - M
    BY <1>2, <2>1, Divides
  <2> QED
    BY <1>1, <1>2, <1>4, <2>2 DEF Plus
<1> QED
  BY <1>2, <1>3, <1>4

\* The difference, or the difference and 2^64.
LEMMA MinusIs ==
  ASSUME NEW u \in Value, NEW v \in Value
  PROVE  Minus(u, v) = IF v <= u THEN u - v ELSE u - v + MaxValue + 1
<1>1. PICK M \in Nat \ {0} : M = MaxValue + 1
  OBVIOUS
<1>2. u \in Nat /\ v \in Nat /\ u < M /\ v < M
  BY <1>1 DEF Value
<1>3. CASE v <= u
  <2>1. Splits(u - v, M, 0, u - v)
    BY <1>1, <1>2, <1>3 DEF Splits
  <2>2. (u - v) % M = u - v
    BY <1>2, <2>1, Divides
  <2> QED
    BY <1>1, <1>2, <1>3, <2>2 DEF Minus
<1>4. CASE v > u
  <2>1. Splits(u - v, M, -1, u - v + M)
    BY <1>1, <1>2, <1>4 DEF Splits
  <2>2. (u - v) % M = u - v + M
    BY <1>2, <2>1, Divides
  <2> QED
    BY <1>1, <1>2, <1>4, <2>2 DEF Minus
<1> QED
  BY <1>2, <1>3, <1>4

LEMMA SumInValue ==
  ASSUME NEW u \in Value, NEW v \in Value
  PROVE  Plus(u, v) \in Value /\ Minus(u, v) \in Value
<1>1. u \in Int /\ v \in Int /\ 0 <= u /\ 0 <= v /\ u <= MaxValue /\ v <= MaxValue
  BY DEF Value
<1> QED
  <2>1. PICK p : p = Plus(u, v)
    OBVIOUS
  <2>2. PICK d : d = Minus(u, v)
    OBVIOUS
  <2>3. p = IF u + v <= MaxValue THEN u + v ELSE u + v - MaxValue - 1
    BY <2>1, PlusIs
  <2>4. d = IF v <= u THEN u - v ELSE u - v + MaxValue + 1
    BY <2>2, MinusIs
  <2> QED
    BY <1>1, <2>1, <2>2, <2>3, <2>4 DEF Value

\* What SetAbsAlarm() has to compute, before 64 bits cut it off
NextIs(cur, tim, m) == cur - (cur % m) + tim + (IF cur % m >= tim THEN m ELSE 0)

\* NextAt() is this time: the first after cur at which the OSEK counter reads tim.
LEMMA NextAtIs ==
  ASSUME NEW cur \in Nat, NEW m \in Nat \ {0}, NEW tim \in 0 .. m - 1
  PROVE  /\ NextAt(cur, tim, m) = NextIs(cur, tim, m)
         /\ NextAt(cur, tim, m) \in cur + 1 .. cur + m
<1>1. cur % m \in 0 .. m - 1 /\ cur = m * (cur \div m) + (cur % m) /\ cur \div m \in Int
  OBVIOUS
<1>2. PICK q \in Int, r \in 0 .. m - 1 : r = cur % m /\ cur = m * q + r
  BY <1>1
<1>3. PICK n \in Int : n = NextIs(cur, tim, m) /\ n \in cur + 1 .. cur + m
  BY <1>2 DEF NextIs
<1>4. n % m = tim
  <2>1. m * q \in Int /\ m * (q + 1) = m * q + m /\ q + 1 \in Int
    BY SMT
  <2>2. CASE r >= tim
    <3>1. Splits(n, m, q + 1, tim)
      BY <1>2, <1>3, <2>1, <2>2 DEF NextIs, Splits
    <3> QED
      BY <3>1, Divides
  <2>3. CASE r < tim
    <3>1. Splits(n, m, q, tim)
      BY <1>2, <1>3, <2>1, <2>3 DEF NextIs, Splits
    <3> QED
      BY <3>1, Divides
  <2> QED
    BY <2>2, <2>3
<1>5. ASSUME NEW t \in cur + 1 .. cur + m, t % m = tim PROVE t = n
  <2>1. PICK p \in Int : t = m * p + tim
    <3>1. t \in Int /\ t = m * (t \div m) + (t % m) /\ t \div m \in Int
      OBVIOUS
    <3> QED
      BY <1>5, <3>1
  <2>2. PICK s \in Int : n = m * s + tim
    <3>1. n \in Int /\ n = m * (n \div m) + (n % m) /\ n \div m \in Int
      OBVIOUS
    <3> QED
      BY <1>4, <3>1
  <2>3. m * p \in Int /\ m * s \in Int /\ t - n = m * p - m * s /\ -m < t - n /\ t - n < m
    BY <1>3, <2>1, <2>2
  <2>4. CASE p > s
    <3>1. PICK e \in Nat : p = s + 1 + e
      BY <2>4
    <3>2. m * p = m * s + m + m * e /\ m * e \in Nat
      BY <3>1, SMT
    <3> QED
      BY <2>3, <3>2
  <2>5. CASE p < s
    <3>1. PICK e \in Nat : s = p + 1 + e
      BY <2>5
    <3>2. m * s = m * p + m + m * e /\ m * e \in Nat
      BY <3>1, SMT
    <3> QED
      BY <2>3, <3>2
  <2> QED
    BY <2>1, <2>2, <2>4, <2>5
<1>6. NextAt(cur, tim, m) = n
  BY <1>3, <1>4, <1>5 DEF NextAt
<1> QED
  BY <1>3, <1>6

\* The value that SetAbsAlarm() computes is that time when 64 bits hold it, and otherwise
\* below the counter's, which refuses it; all this for counters of less than 64 bits.
LEMMA AbsValIs ==
  ASSUME NEW cur \in Value, NEW max \in 1 .. MaxValue - 1, NEW tim \in 0 .. max,
         NEW m, m = max + 1, NEW v, v = AbsVal(cur, cur % m, tim, m),
         NEW n, n = NextAt(cur, tim, m)
  PROVE  /\ n \in cur + 1 .. cur + m /\ cur \in Nat /\ v \in Value
         /\ n <= MaxValue => v = n
         /\ n > MaxValue => v < cur
<1>1. m \in Nat \ {0} /\ m \in Value /\ cur \in Nat /\ tim \in 0 .. m - 1 /\ tim \in Value
  BY DEF Value
<1>2. cur % m \in 0 .. m - 1 /\ cur = m * (cur \div m) + (cur % m) /\ cur \div m \in Int
  BY <1>1
<1>3. PICK r \in 0 .. m - 1 : r = cur % m
  BY <1>2
<1>4. r <= cur
  <2>1. PICK q \in Int : cur = m * q + r
    BY <1>2, <1>3
  <2>2. q >= 0
    <3>1. CASE q < 0
      <4>1. PICK e \in Nat : q = -1 - e
        BY <3>1
      <4>2. m * q = -m - m * e /\ m * e \in Nat
        BY <1>1, <4>1, SMT
      <4> QED
        BY <1>1, <2>1, <4>2
    <3> QED
      BY <3>1
  <2>3. m * q \in Nat
    BY <1>1, <2>2, SMT
  <2> QED
    BY <1>1, <2>1, <2>3
<1>5. r \in Value /\ r \in Nat
  BY <1>1, <1>4 DEF Value
<1>6. n = (cur - r) + tim + (IF r >= tim THEN m ELSE 0) /\ n \in cur + 1 .. cur + m
  BY <1>1, <1>3, NextAtIs DEF NextIs
<1>7. PICK s \in Value : s = Plus(cur, tim)
  BY <1>1, SumInValue
<1>8. PICK a \in Value : a = Minus(s, r)
  BY <1>5, SumInValue
<1>9. s = IF cur + tim <= MaxValue THEN cur + tim ELSE cur + tim - MaxValue - 1
  BY <1>1, <1>7, PlusIs
<1>10. a = IF r <= s THEN s - r ELSE s - r + MaxValue + 1
  BY <1>5, <1>8, MinusIs
<1>11. v = IF r >= tim THEN Plus(a, m) ELSE a
  BY <1>3, <1>7, <1>8 DEF AbsVal
<1>12. Plus(a, m) = IF a + m <= MaxValue THEN a + m ELSE a + m - MaxValue - 1
  BY <1>1, PlusIs
<1>13. Plus(a, m) \in Value
  BY <1>1, SumInValue
<1>14. s \in Nat /\ a \in Nat /\ s <= MaxValue /\ a <= MaxValue /\ cur <= MaxValue /\ tim \in Nat
  BY <1>1 DEF Value
<1>15. PICK M \in Nat : M = MaxValue
  OBVIOUS
<1>16. PICK w : w = Plus(a, m)
  OBVIOUS
<1>17. /\ w \in Value /\ w = IF a + m <= M THEN a + m ELSE a + m - M - 1
       /\ v = IF r >= tim THEN w ELSE a
  BY <1>11, <1>12, <1>13, <1>15, <1>16
<1>18. /\ n <= M => v = n
       /\ n > M => v < cur
  <2>1. /\ s = IF cur + tim <= M THEN cur + tim ELSE cur + tim - M - 1
        /\ a = IF r <= s THEN s - r ELSE s - r + M + 1
        /\ cur <= M /\ m <= M
    BY <1>1, <1>9, <1>10, <1>14, <1>15 DEF Value
  <2>2. a = IF r >= tim \/ (cur - r) + tim <= M THEN (cur - r) + tim
            ELSE (cur - r) + tim - M - 1
    BY <1>1, <1>4, <1>5, <1>14, <1>15, <2>1
  <2> QED
    BY <1>1, <1>4, <1>5, <1>6, <1>14, <1>15, <1>17, <2>1, <2>2
<1> QED
  BY <1>1, <1>6, <1>8, <1>15, <1>17, <1>18

-----------------------------------------------------------------------------
(* Types                                                                   *)

Phases     == {"counters", "alarms", "run"}
Errors     == {"ok", "id", "limit", "value", "state", "calllevel", "reported"}
AlarmKinds == {"task", "event", "acb", "counter"}
CounterSet == [max : Maxima, min : Minima, counter : Counter]
OsekSet    == [osekcounter : Nat, kind : AlarmKinds, obj : Int, cycle : Value, alarm : Nat]
AlarmSet   == [expirytime : Value, counter : Counter \union {None}, data : Nat \union {None}]
CallSet    == [c : Counter, a : Nat \union {None}, may : BOOLEAN]

TypeOK ==
  /\ phase \in Phases
  /\ osekcounter \in Seq(CounterSet)
  /\ osekalarm \in Seq(OsekSet)
  /\ alarm \in Seq(AlarmSet)
  /\ list \in [Counter -> Seq(Nat)]
  /\ value \in [Counter -> Value]
  /\ calls \in Seq(CallSet)
  /\ lasterror \in Errors /\ hook \in Nat
  /\ panic \in BOOLEAN
  /\ promise \in Seq(Value) /\ Len(promise) = Len(osekalarm)

\* A davroska alarm that leads to an OSEK alarm is that alarm's own.
LeadsBack ==
  \A a \in Ids(alarm) : At(alarm, a).data # None =>
    /\ At(alarm, a).data \in Ids(osekalarm)
    /\ At(osekalarm, At(alarm, a).data).alarm = a

\* What is on a list, or expires, is an alarm.
Known(l) == \A k \in 1 .. Len(l) : l[k] \in Ids(alarm)
AlarmsKnown ==
  /\ \A c \in Counter : Known(list[c])
  /\ \A k \in 1 .. Len(calls) : calls[k].a = None \/ calls[k].a \in Ids(alarm)

\* Alarms are added in a phase of their own.
Phased == phase = "counters" => alarm = <<>> /\ osekalarm = <<>>

\* The ids of OSEK alarms are those of their davroska alarms, if the application does not
\* mix them.
SameIds ==
  /\ \A i \in Ids(osekalarm) : At(osekalarm, i).alarm = i
  /\ IF osekcounter = <<>> THEN osekalarm = <<>> ELSE Len(alarm) = Len(osekalarm)

-----------------------------------------------------------------------------
(* Tables                                                                  *)

\* OwnAlarm of the OSEK alarm oa, whose id is i
Own(oa, i) ==
  /\ oa.alarm \in Ids(alarm) /\ At(alarm, oa.alarm).data = i
  /\ oa.osekcounter \in Ids(osekcounter)
  /\ At(osekcounter, oa.osekcounter).counter \in Counter
  /\ oa.kind \in {"task", "event"} => oa.obj \in Task
  /\ oa.kind = "counter" => oa.obj \in Counter

LEMMA OwnIs == OwnAlarm <=> \A i \in Ids(osekalarm) : Own(At(osekalarm, i), i)
BY DEF OwnAlarm, Own, OsekOf

LEMMA OwnIsNext == OwnAlarm' <=> \A i \in Ids(osekalarm)' : Own(At(osekalarm, i), i)'
BY DEF OwnAlarm, Own, OsekOf

LEMMA IdIndex ==
  ASSUME NEW S, NEW s \in Seq(S)
  PROVE  /\ \A i : i \in Ids(s) <=> i \in Nat /\ i + 1 \in 1 .. Len(s)
         /\ \A i \in Ids(s) : At(s, i) \in S /\ At(s, i) = s[i + 1]
         /\ \A i : i \in Ids(s) => i \in Nat /\ i + 1 \in 1 .. Len(s) /\ i < Len(s)
         /\ Len(s) \in Nat
BY DEF Ids, At

\* Only times, counters and cycles of alarms are other than before.
SameAlarms ==
  /\ Len(alarm') = Len(alarm) /\ Len(osekalarm') = Len(osekalarm)
  /\ osekcounter' = osekcounter /\ phase' = phase
  /\ \A a \in Ids(alarm) : At(alarm, a)'.data = At(alarm, a).data
  /\ \A i \in Ids(osekalarm) :
       /\ At(osekalarm, i)'.alarm = At(osekalarm, i).alarm
       /\ At(osekalarm, i)'.osekcounter = At(osekalarm, i).osekcounter
       /\ At(osekalarm, i)'.kind = At(osekalarm, i).kind
       /\ At(osekalarm, i)'.obj = At(osekalarm, i).obj

\* Then every alarm leads where it led.
LEMMA SameAlarmsLead ==
  ASSUME TypeOK, TypeOK', SameAlarms, OwnAlarm, LeadsBack, Phased
  PROVE  OwnAlarm' /\ LeadsBack' /\ Phased'
<1>1. /\ osekcounter' = osekcounter /\ phase' = phase
      /\ osekcounter \in Seq(CounterSet)
      /\ osekalarm \in Seq(OsekSet) /\ osekalarm' \in Seq(OsekSet)
      /\ alarm \in Seq(AlarmSet) /\ alarm' \in Seq(AlarmSet)
  BY DEF TypeOK, SameAlarms
<1>2. Ids(alarm)' = Ids(alarm) /\ Ids(osekalarm)' = Ids(osekalarm)
      /\ Ids(osekcounter)' = Ids(osekcounter)
  BY DEF SameAlarms, Ids
<1>3. ASSUME NEW i \in Ids(osekalarm) PROVE Own(At(osekalarm, i), i)'
  <2>1. PICK oa, ob : oa = At(osekalarm, i) /\ ob = At(osekalarm, i)'
    OBVIOUS
  <2>2. /\ ob.alarm = oa.alarm /\ ob.osekcounter = oa.osekcounter
        /\ ob.kind = oa.kind /\ ob.obj = oa.obj
    BY <2>1 DEF SameAlarms
  <2>3. /\ oa.alarm \in Ids(alarm) /\ At(alarm, oa.alarm).data = i
        /\ oa.osekcounter \in Ids(osekcounter)
        /\ At(osekcounter, oa.osekcounter).counter \in Counter
        /\ oa.kind \in {"task", "event"} => oa.obj \in Task
        /\ oa.kind = "counter" => oa.obj \in Counter
    BY <2>1, OwnIs DEF Own
  <2>4. At(alarm, ob.alarm)'.data = i
    BY <2>2, <2>3 DEF SameAlarms
  <2>5. At(osekcounter, ob.osekcounter)' = At(osekcounter, oa.osekcounter)
    BY <1>1, <2>2 DEF At
  <2> QED
    BY <1>2, <2>1, <2>2, <2>3, <2>4, <2>5 DEF Own
<1>4. LeadsBack'
  <2> SUFFICES ASSUME NEW a \in Ids(alarm), At(alarm, a)'.data # None
               PROVE  /\ At(alarm, a)'.data \in Ids(osekalarm)'
                      /\ At(osekalarm, At(alarm, a).data)'.alarm = a
    BY <1>2 DEF LeadsBack
  <2>1. PICK d : d = At(alarm, a).data /\ d = At(alarm, a)'.data
    BY DEF SameAlarms
  <2>2. d \in Ids(osekalarm) /\ At(osekalarm, d).alarm = a
    BY <2>1 DEF LeadsBack
  <2>3. At(osekalarm, d)'.alarm = a
    BY <2>2 DEF SameAlarms
  <2> QED
    BY <1>2, <2>1, <2>2, <2>3
<1>5. Phased'
  <2>1. /\ alarm = <<>> => alarm' = <<>>
        /\ osekalarm = <<>> => osekalarm' = <<>>
    BY <1>1 DEF SameAlarms
  <2> QED
    BY <1>1, <2>1 DEF Phased
<1> QED
  BY <1>2, <1>3, <1>4, <1>5, OwnIsNext

LEMMA SameAlarmsIds ==
  ASSUME TypeOK, TypeOK', SameAlarms, SameIds
  PROVE  SameIds'
<1>1. /\ osekcounter' = osekcounter
      /\ osekalarm \in Seq(OsekSet) /\ osekalarm' \in Seq(OsekSet)
      /\ Len(alarm') = Len(alarm) /\ Len(osekalarm') = Len(osekalarm)
  BY DEF TypeOK, SameAlarms
<1>2. \A i \in Ids(osekalarm)' : At(osekalarm, i)'.alarm = i
  BY <1>1 DEF SameAlarms, SameIds, Ids
<1>3. osekalarm = <<>> => osekalarm' = <<>>
  BY <1>1
<1> QED
  BY <1>1, <1>2, <1>3 DEF SameIds

\* dv_stopalarm() and dv_setalarm() change one alarm's time and counter.
TimeSet(s, u, a, v, c) == u = [s EXCEPT ![a + 1].expirytime = v, ![a + 1].counter = c]

LEMMA TimeIsSet ==
  ASSUME NEW s \in Seq(AlarmSet), NEW a \in Ids(s), NEW v \in Value,
         NEW c \in Counter \union {None}, NEW u, TimeSet(s, u, a, v, c)
  PROVE  /\ u \in Seq(AlarmSet) /\ Len(u) = Len(s)
         /\ \A b \in Ids(s) : At(u, b).data = At(s, b).data
         /\ At(u, a).expirytime = v
         /\ \A b \in Ids(s) : b # a => At(u, b) = At(s, b)
<1>1. a + 1 \in 1 .. Len(s) /\ a \in Nat /\ Len(s) \in Nat
  BY IdIndex
<1>2. s[a + 1] \in AlarmSet
  BY <1>1
<1>3. PICK r : r = [s[a + 1] EXCEPT !.expirytime = v, !.counter = c]
  OBVIOUS
<1>4. r \in AlarmSet /\ r.expirytime = v /\ r.data = s[a + 1].data
  BY <1>2, <1>3 DEF AlarmSet
<1>5. u = [s EXCEPT ![a + 1] = r]
  BY <1>1, <1>3 DEF TimeSet
<1>6. /\ u \in Seq(AlarmSet) /\ Len(u) = Len(s) /\ u[a + 1] = r
      /\ \A k \in 1 .. Len(s) : k # a + 1 => u[k] = s[k]
  BY <1>1, <1>4, <1>5
<1>7. \A b \in Ids(s) : b + 1 \in 1 .. Len(s) /\ b \in Nat
  BY IdIndex
<1> QED
  BY <1>1, <1>4, <1>6, <1>7 DEF At

-----------------------------------------------------------------------------
(* Lists                                                                   *)

LEMMA MinOf ==
  ASSUME NEW T \in SUBSET Nat, T # {}
  PROVE  Min(T) \in T
<1>1. PICK d \in T : \A c \in T : ~(<<c, d>> \in OpToRel(<, Nat))
  BY NatLessThanWellFounded, WFMin
<1>2. \A c \in T : c \in Nat /\ d \in Nat /\ ~(c < d)
  BY <1>1 DEF OpToRel
<1>3. \A c \in T : d <= c
  BY <1>2
<1> QED
  BY <1>3 DEF Min

\* What is on u was on l, or is a.
From(u, l, a) == \A k \in 1 .. Len(u) : u[k] = a \/ \E j \in 1 .. Len(l) : u[k] = l[j]

LEMMA FromSlice ==
  ASSUME NEW l \in Seq(Nat), NEW a, NEW m \in 1 .. Len(l) + 1, NEW n \in 0 .. Len(l), m <= n + 1,
         NEW u, u = SubSeq(l, m, n)
  PROVE  u \in Seq(Nat) /\ From(u, l, a)
<1>1. Len(u) = n - m + 1
  OBVIOUS
<1>2. \A i \in 1 .. n - m + 1 : u[i] = l[m + i - 1] /\ m + i - 1 \in 1 .. Len(l)
  OBVIOUS
<1>3. \A i \in m .. n : l[i] \in Nat
  OBVIOUS
<1>4. SubSeq(l, m, n) \in Seq(Nat)
  BY <1>3, SubSeqProperties
<1> QED
  BY <1>1, <1>2, <1>4 DEF From

LEMMA FromBoth ==
  ASSUME NEW l \in Seq(Nat), NEW a, NEW s \in Seq(Nat), NEW t \in Seq(Nat),
         From(s, l, a), From(t, l, a), NEW u, u = s \o t
  PROVE  u \in Seq(Nat) /\ From(u, l, a)
<1>1. u \in Seq(Nat) /\ Len(u) = Len(s) + Len(t) /\ Len(s) \in Nat /\ Len(t) \in Nat
  OBVIOUS
<1>2. \A i \in 1 .. Len(s) : u[i] = s[i]
  OBVIOUS
<1>3. \A i \in 1 .. Len(t) : u[Len(s) + i] = t[i]
  OBVIOUS
<1>4. ASSUME NEW k \in 1 .. Len(u), k > Len(s)
      PROVE  \E i \in 1 .. Len(t) : k = Len(s) + i
  <2>1. k - Len(s) \in 1 .. Len(t) /\ k = Len(s) + (k - Len(s))
    BY <1>1, <1>4
  <2> QED
    BY <2>1
<1>5. ASSUME NEW k \in 1 .. Len(u)
      PROVE  u[k] = a \/ \E j \in 1 .. Len(l) : u[k] = l[j]
  <2>1. CASE k <= Len(s)
    <3>1. k \in 1 .. Len(s) /\ u[k] = s[k]
      BY <1>1, <1>2, <2>1
    <3> QED
      BY <3>1 DEF From
  <2>2. CASE k > Len(s)
    <3>1. PICK i \in 1 .. Len(t) : k = Len(s) + i
      BY <1>4, <2>2
    <3>2. u[k] = t[i]
      BY <1>3, <3>1
    <3> QED
      BY <3>2 DEF From
  <2> QED
    BY <1>1, <2>1, <2>2
<1> QED
  BY <1>1, <1>5 DEF From

LEMMA InsertFrom ==
  ASSUME NEW l \in Seq(Nat), NEW a \in Nat, NEW v
  PROVE  Insert(l, a, v) \in Seq(Nat) /\ From(Insert(l, a, v), l, a)
<1>1. PICK T : T = {j \in 1 .. Len(l) : At(alarm, l[j]).expirytime > v}
  OBVIOUS
<1>2. PICK k : k = IF T # {} THEN Min(T) ELSE 0
  OBVIOUS
<1>3. k \in 0 .. Len(l)
  <2>1. T \subseteq 1 .. Len(l) /\ T \in SUBSET Nat /\ Len(l) \in Nat
    BY <1>1
  <2>2. CASE T # {}
    <3>1. Min(T) \in T
      BY <2>1, <2>2, MinOf
    <3>2. k \in T
      BY <1>2, <2>2, <3>1
    <3> QED
      BY <2>1, <3>2
  <2>3. CASE T = {}
    BY <1>2, <2>1, <2>3
  <2> QED
    BY <2>2, <2>3
<1>4. PICK p : p = IF k = 0 THEN Len(l) + 1 ELSE k
  OBVIOUS
<1>5. p \in 1 .. Len(l) + 1 /\ Len(l) \in Nat
  BY <1>3, <1>4
<1>6. Insert(l, a, v) = InsertAt(l, p, a)
  BY <1>1, <1>2, <1>4 DEF Insert, SelectInSeq
<1>7. PICK s, t, o, w, u : /\ s = SubSeq(l, 1, p - 1) /\ t = SubSeq(l, p, Len(l)) /\ o = <<a>>
                           /\ w = s \o o /\ u = w \o t
  OBVIOUS
<1>8. s \in Seq(Nat) /\ From(s, l, a)
  <2>1. 1 \in 1 .. Len(l) + 1 /\ p - 1 \in 0 .. Len(l) /\ 1 <= (p - 1) + 1
    BY <1>5
  <2> QED
    BY <1>7, <2>1, FromSlice
<1>9. t \in Seq(Nat) /\ From(t, l, a)
  <2>1. p <= Len(l) + 1 /\ Len(l) \in 0 .. Len(l)
    BY <1>5
  <2> QED
    BY <1>5, <1>7, <2>1, FromSlice
<1>10. o \in Seq(Nat) /\ From(o, l, a)
  BY <1>7 DEF From
<1>11. w \in Seq(Nat) /\ From(w, l, a)
  BY <1>7, <1>8, <1>10, FromBoth
<1>12. u \in Seq(Nat) /\ From(u, l, a)
  BY <1>7, <1>9, <1>11, FromBoth
<1>13. InsertAt(l, p, a) = u
  BY <1>7 DEF InsertAt
<1> QED
  BY <1>6, <1>12, <1>13

-----------------------------------------------------------------------------
(* The invariant                                                           *)

IInv == TypeOK /\ OwnAlarm /\ LeadsBack /\ AlarmsKnown /\ Phased

\* An error is reported.
LEMMA Reported ==
  ASSUME NEW e \in Errors, TypeOK, Report(e) \/ UNCHANGED errVars
  PROVE  lasterror' \in Errors /\ hook' \in Nat
BY DEF Report, errVars, TypeOK

\* Nothing happens to the alarms.
LEMMA AlarmsStill ==
  ASSUME TypeOK, UNCHANGED <<phase, osekcounter, osekalarm, alarm>>
  PROVE  SameAlarms
BY DEF SameAlarms

\* What is known is known still.
LEMMA KnownStill ==
  ASSUME TypeOK, Len(alarm') >= Len(alarm), Len(alarm') \in Nat, NEW l, Known(l)
  PROVE  Known(l)'
BY IdIndex DEF Known, TypeOK, Ids

LEMMA AlarmsKnownStill ==
  ASSUME TypeOK, AlarmsKnown, Len(alarm') >= Len(alarm), Len(alarm') \in Nat,
         UNCHANGED <<list, calls>>
  PROVE  AlarmsKnown'
<1>1. \A c \in Counter : Known(list[c])'
  BY KnownStill DEF AlarmsKnown, Known, Ids, TypeOK
<1> QED
  BY <1>1 DEF AlarmsKnown, Ids, TypeOK

-----------------------------------------------------------------------------
(* Each action keeps the invariant: configuration                          *)

\* Nothing happens to the tables and the lists.
LEMMA TablesStill ==
  ASSUME IInv, TypeOK', UNCHANGED <<phase, osekcounter, osekalarm, alarm, list, calls>>
  PROVE  IInv'
<1>1. SameAlarms
  BY AlarmsStill DEF IInv
<1>2. OwnAlarm' /\ LeadsBack' /\ Phased'
  BY <1>1, SameAlarmsLead DEF IInv
<1>3. AlarmsKnown'
  BY AlarmsKnownStill DEF IInv, TypeOK
<1> QED
  BY <1>2, <1>3 DEF IInv

LEMMA HookReturnsKeeps ==
  ASSUME IInv, HookReturns
  PROVE  IInv'
<1>1. TypeOK'
  BY DEF IInv, TypeOK, HookReturns, confVars, timeVars, Errors
<1> QED
  BY <1>1, TablesStill DEF HookReturns, confVars, timeVars

LEMMA NextPhaseKeeps ==
  ASSUME IInv, NextPhase
  PROVE  IInv'
<1>1. UNCHANGED <<osekcounter, osekalarm, alarm, list, promise, lasterror, hook, value, calls,
                  panic>>
  BY DEF NextPhase, timeVars, errVars
<1>2. TypeOK' /\ phase' # "counters"
  BY <1>1 DEF IInv, TypeOK, NextPhase, Phases
<1>3. OwnAlarm' /\ LeadsBack'
  BY <1>1 DEF IInv, OwnAlarm, LeadsBack, Ids, At, OsekOf
<1>4. AlarmsKnown'
  BY <1>1, AlarmsKnownStill DEF IInv, TypeOK
<1> QED
  BY <1>2, <1>3, <1>4 DEF IInv, Phased

LEMMA AddOsekCounterKeeps ==
  ASSUME IInv, NEW c \in Some(Counter), NEW max \in Maxima, NEW min \in Minima,
         AddOsekCounter(c, max, min)
  PROVE  IInv'
<1>1. UNCHANGED <<phase, osekalarm, alarm, list, promise, value, calls, panic>>
  BY DEF AddOsekCounter, timeVars
<1>2. PICK e \in Errors : /\ (c \notin Counter => e # "ok")
                          /\ IF e # "ok" THEN Report(e) /\ UNCHANGED osekcounter
                             ELSE /\ osekcounter' = Append(osekcounter,
                                                      [max |-> max, min |-> min, counter |-> c])
                                  /\ UNCHANGED errVars
  <2>1. PICK e : e = CASE phase # "counters" -> "calllevel"
                       [] Len(osekcounter) >= MaxOsekCounter -> "limit"
                       [] c \notin Counter -> "id"
                       [] OTHER -> "ok"
    OBVIOUS
  <2>2. e \in Errors /\ (c \notin Counter => e # "ok")
    BY <2>1 DEF Errors
  <2>3. IF e # "ok" THEN Report(e) /\ UNCHANGED osekcounter
        ELSE /\ osekcounter' = Append(osekcounter, [max |-> max, min |-> min, counter |-> c])
             /\ UNCHANGED errVars
    BY <2>1 DEF AddOsekCounter
  <2> QED
    BY <2>2, <2>3
<1>3. lasterror' \in Errors /\ hook' \in Nat
  BY <1>2, Reported DEF IInv
<1>4. CASE UNCHANGED osekcounter
  <2>1. TypeOK'
    BY <1>1, <1>3, <1>4 DEF IInv, TypeOK
  <2> QED
    BY <1>1, <1>4, <2>1, TablesStill
<1>5. CASE e = "ok"
  <2>1. PICK r \in CounterSet : osekcounter' = Append(osekcounter, r)
    BY <1>2, <1>5 DEF CounterSet
  <2>2. osekcounter \in Seq(CounterSet)
    BY DEF IInv, TypeOK
  <2>3. /\ osekcounter' \in Seq(CounterSet) /\ Len(osekcounter') = Len(osekcounter) + 1
        /\ \A i \in Ids(osekcounter) :
             i \in Ids(osekcounter)' /\ At(osekcounter, i)' = At(osekcounter, i)
    BY <2>1, <2>2 DEF Ids, At
  <2>4. TypeOK'
    BY <1>1, <1>3, <2>3 DEF IInv, TypeOK
  <2>5. ASSUME NEW i \in Ids(osekalarm) PROVE Own(At(osekalarm, i), i)'
    <3>1. Own(At(osekalarm, i), i)
      BY OwnIs DEF IInv
    <3> QED
      BY <1>1, <2>3, <3>1 DEF Own, At, Ids
  <2>6. OwnAlarm'
    BY <1>1, <2>5, OwnIsNext DEF Ids
  <2>7. LeadsBack' /\ Phased'
    BY <1>1 DEF IInv, LeadsBack, Phased, Ids, At
  <2>8. AlarmsKnown'
    BY <1>1, AlarmsKnownStill DEF IInv, TypeOK
  <2> QED
    BY <2>4, <2>6, <2>7, <2>8 DEF IInv
<1> QED
  BY <1>2, <1>4, <1>5

\* An alarm is added: what was in the table stays as it was.
LEMMA TableGrows ==
  ASSUME NEW S, NEW s \in Seq(S), NEW r \in S, NEW u, u = Append(s, r)
  PROVE  /\ u \in Seq(S) /\ Len(u) = Len(s) + 1 /\ Len(s) \in Nat
         /\ \A i \in Ids(s) : i \in Ids(u) /\ At(u, i) = At(s, i)
         /\ Len(s) \in Ids(u) /\ At(u, Len(s)) = r
         /\ \A i \in Ids(u) : i \in Ids(s) \/ i = Len(s)
BY DEF Ids, At

LEMMA AddPlainAlarmKeeps ==
  ASSUME IInv, AddPlainAlarm
  PROVE  IInv'
<1>1. UNCHANGED <<phase, osekcounter, osekalarm, list, promise, lasterror, hook, value, calls,
                  panic>>
  BY DEF AddPlainAlarm, confVars, errVars
<1>2. phase = "alarms" /\ alarm' = Append(alarm, NewAlarm(None))
  BY DEF AddPlainAlarm
<1>3. NewAlarm(None) \in AlarmSet /\ NewAlarm(None).data = None
  BY DEF NewAlarm, AlarmSet, Value, None
<1>4. /\ alarm' \in Seq(AlarmSet) /\ Len(alarm') = Len(alarm) + 1 /\ Len(alarm) \in Nat
      /\ \A i \in Ids(alarm) : i \in Ids(alarm)' /\ At(alarm, i)' = At(alarm, i)
      /\ At(alarm', Len(alarm)) = NewAlarm(None)
      /\ \A i \in Ids(alarm)' : i \in Ids(alarm) \/ i = Len(alarm)
  BY <1>2, <1>3, TableGrows DEF IInv, TypeOK, Ids, At
<1>5. TypeOK'
  BY <1>1, <1>4 DEF IInv, TypeOK
<1>6. ASSUME NEW i \in Ids(osekalarm) PROVE Own(At(osekalarm, i), i)'
  <2>1. Own(At(osekalarm, i), i)
    BY OwnIs DEF IInv
  <2>2. PICK a : a = At(osekalarm, i).alarm
    OBVIOUS
  <2>3. a \in Ids(alarm) /\ At(alarm, a).data = i
    BY <2>1, <2>2 DEF Own
  <2>4. a \in Ids(alarm)' /\ At(alarm, a)'.data = i
    BY <1>4, <2>3
  <2>5. At(osekalarm, i)' = At(osekalarm, i) /\ osekcounter' = osekcounter
    BY <1>1 DEF At
  <2> QED
    BY <2>1, <2>2, <2>4, <2>5 DEF Own, At, Ids
<1>7. OwnAlarm'
  BY <1>1, <1>6, OwnIsNext DEF Ids
<1>8. LeadsBack'
  <2> SUFFICES ASSUME NEW a \in Ids(alarm)', At(alarm, a)'.data # None
               PROVE  /\ At(alarm, a)'.data \in Ids(osekalarm)
                      /\ At(osekalarm, At(alarm, a)'.data).alarm = a
    BY <1>1 DEF LeadsBack, Ids, At
  <2>1. a \in Ids(alarm) /\ At(alarm, a)' = At(alarm, a)
    BY <1>3, <1>4 DEF At
  <2> QED
    BY <2>1 DEF IInv, LeadsBack
<1>9. AlarmsKnown'
  BY <1>1, <1>4, AlarmsKnownStill DEF IInv
<1>10. Phased'
  BY <1>1, <1>2 DEF Phased
<1> QED
  BY <1>5, <1>7, <1>8, <1>9, <1>10 DEF IInv

\* An OSEK alarm is added with its davroska alarm, or an error is reported.
AlarmAdded(c, kind, obj) ==
  \/ (\E e \in Errors : Report(e)) /\ UNCHANGED <<osekalarm, alarm, promise>>
  \/ /\ c \in Ids(osekcounter) /\ phase = "alarms"
     /\ alarm' = Append(alarm, NewAlarm(Len(osekalarm)))
     /\ osekalarm' = Append(osekalarm, [osekcounter |-> c, kind |-> kind, obj |-> obj,
                                        cycle |-> 0, alarm |-> Len(alarm)])
     /\ promise' = Append(promise, 0)
     /\ UNCHANGED errVars

LEMMA AddOsekAlarmSplits ==
  ASSUME NEW c, NEW kind, NEW obj, AddOsekAlarm(c, kind, obj)
  PROVE  AlarmAdded(c, kind, obj)
<1>1. PICK e : e = CASE c \notin Ids(osekcounter) -> "id"
                     [] Len(osekalarm) >= MaxOsekAlarm -> "limit"
                     [] AddAlarmError # "ok" -> "reported"
                     [] OTHER -> "ok"
  OBVIOUS
<1>2. e \in Errors /\ (e = "ok" => c \in Ids(osekcounter) /\ AddAlarmError = "ok")
  BY <1>1 DEF Errors
<1>3. AddAlarmError = "ok" => phase = "alarms"
  BY DEF AddAlarmError
<1>4. CASE e # "ok"
  <2>1. Report(e) /\ UNCHANGED <<osekalarm, alarm, promise>>
    BY <1>1, <1>4 DEF AddOsekAlarm
  <2> QED
    BY <1>2, <2>1 DEF AlarmAdded
<1>5. CASE e = "ok"
  BY <1>1, <1>2, <1>3, <1>5 DEF AddOsekAlarm, AlarmAdded
<1> QED
  BY <1>4, <1>5

LEMMA AddOsekAlarmKeeps ==
  ASSUME IInv, NEW c \in Nat, NEW kind \in AlarmKinds, NEW obj \in Int,
         kind \in {"task", "event"} => obj \in Task, kind = "counter" => obj \in Counter,
         ConfigRest,
         AlarmAdded(c, kind, obj)
  PROVE  IInv'
<1>1. UNCHANGED <<phase, osekcounter, list, value, calls, panic>>
  BY DEF ConfigRest, confVars
<1>2. CASE (\E e \in Errors : Report(e)) /\ UNCHANGED <<osekalarm, alarm, promise>>
  <2>1. lasterror' \in Errors /\ hook' \in Nat
    BY <1>2, Reported DEF IInv
  <2>2. TypeOK'
    BY <1>1, <1>2, <2>1 DEF IInv, TypeOK
  <2> QED
    BY <1>1, <1>2, <2>2, TablesStill
<1>3. CASE /\ c \in Ids(osekcounter) /\ phase = "alarms"
           /\ alarm' = Append(alarm, NewAlarm(Len(osekalarm)))
           /\ osekalarm' = Append(osekalarm, [osekcounter |-> c, kind |-> kind, obj |-> obj,
                                              cycle |-> 0, alarm |-> Len(alarm)])
           /\ promise' = Append(promise, 0)
           /\ UNCHANGED errVars
  <2>0. /\ alarm \in Seq(AlarmSet) /\ osekalarm \in Seq(OsekSet) /\ promise \in Seq(Value)
        /\ Len(promise) = Len(osekalarm) /\ Len(alarm) \in Nat /\ Len(osekalarm) \in Nat
        /\ osekcounter \in Seq(CounterSet)
    BY DEF IInv, TypeOK
  <2>1. PICK r, o : r = NewAlarm(Len(osekalarm))
             /\ o = [osekcounter |-> c, kind |-> kind, obj |-> obj, cycle |-> 0,
                     alarm |-> Len(alarm)]
    OBVIOUS
  <2>2. r \in AlarmSet /\ r.data = Len(osekalarm) /\ r.expirytime = 0
    BY <2>0, <2>1 DEF NewAlarm, AlarmSet, Value, None
  <2>3. /\ o \in OsekSet /\ o.alarm = Len(alarm) /\ o.osekcounter = c /\ o.kind = kind
        /\ o.obj = obj
    BY <2>0, <2>1 DEF OsekSet, Value
  <2>4. /\ alarm' \in Seq(AlarmSet) /\ Len(alarm') = Len(alarm) + 1
        /\ \A i \in Ids(alarm) : i \in Ids(alarm)' /\ At(alarm, i)' = At(alarm, i)
        /\ Len(alarm) \in Ids(alarm)' /\ At(alarm', Len(alarm)) = r
        /\ \A i \in Ids(alarm)' : i \in Ids(alarm) \/ i = Len(alarm)
    BY <1>3, <2>0, <2>1, <2>2, TableGrows DEF Ids, At
  <2>5. /\ osekalarm' \in Seq(OsekSet) /\ Len(osekalarm') = Len(osekalarm) + 1
        /\ \A i \in Ids(osekalarm) : i \in Ids(osekalarm)' /\ At(osekalarm, i)' = At(osekalarm, i)
        /\ Len(osekalarm) \in Ids(osekalarm)' /\ At(osekalarm', Len(osekalarm)) = o
        /\ \A i \in Ids(osekalarm)' : i \in Ids(osekalarm) \/ i = Len(osekalarm)
    BY <1>3, <2>0, <2>1, <2>3, TableGrows DEF Ids, At
  <2>6. promise' \in Seq(Value) /\ Len(promise') = Len(osekalarm')
    BY <1>3, <2>0, <2>5 DEF Value
  <2>7. TypeOK'
    BY <1>1, <1>3, <2>4, <2>5, <2>6 DEF IInv, TypeOK, errVars
  <2>8. ASSUME NEW i \in Ids(osekalarm)' PROVE Own(At(osekalarm, i), i)'
    <3>1. CASE i \in Ids(osekalarm)
      <4>1. PICK oa : oa = At(osekalarm, i) /\ oa = At(osekalarm, i)'
        BY <2>5, <3>1
      <4>2. /\ oa.alarm \in Ids(alarm) /\ At(alarm, oa.alarm).data = i
            /\ oa.osekcounter \in Ids(osekcounter)
            /\ At(osekcounter, oa.osekcounter).counter \in Counter
            /\ oa.kind \in {"task", "event"} => oa.obj \in Task
            /\ oa.kind = "counter" => oa.obj \in Counter
        BY <3>1, <4>1, OwnIs DEF IInv, Own
      <4>3. oa.alarm \in Ids(alarm)' /\ At(alarm', oa.alarm).data = i
        BY <2>4, <4>2 DEF At
      <4> QED
        BY <1>1, <4>1, <4>2, <4>3 DEF Own, At, Ids
    <3>2. CASE i = Len(osekalarm)
      <4>1. At(osekalarm, i)' = o
        BY <2>5, <3>2 DEF At
      <4>2. At(osekcounter, c).counter \in Counter
        <5>1. At(osekcounter, c) \in CounterSet
          BY <1>3, <2>0, IdIndex
        <5> QED
          BY <5>1 DEF CounterSet
      <4>3. o.alarm \in Ids(alarm)' /\ At(alarm', o.alarm).data = i
        BY <2>2, <2>3, <2>4, <3>2
      <4> QED
        BY <1>1, <1>3, <2>3, <4>1, <4>2, <4>3 DEF Own, At, Ids
    <3> QED
      BY <2>5, <3>1, <3>2
  <2>9. OwnAlarm'
    BY <2>8, OwnIsNext
  <2>10. LeadsBack'
    <3> SUFFICES ASSUME NEW a \in Ids(alarm)', At(alarm, a)'.data # None
                 PROVE  /\ At(alarm, a)'.data \in Ids(osekalarm)'
                        /\ At(osekalarm, At(alarm, a).data)'.alarm = a
      BY DEF LeadsBack
    <3>1. CASE a \in Ids(alarm)
      <4>1. PICK d : d = At(alarm, a).data /\ d = At(alarm, a)'.data
        BY <2>4, <3>1
      <4>2. d \in Ids(osekalarm) /\ At(osekalarm, d).alarm = a
        BY <3>1, <4>1 DEF IInv, LeadsBack
      <4>3. d \in Ids(osekalarm)' /\ At(osekalarm', d).alarm = a
        BY <2>5, <4>2 DEF At
      <4> QED
        BY <4>1, <4>3 DEF At
    <3>2. CASE a = Len(alarm)
      <4>1. At(alarm, a)'.data = Len(osekalarm)
        BY <2>2, <2>4, <3>2 DEF At
      <4> QED
        BY <2>3, <2>5, <3>2, <4>1 DEF At
    <3> QED
      BY <2>4, <3>1, <3>2
  <2>11. AlarmsKnown'
    BY <1>1, <2>0, <2>4, AlarmsKnownStill DEF IInv
  <2>12. Phased'
    BY <1>1, <1>3 DEF Phased
  <2> QED
    BY <2>7, <2>9, <2>10, <2>11, <2>12 DEF IInv
<1> QED
  BY <1>2, <1>3 DEF AlarmAdded

LEMMA AddAlarmTaskKeeps ==
  ASSUME IInv, NEW c \in Nat, NEW t \in Some(Task), NEW kind \in {"task", "event"},
         AddAlarmTask(c, t, kind)
  PROVE  IInv'
<1>1. ConfigRest
  BY DEF AddAlarmTask
<1>2. CASE t \notin Task
  <2>1. Report("id") /\ UNCHANGED <<osekalarm, alarm, promise>> /\ "id" \in Errors
    BY <1>2 DEF AddAlarmTask, Errors
  <2>2. 0 \in Int /\ "acb" \in AlarmKinds /\ "acb" \notin {"task", "event"} /\ "acb" # "counter"
    BY DEF AlarmKinds
  <2>3. AlarmAdded(c, "acb", 0)
    BY <2>1 DEF AlarmAdded
  <2> QED
    BY <1>1, <2>2, <2>3, AddOsekAlarmKeeps
<1>3. CASE t \in Task
  <2>1. AddOsekAlarm(c, kind, t)
    BY <1>3 DEF AddAlarmTask
  <2>2. t \in Int /\ kind \in AlarmKinds /\ kind # "counter"
    BY <1>3 DEF AlarmKinds
  <2>3. AlarmAdded(c, kind, t)
    BY <2>1, AddOsekAlarmSplits
  <2> QED
    BY <1>1, <1>3, <2>2, <2>3, AddOsekAlarmKeeps
<1> QED
  BY <1>2, <1>3

LEMMA AddAlarmAcbKeeps ==
  ASSUME IInv, NEW c \in Nat, AddAlarmAcb(c)
  PROVE  IInv'
<1>1. ConfigRest /\ AddOsekAlarm(c, "acb", None)
  BY DEF AddAlarmAcb
<1>2. None \in Int /\ "acb" \in AlarmKinds /\ "acb" \notin {"task", "event"} /\ "acb" # "counter"
  BY DEF AlarmKinds, None
<1>3. AlarmAdded(c, "acb", None)
  BY <1>1, AddOsekAlarmSplits
<1> QED
  BY <1>1, <1>2, <1>3, AddOsekAlarmKeeps

LEMMA AddAlarmCounterKeeps ==
  ASSUME IInv, NEW c \in Nat, NEW c2 \in Some(Counter), AddAlarmCounter(c, c2)
  PROVE  IInv'
<1>1. ConfigRest
  BY DEF AddAlarmCounter
<1>2. CASE c2 \notin Counter
  <2>1. Report("id") /\ UNCHANGED <<osekalarm, alarm, promise>> /\ "id" \in Errors
    BY <1>2 DEF AddAlarmCounter, Errors
  <2>2. 0 \in Int /\ "acb" \in AlarmKinds /\ "acb" \notin {"task", "event"} /\ "acb" # "counter"
    BY DEF AlarmKinds
  <2>3. AlarmAdded(c, "acb", 0)
    BY <2>1 DEF AlarmAdded
  <2> QED
    BY <1>1, <2>2, <2>3, AddOsekAlarmKeeps
<1>3. CASE c2 \in Counter
  <2>1. AddOsekAlarm(c, "counter", c2)
    BY <1>3 DEF AddAlarmCounter
  <2>2. c2 \in Int /\ "counter" \in AlarmKinds /\ "counter" \notin {"task", "event"}
    BY <1>3 DEF AlarmKinds
  <2>3. AlarmAdded(c, "counter", c2)
    BY <2>1, AddOsekAlarmSplits
  <2> QED
    BY <1>1, <1>3, <2>2, <2>3, AddOsekAlarmKeeps
<1> QED
  BY <1>2, <1>3

-----------------------------------------------------------------------------
(* Each action keeps the invariant: the system runs                        *)

\* Times and counters of davroska alarms may be others, their data are not.
AlarmsTimed ==
  /\ alarm' \in Seq(AlarmSet) /\ Len(alarm') = Len(alarm)
  /\ \A a \in Ids(alarm) : At(alarm, a)'.data = At(alarm, a).data

\* Cycles of OSEK alarms may be others, the rest is not.
OseksSame ==
  /\ osekalarm' \in Seq(OsekSet) /\ Len(osekalarm') = Len(osekalarm)
  /\ \A i \in Ids(osekalarm) :
       /\ At(osekalarm, i)'.alarm = At(osekalarm, i).alarm
       /\ At(osekalarm, i)'.osekcounter = At(osekalarm, i).osekcounter
       /\ At(osekalarm, i)'.kind = At(osekalarm, i).kind
       /\ At(osekalarm, i)'.obj = At(osekalarm, i).obj

ListsKnown == list \in [Counter -> Seq(Nat)] /\ \A c \in Counter : Known(list[c])

CallsKnown ==
  /\ calls \in Seq(CallSet)
  /\ \A k \in 1 .. Len(calls) : calls[k].a = None \/ calls[k].a \in Ids(alarm)

RestTyped ==
  /\ value \in [Counter -> Value]
  /\ lasterror \in Errors /\ hook \in Nat
  /\ panic \in BOOLEAN
  /\ promise \in Seq(Value) /\ Len(promise) = Len(osekalarm)

LEMMA MovesKeep ==
  ASSUME IInv, AlarmsTimed, OseksSame, ListsKnown', CallsKnown', RestTyped',
         UNCHANGED <<phase, osekcounter>>
  PROVE  IInv'
<1>1. TypeOK'
  BY DEF IInv, TypeOK, AlarmsTimed, OseksSame, ListsKnown, CallsKnown, RestTyped
<1>2. SameAlarms
  BY DEF SameAlarms, AlarmsTimed, OseksSame
<1>3. OwnAlarm' /\ LeadsBack' /\ Phased'
  BY <1>1, <1>2, SameAlarmsLead DEF IInv
<1>4. AlarmsKnown'
  BY DEF AlarmsKnown, ListsKnown, CallsKnown
<1> QED
  BY <1>1, <1>3, <1>4 DEF IInv

\* The parts that an action leaves alone
LEMMA StillMoved ==
  ASSUME IInv
  PROVE  /\ ListsKnown /\ CallsKnown /\ RestTyped
         /\ UNCHANGED alarm => AlarmsTimed
         /\ UNCHANGED osekalarm => OseksSame
         /\ AlarmsTimed /\ UNCHANGED list => ListsKnown'
         /\ AlarmsTimed /\ UNCHANGED calls => CallsKnown'
<1>1. ListsKnown /\ CallsKnown /\ RestTyped
  BY DEF IInv, TypeOK, AlarmsKnown, ListsKnown, CallsKnown, RestTyped
<1>2. UNCHANGED alarm => AlarmsTimed
  BY DEF IInv, TypeOK, AlarmsTimed, At
<1>3. UNCHANGED osekalarm => OseksSame
  BY DEF IInv, TypeOK, OseksSame, At
<1>4. ASSUME AlarmsTimed PROVE Ids(alarm)' = Ids(alarm)
  BY <1>4 DEF AlarmsTimed, Ids
<1>5. ASSUME AlarmsTimed, UNCHANGED list PROVE ListsKnown'
  BY <1>1, <1>4, <1>5 DEF ListsKnown, Known
<1>6. ASSUME AlarmsTimed, UNCHANGED calls PROVE CallsKnown'
  BY <1>1, <1>4, <1>6 DEF CallsKnown
<1> QED
  BY <1>1, <1>2, <1>3, <1>5, <1>6

LEMMA TimeSetTimed ==
  ASSUME IInv, NEW a \in Ids(alarm), NEW v \in Value, NEW c \in Counter \union {None},
         TimeSet(alarm, alarm', a, v, c)
  PROVE  AlarmsTimed
<1>1. alarm \in Seq(AlarmSet)
  BY DEF IInv, TypeOK
<1>2. PICK u : u = alarm'
  OBVIOUS
<1>3. TimeSet(alarm, u, a, v, c)
  BY <1>2
<1>4. /\ u \in Seq(AlarmSet) /\ Len(u) = Len(alarm)
      /\ \A b \in Ids(alarm) : At(u, b).data = At(alarm, b).data
  BY <1>1, <1>3, TimeIsSet
<1> QED
  BY <1>2, <1>4 DEF AlarmsTimed, At

\* dv_stopalarm(): the time is 0, the counter none.
Cleared(a) == alarm' = [alarm EXCEPT ![a + 1].expirytime = 0, ![a + 1].counter = None]

LEMMA ClearedTimed ==
  ASSUME IInv, NEW a \in Ids(alarm), Cleared(a)
  PROVE  AlarmsTimed
<1>0. 0 \in Value /\ None \in Counter \union {None}
  BY DEF Value
<1>1. PICK v \in Value, c \in Counter \union {None} : v = 0 /\ c = None
  BY <1>0
<1>2. TimeSet(alarm, alarm', a, v, c)
  BY <1>1 DEF TimeSet, Cleared
<1> QED
  BY <1>2, TimeSetTimed

LEMMA SetAlarmMoves ==
  ASSUME IInv, NEW a \in Ids(alarm), NEW c \in Counter, NEW v \in Value, SetAlarm(c, a, v)
  PROVE  AlarmsTimed /\ ListsKnown'
<1>1. alarm \in Seq(AlarmSet) /\ c \in Counter \union {None} /\ ListsKnown
  BY StillMoved DEF IInv, TypeOK
<1>2. PICK u : u = alarm'
  OBVIOUS
<1>3. TimeSet(alarm, u, a, v, c)
  BY <1>2 DEF TimeSet, SetAlarm
<1>4. /\ u \in Seq(AlarmSet) /\ Len(u) = Len(alarm)
      /\ \A b \in Ids(alarm) : At(u, b).data = At(alarm, b).data
  BY <1>1, <1>3, TimeIsSet
<1>5. AlarmsTimed
  BY <1>2, <1>4 DEF AlarmsTimed, At
<1>6. Ids(alarm)' = Ids(alarm)
  BY <1>5 DEF AlarmsTimed, Ids
<1>7. list[c] \in Seq(Nat) /\ a \in Nat /\ Known(list[c])
  BY <1>1 DEF ListsKnown, Ids
<1>8. PICK n : n = Insert(list[c], a, v)
  OBVIOUS
<1>9. n \in Seq(Nat) /\ From(n, list[c], a)
  BY <1>7, <1>8, InsertFrom
<1>10. \A k \in 1 .. Len(n) : n[k] \in Ids(alarm)
  BY <1>7, <1>9 DEF From, Known
<1>11. list' = [list EXCEPT ![c] = n]
  BY <1>8 DEF SetAlarm
<1>12. /\ list' \in [Counter -> Seq(Nat)] /\ list'[c] = n
       /\ \A d \in Counter : d # c => list'[d] = list[d]
  BY <1>1, <1>9, <1>11 DEF ListsKnown
<1>13. ASSUME NEW d \in Counter PROVE Known(list[d])'
  BY <1>1, <1>6, <1>10, <1>12 DEF ListsKnown, Known
<1> QED
  BY <1>5, <1>12, <1>13 DEF ListsKnown

\* The code that may call has made its call.
LEMMA CalledKnown ==
  ASSUME IInv, Called, AlarmsTimed
  PROVE  CallsKnown'
<1>1. CallsKnown /\ Ids(alarm)' = Ids(alarm)
  BY StillMoved DEF AlarmsTimed, Ids
<1>2. CASE calls = <<>>
  BY <1>1, <1>2 DEF Called, CallsKnown
<1>3. CASE calls # <<>>
  <2>1. calls \in Seq(CallSet) /\ Len(calls) \in 1 .. Len(calls)
    BY <1>1, <1>3 DEF CallsKnown
  <2>2. PICK r : r = [calls[Len(calls)] EXCEPT !.may = FALSE]
    OBVIOUS
  <2>3. calls[Len(calls)] \in CallSet
    BY <2>1
  <2>4. r \in CallSet /\ r.a = calls[Len(calls)].a
    BY <2>2, <2>3 DEF CallSet
  <2>5. calls' = [calls EXCEPT ![Len(calls)] = r]
    BY <1>3, <2>2 DEF Called
  <2>6. calls' \in Seq(CallSet) /\ Len(calls') = Len(calls)
        /\ \A k \in 1 .. Len(calls) : calls'[k].a = calls[k].a
    BY <2>1, <2>4, <2>5
  <2> QED
    BY <1>1, <2>6 DEF CallsKnown
<1> QED
  BY <1>2, <1>3

\* The largest of some numbers up to a bound
LEMMA MaxOf ==
  ASSUME NEW n \in Nat, NEW S \in SUBSET (0 .. n), S # {}
  PROVE  Max(S) \in S
<1>1. PICK T : T = {d \in Nat : d <= n /\ n - d \in S}
  OBVIOUS
<1>2. T \in SUBSET Nat /\ T # {}
  <2>1. PICK x \in S : x \in 0 .. n
    OBVIOUS
  <2>2. n - x \in T
    BY <1>1, <2>1
  <2> QED
    BY <1>1, <2>2
<1>3. Min(T) \in T
  BY <1>2, MinOf
<1>4. PICK d \in T : \A c \in T : d <= c
  <2>1. PICK d \in T : \A c \in T : ~(<<c, d>> \in OpToRel(<, Nat))
    BY <1>2, NatLessThanWellFounded, WFMin
  <2>2. \A c \in T : c \in Nat /\ d \in Nat /\ ~(c < d)
    BY <1>2, <2>1 DEF OpToRel
  <2> QED
    BY <2>2
<1>5. d \in Nat /\ d <= n /\ n - d \in S
  BY <1>1
<1>6. ASSUME NEW y \in S PROVE n - d >= y
  <2>1. y \in 0 .. n
    OBVIOUS
  <2>2. n - y \in Nat /\ n - y <= n /\ n - (n - y) = y
    BY <2>1
  <2>3. n - y \in T
    BY <1>1, <2>2
  <2> QED
    BY <1>4, <1>5, <2>1, <2>3
<1> QED
  BY <1>5, <1>6 DEF Max

LEMMA TimesAre == Times \subseteq Nat
<1>1. Maxima \union {0} \in SUBSET (0 .. MaxValue) /\ Maxima \union {0} # {}
  BY OsekAssumption
<1>2. PICK x : x = Max(Maxima \union {0})
  OBVIOUS
<1>3. x \in Maxima \union {0}
  BY <1>1, <1>2, MaxOf
<1>4. x \in Nat
  BY <1>1, <1>3
<1> QED
  BY <1>2, <1>4 DEF Times

\* What an OSEK alarm refers to
LEMMA Refers ==
  ASSUME IInv, NEW i \in Ids(osekalarm)
  PROVE  /\ i \in Nat /\ At(osekalarm, i) \in OsekSet
         /\ At(osekalarm, i).alarm \in Ids(alarm) /\ AlarmOf(i) \in AlarmSet
         /\ AlarmOf(i).data = i
         /\ OsekOf(i) \in CounterSet
         /\ CounterOf(i) \in Counter /\ value[CounterOf(i)] \in Value
         /\ OsekOf(i).max \in Maxima /\ OsekOf(i).max \in 1 .. MaxValue
         /\ OsekOf(i).min \in 1 .. MaxValue
<1>1. /\ osekalarm \in Seq(OsekSet) /\ alarm \in Seq(AlarmSet) /\ osekcounter \in Seq(CounterSet)
      /\ value \in [Counter -> Value]
  BY DEF IInv, TypeOK
<1>2. i \in Nat /\ At(osekalarm, i) \in OsekSet
  BY <1>1, IdIndex
<1>3. Own(At(osekalarm, i), i)
  BY OwnIs DEF IInv
<1>4. At(osekalarm, i).alarm \in Ids(alarm) /\ AlarmOf(i).data = i
  BY <1>3 DEF Own, AlarmOf
<1>5. AlarmOf(i) \in AlarmSet
  BY <1>1, <1>4, IdIndex DEF AlarmOf
<1>6. OsekOf(i) \in CounterSet
  BY <1>1, <1>3, IdIndex DEF OsekOf, Own
<1>7. OsekOf(i).max \in Maxima /\ OsekOf(i).min \in Minima /\ CounterOf(i) \in Counter
  BY <1>6 DEF CounterSet, CounterOf
<1> QED
  BY <1>1, <1>2, <1>4, <1>5, <1>6, <1>7, OsekAssumption

\* What dv_checkalarmparams() lets pass
LEMMA Checked ==
  ASSUME IInv, NEW i \in Nat, NEW tim \in Nat, NEW cyc \in Nat
  PROVE  /\ Check(i, tim, cyc) \in Errors
         /\ Check(i, tim, cyc) = "ok" =>
              /\ i \in Ids(osekalarm)
              /\ tim \in 0 .. OsekOf(i).max /\ tim \in Value /\ cyc \in Value
              /\ AlarmOf(i).expirytime = 0
<1>1. PICK e : e = Check(i, tim, cyc)
  OBVIOUS
<1>2. e \in Errors
  BY <1>1 DEF Check, Errors
<1>3. ASSUME e = "ok"
      PROVE  /\ i \in Ids(osekalarm) /\ ~(tim > OsekOf(i).max)
             /\ ~(cyc # 0 /\ cyc \notin OsekOf(i).min .. OsekOf(i).max)
             /\ AlarmOf(i).expirytime = 0
  <2>1. Check(i, tim, cyc) = "ok"
    BY <1>1, <1>3
  <2>2. i \in Ids(osekalarm)
    BY <2>1 DEF Check
  <2>3. ~(tim > OsekOf(i).max)
    BY <2>1, <2>2 DEF Check
  <2>4. ~(cyc # 0 /\ cyc \notin OsekOf(i).min .. OsekOf(i).max)
    BY <2>1, <2>2, <2>3 DEF Check
  <2>5. AlarmOf(i).expirytime = 0
    BY <2>1, <2>2, <2>3, <2>4 DEF Check
  <2> QED
    BY <2>2, <2>3, <2>4, <2>5
<1>4. ASSUME e = "ok"
      PROVE  tim \in 0 .. OsekOf(i).max /\ tim \in Value /\ cyc \in Value
  <2>1. OsekOf(i).max \in 1 .. MaxValue /\ OsekOf(i).min \in 1 .. MaxValue
    BY <1>3, <1>4, Refers
  <2> QED
    BY <1>3, <1>4, <2>1 DEF Value
<1> QED
  BY <1>1, <1>2, <1>3, <1>4

LEMMA SetOrRefuseMoves ==
  ASSUME IInv, NEW i \in Ids(osekalarm), NEW v \in Value, NEW cyc \in Value,
         SetOrRefuse(i, v, cyc)
  PROVE  /\ AlarmsTimed /\ OseksSame /\ ListsKnown'
         /\ lasterror' \in Errors /\ hook' \in Nat
<1>1. At(osekalarm, i).alarm \in Ids(alarm) /\ CounterOf(i) \in Counter /\ TypeOK
  BY Refers DEF IInv
<1>2. CASE v < value[CounterOf(i)]
  <2>1. Report("value") /\ UNCHANGED <<osekalarm, alarm, list>> /\ "value" \in Errors
    BY <1>2 DEF SetOrRefuse, Errors
  <2>2. lasterror' \in Errors /\ hook' \in Nat
    BY <1>1, <2>1, Reported
  <2> QED
    BY <2>1, <2>2, StillMoved
<1>3. CASE ~(v < value[CounterOf(i)])
  <2>1. /\ osekalarm' = [osekalarm EXCEPT ![i + 1].cycle = cyc]
        /\ SetAlarm(CounterOf(i), At(osekalarm, i).alarm, v)
        /\ UNCHANGED errVars
    BY <1>3 DEF SetOrRefuse
  <2>2. AlarmsTimed /\ ListsKnown'
    BY <1>1, <2>1, SetAlarmMoves
  <2>3. osekalarm \in Seq(OsekSet) /\ i + 1 \in 1 .. Len(osekalarm) /\ i \in Nat
    BY <1>1, IdIndex DEF TypeOK
  <2>4. PICK o : o = [osekalarm[i + 1] EXCEPT !.cycle = cyc]
    OBVIOUS
  <2>5. osekalarm[i + 1] \in OsekSet
    BY <2>3
  <2>6. /\ o \in OsekSet /\ o.alarm = osekalarm[i + 1].alarm
        /\ o.osekcounter = osekalarm[i + 1].osekcounter
        /\ o.kind = osekalarm[i + 1].kind /\ o.obj = osekalarm[i + 1].obj
    BY <2>4, <2>5 DEF OsekSet
  <2>7. osekalarm' = [osekalarm EXCEPT ![i + 1] = o]
    BY <2>1, <2>3, <2>4
  <2>8. /\ osekalarm' \in Seq(OsekSet) /\ Len(osekalarm') = Len(osekalarm)
        /\ osekalarm'[i + 1] = o
        /\ \A k \in 1 .. Len(osekalarm) : k # i + 1 => osekalarm'[k] = osekalarm[k]
    BY <2>3, <2>6, <2>7
  <2>9. OseksSame
    <3>1. \A j \in Ids(osekalarm) : j + 1 \in 1 .. Len(osekalarm)
      BY <2>3, IdIndex
    <3> QED
      BY <2>6, <2>8, <3>1 DEF OseksSame, At
  <2>10. lasterror' \in Errors /\ hook' \in Nat
    BY <1>1, <2>1 DEF errVars, TypeOK
  <2> QED
    BY <2>2, <2>9, <2>10
<1> QED
  BY <1>2, <1>3

LEMMA PromiseTyped ==
  ASSUME IInv, NEW i \in Ids(osekalarm), NEW t \in Nat, Promise(i, t), OseksSame
  PROVE  promise' \in Seq(Value) /\ Len(promise') = Len(osekalarm')
<1>1. promise \in Seq(Value) /\ Len(promise) = Len(osekalarm) /\ i + 1 \in 1 .. Len(promise)
  BY IdIndex DEF IInv, TypeOK
<1>2. PICK x : x = IF t <= MaxValue THEN t ELSE promise[i + 1]
  OBVIOUS
<1>3. promise[i + 1] \in Value
  BY <1>1
<1>4. x \in Value
  BY <1>2, <1>3 DEF Value
<1>5. promise' = [promise EXCEPT ![i + 1] = x]
  BY <1>1, <1>2 DEF Promise
<1> QED
  BY <1>1, <1>4, <1>5 DEF OseksSame

\* A call is refused: nothing is changed but the last error.
LEMMA RefusedKeeps ==
  ASSUME IInv, Called, NEW e \in Errors, Report(e), UNCHANGED <<timeVars, confVars, value, panic>>
  PROVE  IInv'
<1>1. lasterror' \in Errors /\ hook' \in Nat
  BY Reported DEF IInv
<1>2. AlarmsTimed /\ OseksSame /\ ListsKnown' /\ RestTyped
  BY StillMoved DEF timeVars
<1>3. RestTyped'
  BY <1>1, <1>2 DEF RestTyped, timeVars
<1> QED
  BY <1>2, <1>3, CalledKnown, MovesKeep DEF confVars

LEMMA SetRelAlarmKeeps ==
  ASSUME IInv, NEW i \in Nat, NEW tim \in Nat, NEW cyc \in Nat, SetRelAlarm(i, tim, cyc)
  PROVE  IInv'
<1>1. Called /\ UNCHANGED <<confVars, value, panic>>
  BY DEF SetRelAlarm
<1>2. PICK e : e = Check(i, tim, cyc)
  OBVIOUS
<1>3. e \in Errors
  BY <1>2, Checked
<1>4. CASE e # "ok"
  <2>1. Report(e) /\ UNCHANGED timeVars
    BY <1>2, <1>4 DEF SetRelAlarm
  <2> QED
    BY <1>1, <1>3, <2>1, RefusedKeeps
<1>5. CASE e = "ok"
  <2>1. i \in Ids(osekalarm) /\ tim \in Value /\ cyc \in Value
    BY <1>2, <1>5, Checked
  <2>2. PICK cur : cur = value[CounterOf(i)]
    OBVIOUS
  <2>3. cur \in Value /\ cur \in Nat /\ Plus(cur, tim) \in Value
    <3>1. cur \in Value
      BY <2>1, <2>2, Refers
    <3>2. cur \in Nat
      BY <3>1 DEF Value
    <3> QED
      BY <2>1, <3>1, <3>2, SumInValue
  <2>4. SetOrRefuse(i, Plus(cur, tim), cyc) /\ Promise(i, cur + tim)
    BY <1>2, <1>5, <2>2 DEF SetRelAlarm
  <2>5. PICK v : v = Plus(cur, tim)
    OBVIOUS
  <2>6. /\ AlarmsTimed /\ OseksSame /\ ListsKnown'
        /\ lasterror' \in Errors /\ hook' \in Nat
    BY <2>1, <2>3, <2>4, <2>5, SetOrRefuseMoves
  <2>7. cur + tim \in Nat
    BY <2>3
  <2>8. promise' \in Seq(Value) /\ Len(promise') = Len(osekalarm')
    BY <2>1, <2>4, <2>6, <2>7, PromiseTyped
  <2>9. RestTyped'
    BY <1>1, <2>6, <2>8 DEF RestTyped, IInv, TypeOK
  <2> QED
    BY <1>1, <2>6, <2>9, CalledKnown, MovesKeep DEF confVars
<1> QED
  BY <1>4, <1>5

\* The value that SetAbsAlarm() computes has its width, whatever the remainder by 0 is.
LEMMA AbsValTyped ==
  ASSUME NEW cur \in Value, NEW max \in 1 .. MaxValue, NEW tim \in 0 .. max,
         NEW m, m = Plus(max, 1), NEW r \in Remainder(cur, m), r # None
  PROVE  AbsVal(cur, r, tim, m) \in Value
<1>1. tim \in Value /\ max \in Value /\ 1 \in Value
  BY DEF Value
<1>2. m \in Value
  BY <1>1, SumInValue
<1>3. r \in Value
  <2>1. CASE m = 0
    BY <2>1 DEF Remainder
  <2>2. CASE m # 0
    <3>1. cur \in Nat /\ m \in Nat \ {0} /\ m <= MaxValue /\ r = cur % m
      BY <1>2, <2>2 DEF Remainder, Value
    <3>2. cur % m \in 0 .. m - 1
      BY <3>1
    <3> QED
      BY <3>1, <3>2 DEF Value
  <2> QED
    BY <2>1, <2>2
<1>4. PICK s \in Value : s = Plus(cur, tim)
  BY <1>1, SumInValue
<1>5. PICK a \in Value : a = Minus(s, r)
  BY <1>3, SumInValue
<1>6. Plus(a, m) \in Value
  BY <1>2, SumInValue
<1> QED
  BY <1>4, <1>5, <1>6 DEF AbsVal

LEMMA SetAbsAlarmKeeps ==
  ASSUME IInv, NEW i \in Nat, NEW tim \in Nat, NEW cyc \in Nat, SetAbsAlarm(i, tim, cyc)
  PROVE  IInv'
<1>1. Called /\ UNCHANGED <<confVars, value>>
  BY DEF SetAbsAlarm
<1>2. PICK e : e = Check(i, tim, cyc)
  OBVIOUS
<1>3. e \in Errors
  BY <1>2, Checked
<1>4. CASE e # "ok"
  <2>1. Report(e) /\ UNCHANGED <<timeVars, panic>>
    BY <1>2, <1>4 DEF SetAbsAlarm
  <2> QED
    BY <1>1, <1>3, <2>1, RefusedKeeps
<1>5. CASE e = "ok"
  <2>1. i \in Ids(osekalarm) /\ tim \in 0 .. OsekOf(i).max /\ cyc \in Value
    BY <1>2, <1>5, Checked
  <2>2. PICK cur, max, m : cur = value[CounterOf(i)] /\ max = OsekOf(i).max /\ m = Plus(max, 1)
    OBVIOUS
  <2>3. cur \in Value /\ cur \in Nat /\ max \in 1 .. MaxValue /\ tim \in 0 .. max
    BY <2>1, <2>2, Refers DEF Value
  <2>4. PICK r \in Remainder(cur, m) :
          /\ panic' = (r = None)
          /\ IF panic' THEN UNCHANGED <<osekalarm, alarm, list, errVars>>
             ELSE SetOrRefuse(i, AbsVal(cur, r, tim, m), cyc)
          /\ Promise(i, NextAt(cur, tim, max + 1))
    BY <1>2, <1>5, <2>2 DEF SetAbsAlarm
  <2>5. NextAt(cur, tim, max + 1) \in Nat
    <3>1. PICK n \in Nat \ {0} : n = max + 1 /\ tim \in 0 .. n - 1
      BY <2>3
    <3>2. NextAt(cur, tim, n) \in cur + 1 .. cur + n
      BY <2>3, <3>1, NextAtIs
    <3> QED
      BY <2>3, <3>1, <3>2
  <2>6. /\ AlarmsTimed /\ OseksSame /\ ListsKnown'
        /\ lasterror' \in Errors /\ hook' \in Nat
    <3>1. CASE r = None
      <4>1. UNCHANGED <<osekalarm, alarm, list, lasterror, hook>>
        BY <2>4, <3>1 DEF errVars
      <4> QED
        BY <4>1, StillMoved DEF IInv, TypeOK
    <3>2. CASE r # None
      <4>1. PICK v : v = AbsVal(cur, r, tim, m)
        OBVIOUS
      <4>2. v \in Value
        BY <2>2, <2>3, <3>2, <4>1, AbsValTyped
      <4>3. SetOrRefuse(i, v, cyc)
        BY <2>4, <3>2, <4>1
      <4> QED
        BY <2>1, <4>2, <4>3, SetOrRefuseMoves
    <3> QED
      BY <3>1, <3>2
  <2>7. promise' \in Seq(Value) /\ Len(promise') = Len(osekalarm')
    BY <2>1, <2>4, <2>5, <2>6, PromiseTyped
  <2>8. panic' \in BOOLEAN
    BY <2>4
  <2>9. RestTyped'
    BY <1>1, <2>6, <2>7, <2>8 DEF RestTyped, IInv, TypeOK
  <2> QED
    BY <1>1, <2>6, <2>9, CalledKnown, MovesKeep DEF confVars
<1> QED
  BY <1>4, <1>5

LEMMA RemoveFrom ==
  ASSUME NEW l \in Seq(Nat), NEW a \in Nat
  PROVE  RemoveFirst(l, a) \in Seq(Nat) /\ From(RemoveFirst(l, a), l, a)
<1>1. CASE ~ \E i \in 1 .. Len(l) : l[i] = a
  BY <1>1 DEF RemoveFirst, From
<1>2. CASE \E i \in 1 .. Len(l) : l[i] = a
  <2>1. PICK T : T = {j \in 1 .. Len(l) : l[j] = a}
    OBVIOUS
  <2>2. T \in SUBSET Nat /\ T # {} /\ T \subseteq 1 .. Len(l) /\ Len(l) \in Nat
    BY <1>2, <2>1
  <2>3. PICK k : k = Min(T)
    OBVIOUS
  <2>4. k \in 1 .. Len(l)
    BY <2>2, <2>3, MinOf
  <2>5. RemoveFirst(l, a) = RemoveAt(l, k)
    BY <1>2, <2>1, <2>2, <2>3 DEF RemoveFirst, SelectInSeq
  <2>6. PICK s, t, u : s = SubSeq(l, 1, k - 1) /\ t = SubSeq(l, k + 1, Len(l)) /\ u = s \o t
    OBVIOUS
  <2>7. s \in Seq(Nat) /\ From(s, l, a)
    <3>1. 1 \in 1 .. Len(l) + 1 /\ k - 1 \in 0 .. Len(l) /\ 1 <= (k - 1) + 1
      BY <2>2, <2>4
    <3> QED
      BY <2>6, <3>1, FromSlice
  <2>8. t \in Seq(Nat) /\ From(t, l, a)
    <3>1. k + 1 \in 1 .. Len(l) + 1 /\ k + 1 <= Len(l) + 1 /\ Len(l) \in 0 .. Len(l)
      BY <2>2, <2>4
    <3> QED
      BY <2>6, <3>1, FromSlice
  <2>9. u \in Seq(Nat) /\ From(u, l, a)
    BY <2>6, <2>7, <2>8, FromBoth
  <2>10. RemoveAt(l, k) = u
    BY <2>6 DEF RemoveAt
  <2> QED
    BY <2>5, <2>9, <2>10
<1> QED
  BY <1>1, <1>2

LEMMA CancelAlarmKeeps ==
  ASSUME IInv, NEW i \in Nat, CancelAlarm(i)
  PROVE  IInv'
<1>1. /\ Called /\ i \in Ids(alarm) /\ Cleared(i)
      /\ list' = [c \in Counter |-> RemoveFirst(list[c], i)]
      /\ promise' = IF i \in Ids(osekalarm) THEN [promise EXCEPT ![i + 1] = 0] ELSE promise
      /\ UNCHANGED <<phase, osekcounter, osekalarm, lasterror, hook, value, panic>>
  BY DEF CancelAlarm, Cleared, confVars, errVars
<1>2. AlarmsTimed
  BY <1>1, ClearedTimed
<1>3. OseksSame /\ RestTyped /\ ListsKnown /\ Ids(alarm)' = Ids(alarm)
  BY <1>1, <1>2, StillMoved DEF AlarmsTimed, Ids
<1>4. ASSUME NEW c \in Counter PROVE list'[c] \in Seq(Nat) /\ Known(list[c])'
  <2>1. PICK u : u = RemoveFirst(list[c], i)
    OBVIOUS
  <2>2. list[c] \in Seq(Nat) /\ Known(list[c])
    BY <1>3 DEF ListsKnown
  <2>3. u \in Seq(Nat) /\ From(u, list[c], i)
    BY <2>1, <2>2, RemoveFrom
  <2>4. \A k \in 1 .. Len(u) : u[k] \in Ids(alarm)
    BY <1>1, <2>2, <2>3 DEF From, Known
  <2>5. list'[c] = u
    BY <1>1, <2>1
  <2> QED
    BY <1>3, <2>3, <2>4, <2>5 DEF Known
<1>5. ListsKnown'
  BY <1>1, <1>4 DEF ListsKnown
<1>6. promise' \in Seq(Value) /\ Len(promise') = Len(osekalarm)
  <2>1. promise \in Seq(Value) /\ Len(promise) = Len(osekalarm) /\ 0 \in Value
    BY <1>3 DEF RestTyped, Value
  <2>2. CASE i \in Ids(osekalarm)
    <3>1. i + 1 \in 1 .. Len(promise)
      BY <2>1, <2>2 DEF Ids
    <3>2. promise' = [promise EXCEPT ![i + 1] = 0]
      BY <1>1, <2>2
    <3> QED
      BY <2>1, <3>1, <3>2
  <2>3. CASE i \notin Ids(osekalarm)
    BY <1>1, <2>1, <2>3
  <2> QED
    BY <2>2, <2>3
<1>7. RestTyped'
  BY <1>1, <1>3, <1>6 DEF RestTyped
<1> QED
  BY <1>1, <1>2, <1>3, <1>5, <1>7, CalledKnown, MovesKeep

LEMMA AdvancedTyped ==
  ASSUME IInv, NEW s \in Seq(CallSet), NEW c \in Counter, NEW n \in Nat, Advanced(s, c, n),
         \A k \in 1 .. Len(s) : s[k].a = None \/ s[k].a \in Ids(alarm),
         UNCHANGED alarm
  PROVE  value' \in [Counter -> Value] /\ panic' \in BOOLEAN /\ CallsKnown'
<1>1. value \in [Counter -> Value]
  BY DEF IInv, TypeOK
<1>2. PICK x, y : x = value[c] /\ y = Plus(x, n)
  OBVIOUS
<1>3. y \in Value
  <2>1. PICK M \in Nat \ {0} : M = MaxValue + 1
    OBVIOUS
  <2>2. x + n \in Int
    BY <1>1, <1>2 DEF Value
  <2>3. (x + n) % M \in 0 .. M - 1
    BY <2>2
  <2> QED
    BY <1>2, <2>1, <2>3 DEF Plus, Value
<1>4. value' = [value EXCEPT ![c] = y]
  BY <1>1, <1>2 DEF Advanced
<1>5. value' \in [Counter -> Value]
  BY <1>1, <1>3, <1>4
<1>6. panic' \in BOOLEAN
  BY DEF Advanced
<1>7. CallsKnown'
  <2>1. Loop(c) \in CallSet /\ Loop(c).a = None
    BY DEF Loop, CallSet
  <2>2. PICK r, u : r = Loop(c) /\ u = calls'
    OBVIOUS
  <2>3. u = Append(s, r)
    BY <2>2 DEF Advanced
  <2>4. u \in Seq(CallSet) /\ Len(u) = Len(s) + 1 /\ Len(s) \in Nat /\ u[Len(s) + 1] = r
        /\ \A k \in 1 .. Len(s) : u[k] = s[k]
    BY <2>1, <2>2, <2>3
  <2>5. \A k \in 1 .. Len(u) : u[k].a = None \/ u[k].a \in Ids(alarm)
    BY <2>1, <2>2, <2>4
  <2>6. Ids(alarm)' = Ids(alarm)
    BY DEF Ids
  <2> QED
    BY <2>2, <2>4, <2>5, <2>6 DEF CallsKnown
<1> QED
  BY <1>5, <1>6, <1>7

LEMMA AdvanceCounterKeeps ==
  ASSUME IInv, NEW c \in Counter, NEW n \in Nat, AdvanceCounter(c, n)
  PROVE  IInv'
<1>1. /\ Advanced(calls, c, n)
      /\ UNCHANGED <<phase, osekcounter, osekalarm, alarm, list, promise, lasterror, hook>>
  BY DEF AdvanceCounter, confVars, timeVars, errVars
<1>2. CallsKnown /\ RestTyped /\ AlarmsTimed /\ OseksSame /\ ListsKnown'
  BY <1>1, StillMoved
<1>3. value' \in [Counter -> Value] /\ panic' \in BOOLEAN /\ CallsKnown'
  BY <1>1, <1>2, AdvancedTyped DEF CallsKnown
<1>4. RestTyped'
  BY <1>1, <1>2, <1>3 DEF RestTyped
<1> QED
  BY <1>1, <1>2, <1>3, <1>4, MovesKeep

\* The call under way
LEMMA TopIs ==
  ASSUME IInv, calls # <<>>
  PROVE  /\ Top = calls[Len(calls)] /\ Top \in CallSet /\ Top.c \in Counter
         /\ Top.a = None \/ Top.a \in Ids(alarm)
         /\ Len(calls) \in 1 .. Len(calls) /\ calls \in Seq(CallSet)
<1>1. CallsKnown
  BY StillMoved
<1>2. Len(calls) \in 1 .. Len(calls) /\ calls \in Seq(CallSet)
  BY <1>1 DEF CallsKnown
<1>3. Top = calls[Len(calls)] /\ Top \in CallSet
  BY <1>2 DEF Top, Last
<1> QED
  BY <1>1, <1>2, <1>3 DEF CallsKnown, CallSet

\* The call under way is replaced.
LEMMA TopReplaced ==
  ASSUME IInv, calls # <<>>, NEW r \in CallSet, r.a = None \/ r.a \in Ids(alarm),
         NEW s, s = [calls EXCEPT ![Len(calls)] = r]
  PROVE  s \in Seq(CallSet) /\ \A k \in 1 .. Len(s) : s[k].a = None \/ s[k].a \in Ids(alarm)
<1>1. CallsKnown
  BY StillMoved
<1>2. Len(calls) \in 1 .. Len(calls) /\ calls \in Seq(CallSet)
  BY TopIs
<1>3. s \in Seq(CallSet) /\ Len(s) = Len(calls)
      /\ \A k \in 1 .. Len(calls) : s[k] = r \/ s[k] = calls[k]
  BY <1>2
<1> QED
  BY <1>1, <1>3 DEF CallsKnown

LEMMA ExpireKeeps ==
  ASSUME IInv, Expire
  PROVE  IInv'
<1>1. /\ calls # <<>> /\ Top.a = None
      /\ UNCHANGED <<phase, osekcounter, osekalarm, alarm, promise>>
  BY DEF Expire, confVars
<1>2. PICK c : c = Top.c
  OBVIOUS
<1>3. PICK a : a = Head(list[c])
  OBVIOUS
<1>4. PICK d : d = At(alarm, a).data
  OBVIOUS
<1>5. PICK kind : kind = IF d = None THEN "plain" ELSE At(osekalarm, d).kind
  OBVIOUS
<1>6. PICK r : r = [Top EXCEPT !.a = a, !.may = (kind = "acb")]
  OBVIOUS
<1>7. PICK s : s = [calls EXCEPT ![Len(calls)] = r]
  OBVIOUS
<1>8. /\ list[c] # <<>> /\ list' = [list EXCEPT ![c] = Tail(@)]
      /\ IF kind = "counter"
         THEN Advanced(s, At(osekalarm, d).obj, 1) /\ UNCHANGED errVars
         ELSE /\ calls' = s
              /\ UNCHANGED <<value, panic>>
              /\ UNCHANGED errVars \/ (kind = "task" /\ Report("limit"))
  <2>1. Top = calls[Len(calls)]
    BY <1>1, TopIs
  <2>2. s = [calls EXCEPT ![Len(calls)] = [@ EXCEPT !.a = a, !.may = (kind = "acb")]]
    BY <1>1, <1>6, <1>7, <2>1, TopIs
  <2> QED
    BY <1>2, <1>3, <1>4, <1>5, <2>2 DEF Expire
<1>9. c \in Counter /\ ListsKnown /\ AlarmsTimed /\ OseksSame /\ RestTyped
  BY <1>1, <1>2, TopIs, StillMoved
<1>10. list[c] \in Seq(Nat) /\ Known(list[c])
  BY <1>9 DEF ListsKnown
<1>11. PICK t : t = Tail(list[c])
  OBVIOUS
<1>12. /\ a = list[c][1] /\ 1 \in 1 .. Len(list[c]) /\ t \in Seq(Nat) /\ Len(t) = Len(list[c]) - 1
       /\ \A k \in 1 .. Len(t) : t[k] = list[c][k + 1]
  BY <1>3, <1>8, <1>10, <1>11
<1>13. a \in Ids(alarm) /\ \A k \in 1 .. Len(t) : t[k] \in Ids(alarm)
  BY <1>10, <1>12 DEF Known
<1>14. ListsKnown'
  <2>1. list' = [list EXCEPT ![c] = t]
    BY <1>8, <1>11
  <2>2. /\ list' \in [Counter -> Seq(Nat)] /\ list'[c] = t
        /\ \A e \in Counter : e # c => list'[e] = list[e]
    BY <1>9, <1>12, <2>1 DEF ListsKnown
  <2>3. Ids(alarm)' = Ids(alarm)
    BY <1>1 DEF Ids
  <2> QED
    BY <1>9, <1>13, <2>2, <2>3 DEF ListsKnown, Known
<1>15. /\ s \in Seq(CallSet)
       /\ \A k \in 1 .. Len(s) : s[k].a = None \/ s[k].a \in Ids(alarm)
  <2>1. Top \in CallSet /\ a \in Nat
    BY <1>1, <1>13, TopIs DEF Ids
  <2>2. r \in CallSet /\ r.a = a
    BY <1>6, <2>1 DEF CallSet
  <2> QED
    BY <1>1, <1>7, <1>13, <2>2, TopReplaced
<1>16. CASE kind = "counter"
  <2>1. d # None
    BY <1>5, <1>16
  <2>2. d \in Ids(osekalarm)
    BY <1>4, <1>13, <2>1 DEF IInv, LeadsBack
  <2>3. At(osekalarm, d).obj \in Counter
    <3>1. Own(At(osekalarm, d), d)
      BY <2>2, OwnIs DEF IInv
    <3> QED
      BY <1>5, <1>16, <2>1, <3>1 DEF Own
  <2>4. PICK o \in Counter : Advanced(s, o, 1)
    BY <1>8, <1>16, <2>3
  <2>5. value' \in [Counter -> Value] /\ panic' \in BOOLEAN /\ CallsKnown'
    BY <1>1, <1>15, <2>4, AdvancedTyped
  <2>6. RestTyped'
    BY <1>1, <1>8, <1>9, <1>16, <2>5 DEF RestTyped, errVars
  <2> QED
    BY <1>1, <1>9, <1>14, <2>5, <2>6, MovesKeep
<1>17. CASE kind # "counter"
  <2>1. lasterror' \in Errors /\ hook' \in Nat
    <3>1. "limit" \in Errors
      BY DEF Errors
    <3> QED
      BY <1>8, <1>17, <3>1, Reported DEF IInv
  <2>2. RestTyped'
    BY <1>1, <1>8, <1>9, <1>17, <2>1 DEF RestTyped
  <2>3. CallsKnown'
    <3>1. Ids(alarm)' = Ids(alarm) /\ calls' = s
      BY <1>1, <1>8, <1>17 DEF Ids
    <3> QED
      BY <1>15, <3>1 DEF CallsKnown
  <2> QED
    BY <1>1, <1>9, <1>14, <2>2, <2>3, MovesKeep
<1> QED
  BY <1>16, <1>17

LEMMA LoopedKnown ==
  ASSUME IInv, calls # <<>>, calls' = [calls EXCEPT ![Len(calls)] = Loop(Top.c)], AlarmsTimed
  PROVE  CallsKnown'
<1>1. Ids(alarm)' = Ids(alarm)
  BY DEF AlarmsTimed, Ids
<1>2. PICK r : r = Loop(Top.c)
  OBVIOUS
<1>3. r \in CallSet /\ r.a = None
  BY <1>2, TopIs DEF Loop, CallSet
<1>4. PICK s : s = [calls EXCEPT ![Len(calls)] = r]
  OBVIOUS
<1>5. s \in Seq(CallSet) /\ \A k \in 1 .. Len(s) : s[k].a = None \/ s[k].a \in Ids(alarm)
  BY <1>3, <1>4, TopReplaced
<1> QED
  BY <1>1, <1>2, <1>4, <1>5 DEF CallsKnown

\* The alarm whose function is running, and its cycle
LEMMA Running ==
  ASSUME IInv, NEW a \in Ids(alarm)
  PROVE  /\ a \in Nat /\ At(alarm, a) \in AlarmSet /\ At(alarm, a).expirytime \in Value
         /\ At(alarm, a).data \in Nat \union {None}
         /\ At(alarm, a).data # None => At(alarm, a).data \in Ids(osekalarm)
         /\ Cycle(a) \in Value
<1>1. alarm \in Seq(AlarmSet) /\ osekalarm \in Seq(OsekSet)
  BY DEF IInv, TypeOK
<1>2. a \in Nat /\ At(alarm, a) \in AlarmSet
  BY <1>1, IdIndex
<1>3. At(alarm, a).expirytime \in Value /\ At(alarm, a).data \in Nat \union {None}
  BY <1>2 DEF AlarmSet
<1>4. PICK d : d = At(alarm, a).data
  OBVIOUS
<1>5. d # None => d \in Ids(osekalarm)
  BY <1>4 DEF IInv, LeadsBack
<1>6. Cycle(a) \in Value
  <2>1. CASE d = None
    BY <1>4, <2>1 DEF Cycle, Value
  <2>2. CASE d # None
    <3>1. At(osekalarm, d) \in OsekSet
      BY <1>1, <1>5, <2>2, IdIndex
    <3>2. At(osekalarm, d).cycle \in Value
      BY <3>1 DEF OsekSet
    <3> QED
      BY <1>4, <2>2, <3>2 DEF Cycle
  <2> QED
    BY <2>1, <2>2
<1> QED
  BY <1>2, <1>3, <1>4, <1>5, <1>6

LEMMA FunctionReturnsKeeps ==
  ASSUME IInv, FunctionReturns
  PROVE  IInv'
<1>1. PICK c, a, d, n : c = Top.c /\ a = Top.a /\ d = At(alarm, a).data /\ n = NextTime(a, c)
  OBVIOUS
<1>2. /\ calls # <<>> /\ a # None
      /\ IF n <= At(alarm, a).expirytime THEN Cleared(a) /\ UNCHANGED list ELSE SetAlarm(c, a, n)
      /\ promise' = IF d = None THEN promise
                    ELSE [promise EXCEPT ![d + 1] =
                            IF At(promise, d) + Cycle(a) > MaxValue \/ Cycle(a) = 0 THEN 0
                            ELSE At(promise, d) + Cycle(a)]
      /\ calls' = [calls EXCEPT ![Len(calls)] = Loop(c)]
      /\ UNCHANGED <<phase, osekcounter, osekalarm, lasterror, hook, value, panic>>
  BY <1>1 DEF FunctionReturns, Cleared, confVars, errVars
<1>3. c \in Counter /\ a \in Ids(alarm)
  BY <1>1, <1>2, TopIs
<1>4. /\ a \in Nat /\ At(alarm, a).expirytime \in Value /\ Cycle(a) \in Value
      /\ d # None => d \in Ids(osekalarm)
  BY <1>1, <1>3, Running
<1>5. n \in Value
  BY <1>1, <1>4, SumInValue DEF NextTime
<1>6. AlarmsTimed /\ ListsKnown'
  <2>1. CASE n <= At(alarm, a).expirytime
    BY <1>2, <1>3, <2>1, ClearedTimed, StillMoved
  <2>2. CASE ~(n <= At(alarm, a).expirytime)
    BY <1>2, <1>3, <1>5, <2>2, SetAlarmMoves
  <2> QED
    BY <2>1, <2>2
<1>7. OseksSame /\ RestTyped
  BY <1>2, StillMoved
<1>8. promise' \in Seq(Value) /\ Len(promise') = Len(osekalarm)
  <2>1. promise \in Seq(Value) /\ Len(promise) = Len(osekalarm)
    BY <1>7 DEF RestTyped
  <2>2. CASE d = None
    BY <1>2, <2>1, <2>2
  <2>3. CASE d # None
    <3>0. d \in Ids(promise)
      BY <1>4, <2>1, <2>3 DEF Ids
    <3>1. d \in Nat /\ d + 1 \in 1 .. Len(promise) /\ At(promise, d) \in Value
      BY <2>1, <3>0, IdIndex
    <3>2. PICK x : x = IF At(promise, d) + Cycle(a) > MaxValue \/ Cycle(a) = 0 THEN 0
                       ELSE At(promise, d) + Cycle(a)
      OBVIOUS
    <3>3. x \in Value
      BY <1>4, <3>1, <3>2 DEF Value
    <3>4. promise' = [promise EXCEPT ![d + 1] = x]
      BY <1>2, <2>3, <3>2
    <3> QED
      BY <2>1, <3>1, <3>3, <3>4
  <2> QED
    BY <2>2, <2>3
<1>9. RestTyped'
  BY <1>2, <1>7, <1>8 DEF RestTyped
<1>10. CallsKnown'
  BY <1>1, <1>2, <1>6, LoopedKnown
<1> QED
  BY <1>2, <1>6, <1>7, <1>9, <1>10, MovesKeep

LEMMA AdvanceReturnsKeeps ==
  ASSUME IInv, AdvanceReturns
  PROVE  IInv'
<1>1. /\ calls # <<>> /\ calls' = Front(calls)
      /\ UNCHANGED <<phase, osekcounter, osekalarm, alarm, list, promise, lasterror, hook, value,
                     panic>>
  BY DEF AdvanceReturns, confVars, timeVars, errVars
<1>2. AlarmsTimed /\ OseksSame /\ ListsKnown' /\ RestTyped /\ CallsKnown
  BY <1>1, StillMoved
<1>3. CallsKnown'
  <2>1. calls \in Seq(CallSet) /\ Len(calls) \in Nat \ {0}
    BY <1>1, <1>2 DEF CallsKnown
  <2>0. PICK n \in Nat : n = Len(calls) - 1
    BY <2>1
  <2>2. PICK u : u = SubSeq(calls, 1, n)
    OBVIOUS
  <2>3. \A k \in 1 .. n : k \in 1 .. Len(calls) /\ calls[k] \in CallSet
    BY <2>0, <2>1
  <2>4. u \in Seq(CallSet)
    BY <2>1, <2>2, <2>3, SubSeqProperties
  <2>5. Len(u) = n /\ \A k \in 1 .. n : u[k] = calls[k]
    BY <2>0, <2>1, <2>2
  <2>6. calls' = u
    BY <1>1, <2>0, <2>2 DEF Front
  <2>7. Ids(alarm)' = Ids(alarm)
    BY <1>1 DEF Ids
  <2> QED
    BY <1>2, <2>1, <2>3, <2>4, <2>5, <2>6, <2>7 DEF CallsKnown
<1>4. RestTyped'
  BY <1>1, <1>2 DEF RestTyped
<1> QED
  BY <1>1, <1>2, <1>3, <1>4, MovesKeep

-----------------------------------------------------------------------------
(* The invariant holds                                                     *)

LEMMA SomeAre ==
  /\ Some(0 .. MaxOsekCounter - 1) \subseteq Nat
  /\ Some(0 .. MaxOsekAlarm - 1) \subseteq Nat
<1>1. MaxOsekCounter \in Nat /\ MaxOsekAlarm \in Nat
  BY OsekAssumption
<1>2. ASSUME NEW n \in Nat PROVE Some(0 .. n - 1) \subseteq Nat
  <2>1. IsFiniteSet(0 .. n - 1)
    BY FS_Interval
  <2>2. Cardinality(0 .. n - 1) \in Nat
    BY <2>1, FS_CardinalityType
  <2> QED
    BY <2>2 DEF Some
<1> QED
  BY <1>1, <1>2

LEMMA InitInvariant == Init => IInv
<1> SUFFICES ASSUME Init PROVE IInv
  OBVIOUS
<1>1. /\ phase = "counters" /\ osekcounter = <<>> /\ osekalarm = <<>> /\ alarm = <<>>
      /\ promise = <<>> /\ list = [c \in Counter |-> <<>>] /\ value = [c \in Counter |-> 0]
      /\ calls = <<>> /\ lasterror = "ok" /\ hook = 0 /\ panic = FALSE
  BY DEF Init
<1>2. TypeOK
  <2>1. 0 \in Value
    BY DEF Value
  <2>2. phase \in Phases /\ lasterror \in Errors
    BY <1>1 DEF Phases, Errors
  <2>3. \A S : <<>> \in Seq(S)
    OBVIOUS
  <2>4. list \in [Counter -> Seq(Nat)] /\ value \in [Counter -> Value]
    BY <1>1, <2>1
  <2> QED
    BY <1>1, <2>2, <2>3, <2>4 DEF TypeOK
<1>3. Ids(osekalarm) = {} /\ Ids(alarm) = {}
  BY <1>1 DEF Ids
<1>4. OwnAlarm /\ LeadsBack
  BY <1>3 DEF OwnAlarm, LeadsBack
<1>5. AlarmsKnown /\ Phased
  BY <1>1 DEF AlarmsKnown, Known, Phased
<1> QED
  BY <1>2, <1>4, <1>5 DEF IInv

LEMMA NextInvariant ==
  ASSUME IInv, [Next]_vars
  PROVE  IInv'
<1>1. CASE UNCHANGED vars
  <2>1. TypeOK'
    BY <1>1 DEF IInv, TypeOK, vars, confVars, timeVars, errVars
  <2> QED
    BY <1>1, <2>1, TablesStill DEF vars, confVars, timeVars
<1>2. CASE Next
  <2>1. CASE HookReturns
    BY <2>1, HookReturnsKeeps
  <2>2. CASE NextPhase
    BY <2>2, NextPhaseKeeps
  <2>3. CASE \E c \in Some(Counter), max \in Maxima, min \in Minima : AddOsekCounter(c, max, min)
    BY <2>3, AddOsekCounterKeeps
  <2>4. CASE AddPlainAlarm
    BY <2>4, AddPlainAlarmKeeps
  <2>5. CASE \E c \in Some(0 .. MaxOsekCounter - 1) :
               \E t \in Some(Task), kind \in Kinds \intersect {"task", "event"} :
                 AddAlarmTask(c, t, kind)
    BY <2>5, AddAlarmTaskKeeps, SomeAre
  <2>6. CASE \E c \in Some(0 .. MaxOsekCounter - 1) : AddAlarmAcb(c)
    BY <2>6, AddAlarmAcbKeeps, SomeAre
  <2>7. CASE \E c \in Some(0 .. MaxOsekCounter - 1), c2 \in Some(Counter) : AddAlarmCounter(c, c2)
    BY <2>7, AddAlarmCounterKeeps, SomeAre
  <2>8. CASE \E i \in Some(0 .. MaxOsekAlarm - 1), tim \in Times, cyc \in Times :
               SetRelAlarm(i, tim, cyc)
    BY <2>8, SetRelAlarmKeeps, SomeAre, TimesAre
  <2>9. CASE \E i \in Some(0 .. MaxOsekAlarm - 1), tim \in Times, cyc \in Times :
               SetAbsAlarm(i, tim, cyc)
    BY <2>9, SetAbsAlarmKeeps, SomeAre, TimesAre
  <2>10. CASE \E i \in 0 .. MaxOsekAlarm - 1 : CancelAlarm(i)
    BY <2>10, CancelAlarmKeeps
  <2>11. CASE \E c \in Counter, n \in 1 .. 2 : AdvanceCounter(c, n)
    BY <2>11, AdvanceCounterKeeps
  <2>12. CASE Expire
    BY <2>12, ExpireKeeps
  <2>13. CASE FunctionReturns
    BY <2>13, FunctionReturnsKeeps
  <2>14. CASE AdvanceReturns
    BY <2>14, AdvanceReturnsKeeps
  <2> QED
    BY <1>2, <2>1, <2>2, <2>3, <2>4, <2>5, <2>6, <2>7, <2>8, <2>9, <2>10, <2>11, <2>12, <2>13,
       <2>14 DEF Next
<1> QED
  BY <1>1, <1>2

\* Every state of the OSEK layer satisfies the invariant: the tables, the lists and the
\* calls under way are well formed and refer to each other (dv_osekinit(), all of
\* davroska-osek.c, dv_advancecounter()).
THEOREM OsekInvariant == Spec => []IInv
<1>1. Init => IInv
  BY InitInvariant
<1>2. IInv /\ [Next]_vars => IInv'
  BY NextInvariant
<1> QED
  BY <1>1, <1>2, PTL DEF Spec

\* However the configuration's calls fail on the way and whatever runs later, each OSEK
\* alarm has a davroska alarm of its own, which leads back to it, and refers to objects
\* that exist (dv_addosekalarm() and its callers).
THEOREM AlarmsOfTheirOwn == Spec => []OwnAlarm
<1>1. IInv => OwnAlarm
  BY DEF IInv
<1> QED
  BY <1>1, OsekInvariant, PTL

-----------------------------------------------------------------------------
(* The last error                                                          *)

\* The error of which the ErrorHook was told stays recorded while the hook runs: only
\* the hook's return clears it, and no error is recorded over it, whatever the hook and
\* what it interrupts call (callout_reporterror()).
THEOREM LastErrorStays == Spec => LastErrorKept
<1>1. ASSUME NEW e, Report(e), hook # 0 PROVE UNCHANGED lasterror
  BY <1>1 DEF Report, errVars
<1>2. ASSUME Next, hook # 0, hook' # 0 PROVE UNCHANGED lasterror
  <2>1. CASE HookReturns
    BY <1>2, <2>1 DEF HookReturns
  <2>2. CASE NextPhase
    BY <2>2 DEF NextPhase, errVars
  <2>3. CASE \E c \in Some(Counter), max \in Maxima, min \in Minima : AddOsekCounter(c, max, min)
    BY <1>1, <1>2, <2>3 DEF AddOsekCounter, errVars
  <2>4. CASE AddPlainAlarm
    BY <2>4 DEF AddPlainAlarm, errVars
  <2>5. ASSUME NEW c, NEW kind, NEW obj, AddOsekAlarm(c, kind, obj) PROVE UNCHANGED lasterror
    BY <1>1, <1>2, <2>5, AddOsekAlarmSplits DEF AlarmAdded, errVars
  <2>6. CASE \E c \in Some(0 .. MaxOsekCounter - 1) :
               \E t \in Some(Task), kind \in Kinds \intersect {"task", "event"} :
                 AddAlarmTask(c, t, kind)
    BY <1>1, <1>2, <2>5, <2>6 DEF AddAlarmTask
  <2>7. CASE \E c \in Some(0 .. MaxOsekCounter - 1) : AddAlarmAcb(c)
    BY <2>5, <2>7 DEF AddAlarmAcb
  <2>8. CASE \E c \in Some(0 .. MaxOsekCounter - 1), c2 \in Some(Counter) : AddAlarmCounter(c, c2)
    BY <1>1, <1>2, <2>5, <2>8 DEF AddAlarmCounter
  <2>9. ASSUME NEW i, NEW v, NEW cyc, SetOrRefuse(i, v, cyc) PROVE UNCHANGED lasterror
    BY <1>1, <1>2, <2>9 DEF SetOrRefuse, errVars
  <2>10. CASE \E i \in Some(0 .. MaxOsekAlarm - 1), tim \in Times, cyc \in Times :
                SetRelAlarm(i, tim, cyc)
    BY <1>1, <1>2, <2>9, <2>10 DEF SetRelAlarm
  <2>11. CASE \E i \in Some(0 .. MaxOsekAlarm - 1), tim \in Times, cyc \in Times :
                SetAbsAlarm(i, tim, cyc)
    BY <1>1, <1>2, <2>9, <2>11 DEF SetAbsAlarm, errVars
  <2>12. CASE \E i \in 0 .. MaxOsekAlarm - 1 : CancelAlarm(i)
    BY <2>12 DEF CancelAlarm, errVars
  <2>13. CASE \E c \in Counter, n \in 1 .. 2 : AdvanceCounter(c, n)
    BY <2>13 DEF AdvanceCounter, errVars
  <2>14. CASE Expire
    BY <1>1, <1>2, <2>14 DEF Expire, errVars
  <2>15. CASE FunctionReturns
    BY <2>15 DEF FunctionReturns, errVars
  <2>16. CASE AdvanceReturns
    BY <2>16 DEF AdvanceReturns, errVars
  <2> QED
    BY <1>2, <2>1, <2>2, <2>3, <2>4, <2>6, <2>7, <2>8, <2>10, <2>11, <2>12, <2>13, <2>14, <2>15,
       <2>16 DEF Next
<1>3. [Next]_vars => [hook # 0 /\ hook' # 0 => UNCHANGED lasterror]_vars
  BY <1>2
<1> QED
  BY <1>3, PTL DEF Spec, LastErrorKept

-----------------------------------------------------------------------------
(* The promises                                                            *)

\* The alarms expire when they are to.
Due(i) == At(alarm, i).expirytime = At(promise, i)
AllDue == \A i \in Ids(osekalarm) : Due(i)

PInv == IInv /\ SameIds /\ Promised

LEMMA PromisedIs == SameIds => (Promised <=> (~panic => AllDue))
BY DEF SameIds, Promised, AllDue, Due, AlarmOf

LEMMA PromisedIsNext == SameIds' => (Promised' <=> (~panic' => AllDue'))
BY DEF SameIds, Promised, AllDue, Due, AlarmOf

LEMMA Dued ==
  ASSUME PInv, ~panic, IInv', SameIds', AllDue'
  PROVE  PInv'
BY PromisedIsNext DEF PInv

\* No alarm is added.
LEMMA AlarmsSameIds ==
  ASSUME PInv, IInv', AlarmsTimed, OseksSame, UNCHANGED <<phase, osekcounter>>
  PROVE  SameIds'
<1>1. SameAlarms
  BY DEF SameAlarms, AlarmsTimed, OseksSame
<1> QED
  BY <1>1, SameAlarmsIds DEF PInv, IInv

\* No alarm is set, stopped or added.
LEMMA PromisesStill ==
  ASSUME PInv, ~panic, IInv', UNCHANGED <<phase, osekcounter, osekalarm, alarm, promise>>
  PROVE  PInv'
<1>1. AllDue
  BY PromisedIs DEF PInv
<1>2. SameIds'
  BY AlarmsSameIds, StillMoved DEF PInv
<1>3. AllDue'
  BY <1>1 DEF AllDue, Due, Ids, At
<1> QED
  BY <1>2, <1>3, Dued

LEMMA AddedPromised ==
  ASSUME PInv, ~panic, IInv', NEW c, NEW kind, NEW obj, ConfigRest, AlarmAdded(c, kind, obj)
  PROVE  PInv'
<1>1. UNCHANGED <<phase, osekcounter>> /\ AllDue /\ SameIds
  BY PromisedIs DEF PInv, ConfigRest, confVars
<1>2. CASE UNCHANGED <<osekalarm, alarm, promise>>
  BY <1>1, <1>2, PromisesStill
<1>3. CASE /\ c \in Ids(osekcounter)
           /\ alarm' = Append(alarm, NewAlarm(Len(osekalarm)))
           /\ osekalarm' = Append(osekalarm, [osekcounter |-> c, kind |-> kind, obj |-> obj,
                                              cycle |-> 0, alarm |-> Len(alarm)])
           /\ promise' = Append(promise, 0)
  <2>1. /\ alarm \in Seq(AlarmSet) /\ osekalarm \in Seq(OsekSet) /\ promise \in Seq(Value)
        /\ Len(promise) = Len(osekalarm) /\ Len(alarm) \in Nat /\ Len(osekalarm) \in Nat
        /\ alarm' \in Seq(AlarmSet) /\ osekalarm' \in Seq(OsekSet) /\ promise' \in Seq(Value)
    BY DEF PInv, IInv, TypeOK
  <2>2. osekcounter # <<>>
    BY <1>3 DEF Ids
  <2>3. Len(alarm) = Len(osekalarm)
    BY <1>1, <2>2 DEF SameIds
  <2>0. PICK n \in Nat : n = Len(alarm)
    BY <2>1
  <2>4. PICK x, o, z : /\ x = NewAlarm(n)
                       /\ o = [osekcounter |-> c, kind |-> kind, obj |-> obj,
                               cycle |-> 0, alarm |-> n]
                       /\ z = 0
    OBVIOUS
  <2>5. x.expirytime = z /\ o.alarm = n
    BY <2>0, <2>4 DEF NewAlarm
  <2>6. /\ Len(alarm') = n + 1 /\ Len(osekalarm') = n + 1
        /\ \A k \in 1 .. n : alarm'[k] = alarm[k] /\ osekalarm'[k] = osekalarm[k]
        /\ alarm'[n + 1] = x /\ osekalarm'[n + 1] = o
    BY <1>3, <2>1, <2>3, <2>0, <2>4
  <2>7. (\A k \in 1 .. n : promise'[k] = promise[k]) /\ promise'[n + 1] = z
    <3>1. PICK p : p = promise'
      OBVIOUS
    <3>2. p = Append(promise, z) /\ Len(promise) = n /\ promise \in Seq(Value)
      BY <1>3, <2>1, <2>3, <2>0, <2>4, <3>1
    <3>3. (\A k \in 1 .. n : p[k] = promise[k]) /\ p[n + 1] = z
      BY <3>2
    <3> QED
      BY <3>1, <3>3
  <2>8. \A i \in Ids(osekalarm)' :
          i \in Nat /\ (i = n \/ (i \in Ids(osekalarm) /\ i + 1 \in 1 .. n))
    BY <2>1, <2>3, <2>0, <2>4, <2>6 DEF Ids
  <2>9. SameIds'
    <3>1. \A i \in Ids(osekalarm)' : At(osekalarm', i).alarm = i
      BY <1>1, <2>5, <2>6, <2>8 DEF SameIds, At
    <3> QED
      BY <1>1, <2>2, <2>6, <3>1 DEF SameIds, At
  <2>10. AllDue'
    BY <1>1, <2>5, <2>6, <2>7, <2>8 DEF AllDue, Due, At
  <2> QED
    BY <2>9, <2>10, Dued
<1> QED
  BY <1>2, <1>3 DEF AlarmAdded

LEMMA AddOsekCounterPromised ==
  ASSUME PInv, ~panic, IInv', NEW c, NEW max, NEW min, AddOsekCounter(c, max, min)
  PROVE  PInv'
<1>1. UNCHANGED <<phase, osekalarm, alarm, promise>> /\ AllDue /\ SameIds
  BY PromisedIs DEF PInv, AddOsekCounter, timeVars
<1>2. CASE UNCHANGED osekcounter
  BY <1>1, <1>2, PromisesStill
<1>3. CASE phase = "counters"
  <2>1. alarm = <<>> /\ osekalarm = <<>>
    BY <1>3 DEF PInv, IInv, Phased
  <2>2. Ids(osekalarm)' = {}
    BY <1>1, <2>1 DEF Ids
  <2>3. SameIds' /\ AllDue'
    BY <1>1, <2>1, <2>2 DEF SameIds, AllDue
  <2> QED
    BY <2>3, Dued
<1>4. phase = "counters" \/ UNCHANGED osekcounter
  BY DEF AddOsekCounter
<1> QED
  BY <1>2, <1>3, <1>4

LEMMA AddPlainAlarmPromised ==
  ASSUME PInv, ~panic, IInv', Mixes \notin Liberties, AddPlainAlarm
  PROVE  PInv'
<1>1. UNCHANGED <<osekalarm, osekcounter>> /\ osekcounter = <<>> /\ SameIds
  BY DEF PInv, AddPlainAlarm, confVars
<1>2. osekalarm = <<>>
  BY <1>1 DEF SameIds
<1>3. Ids(osekalarm)' = {}
  BY <1>1, <1>2 DEF Ids
<1>4. SameIds' /\ AllDue'
  BY <1>1, <1>2, <1>3 DEF SameIds, AllDue
<1> QED
  BY <1>4, Dued

LEMMA NextPhasePromised ==
  ASSUME PInv, ~panic, IInv', NextPhase
  PROVE  PInv'
<1>1. UNCHANGED <<osekcounter, osekalarm, alarm, promise>> /\ AllDue /\ SameIds
  BY PromisedIs DEF PInv, NextPhase, timeVars
<1>2. SameIds' /\ AllDue'
  BY <1>1 DEF SameIds, AllDue, Due, Ids, At
<1> QED
  BY <1>2, Dued

\* An entry of a table is replaced.
Replaced(s, u, i, x) == u = [s EXCEPT ![i + 1] = x]

LEMMA ReplacedIs ==
  ASSUME NEW s \in Seq(Value), NEW i \in Ids(s), NEW x \in Value, NEW u, Replaced(s, u, i, x)
  PROVE  At(u, i) = x /\ \A j \in Ids(s) : j # i => At(u, j) = At(s, j)
<1>1. i \in Nat /\ i + 1 \in 1 .. Len(s) /\ \A j \in Ids(s) : j \in Nat /\ j + 1 \in 1 .. Len(s)
  BY IdIndex
<1>2. u[i + 1] = x /\ \A k \in 1 .. Len(s) : k # i + 1 => u[k] = s[k]
  BY <1>1 DEF Replaced
<1> QED
  BY <1>1, <1>2 DEF At

\* Alarm i and its promise have a new time.
TimeMoved(i, v, x) ==
  /\ \E c \in Counter \union {None} : TimeSet(alarm, alarm', i, v, c)
  /\ promise' = [promise EXCEPT ![i + 1] = x]

LEMMA MovedPromised ==
  ASSUME PInv, ~panic, IInv', OseksSame, UNCHANGED <<phase, osekcounter>>,
         NEW i \in Ids(osekalarm), i \in Ids(alarm), NEW v \in Value, TimeMoved(i, v, v)
  PROVE  PInv'
<1>1. PICK c \in Counter \union {None} : TimeSet(alarm, alarm', i, v, c)
  BY DEF TimeMoved
<1>2. /\ alarm \in Seq(AlarmSet) /\ promise \in Seq(Value) /\ AllDue /\ SameIds
      /\ Len(promise) = Len(osekalarm) /\ osekalarm \in Seq(OsekSet)
  BY PromisedIs DEF PInv, IInv, TypeOK
<1>3. AlarmsTimed
  BY <1>1, TimeSetTimed DEF PInv
<1>4. PICK u : u = alarm'
  OBVIOUS
<1>5. TimeSet(alarm, u, i, v, c)
  BY <1>1, <1>4
<1>6. At(u, i).expirytime = v /\ \A b \in Ids(alarm) : b # i => At(u, b) = At(alarm, b)
  BY <1>2, <1>5, TimeIsSet
<1>7. PICK p : p = promise'
  OBVIOUS
<1>8. i \in Ids(promise) /\ Ids(promise) = Ids(osekalarm) /\ Replaced(promise, p, i, v)
  BY <1>2, <1>7 DEF Ids, TimeMoved, Replaced
<1>9. At(p, i) = v /\ \A j \in Ids(promise) : j # i => At(p, j) = At(promise, j)
  BY <1>2, <1>8, ReplacedIs
<1>10. \A j \in Ids(osekalarm) : j \in Ids(alarm)
  <2>1. \A j \in Ids(osekalarm) : At(osekalarm, j).alarm \in Ids(alarm)
    BY Refers DEF PInv
  <2> QED
    BY <1>2, <2>1 DEF SameIds
<1>11. Ids(osekalarm)' = Ids(osekalarm)
  BY DEF OseksSame, Ids
<1>12. AllDue'
  BY <1>2, <1>4, <1>6, <1>7, <1>8, <1>9, <1>10, <1>11 DEF AllDue, Due, At
<1> QED
  BY <1>3, <1>12, AlarmsSameIds, Dued

\* An alarm is set as promised, or refused since 64 bits do not hold the time.
LEMMA SetOrRefusePromised ==
  ASSUME PInv, ~panic, IInv', UNCHANGED <<phase, osekcounter>>,
         NEW i \in Ids(osekalarm), NEW v \in Value, NEW n \in Nat, NEW cyc \in Value,
         n <= MaxValue => v = n /\ ~(v < value[CounterOf(i)]),
         n > MaxValue => v < value[CounterOf(i)],
         SetOrRefuse(i, v, cyc), Promise(i, n)
  PROVE  PInv'
<1>1. /\ promise \in Seq(Value) /\ Len(promise) = Len(osekalarm) /\ i + 1 \in 1 .. Len(promise)
      /\ i \in Nat
  BY IdIndex DEF PInv, IInv, TypeOK
<1>2. CASE n <= MaxValue
  <2>1. ~(v < value[CounterOf(i)]) /\ v = n
    BY <1>2
  <2>2. SetAlarm(CounterOf(i), At(osekalarm, i).alarm, v)
    BY <2>1 DEF SetOrRefuse
  <2>3. CounterOf(i) \in Counter /\ At(osekalarm, i).alarm \in Ids(alarm)
    BY Refers DEF PInv
  <2>4. At(osekalarm, i).alarm = i
    BY DEF PInv, SameIds
  <2>5. TimeSet(alarm, alarm', i, v, CounterOf(i))
    BY <2>2, <2>4 DEF SetAlarm, TimeSet
  <2>6. promise' = [promise EXCEPT ![i + 1] = v]
    BY <1>2, <2>1 DEF Promise
  <2>7. TimeMoved(i, v, v)
    BY <2>3, <2>5, <2>6 DEF TimeMoved
  <2>8. OseksSame
    BY SetOrRefuseMoves DEF PInv
  <2> QED
    BY <2>3, <2>4, <2>7, <2>8, MovedPromised
<1>3. CASE n > MaxValue
  <2>1. UNCHANGED <<osekalarm, alarm, list>>
    BY <1>3 DEF SetOrRefuse
  <2>2. promise' = promise
    <3>1. ~(n <= MaxValue)
      BY <1>3
    <3>2. promise' = [promise EXCEPT ![i + 1] = promise[i + 1]]
      BY <1>1, <3>1 DEF Promise
    <3> QED
      BY <1>1, <3>2
  <2> QED
    BY <2>1, <2>2, PromisesStill
<1> QED
  BY <1>2, <1>3

LEMMA SetRelAlarmPromised ==
  ASSUME PInv, ~panic, IInv', NEW i \in Nat, NEW tim \in Nat, NEW cyc \in Nat,
         SetRelAlarm(i, tim, cyc)
  PROVE  PInv'
<1>1. UNCHANGED <<phase, osekcounter>> /\ IInv
  BY DEF SetRelAlarm, confVars, PInv
<1>2. CASE Check(i, tim, cyc) # "ok"
  <2>1. UNCHANGED <<osekalarm, alarm, promise>>
    BY <1>2 DEF SetRelAlarm, timeVars
  <2> QED
    BY <1>1, <2>1, PromisesStill
<1>3. CASE Check(i, tim, cyc) = "ok"
  <2>1. i \in Ids(osekalarm) /\ tim \in Value /\ cyc \in Value
    BY <1>1, <1>3, Checked
  <2>2. PICK cur : cur = value[CounterOf(i)]
    OBVIOUS
  <2>3. cur \in Value
    BY <1>1, <2>1, <2>2, Refers
  <2>4. cur \in Nat /\ cur <= MaxValue /\ tim <= MaxValue
    BY <2>1, <2>3 DEF Value
  <2>5. PICK v : v = Plus(cur, tim)
    OBVIOUS
  <2>6. v \in Value /\ v = IF cur + tim <= MaxValue THEN cur + tim ELSE cur + tim - MaxValue - 1
    BY <2>1, <2>3, <2>5, PlusIs, SumInValue
  <2>7. PICK n \in Nat : n = cur + tim
    BY <2>4
  <2>8. /\ n <= MaxValue => v = n /\ ~(v < cur)
        /\ n > MaxValue => v < cur
    BY <2>4, <2>6, <2>7
  <2>9. SetOrRefuse(i, v, cyc) /\ Promise(i, n)
    BY <1>3, <2>2, <2>5, <2>7 DEF SetRelAlarm
  <2> QED
    BY <1>1, <2>1, <2>2, <2>6, <2>8, <2>9, SetOrRefusePromised
<1> QED
  BY <1>2, <1>3

LEMMA SetAbsAlarmPromised ==
  ASSUME PInv, ~panic, IInv', \A m \in Maxima : m < MaxValue,
         NEW i \in Nat, NEW tim \in Nat, NEW cyc \in Nat, SetAbsAlarm(i, tim, cyc)
  PROVE  PInv'
<1>1. UNCHANGED <<phase, osekcounter>> /\ IInv
  BY DEF SetAbsAlarm, confVars, PInv
<1>2. CASE Check(i, tim, cyc) # "ok"
  <2>1. UNCHANGED <<osekalarm, alarm, promise>>
    BY <1>2 DEF SetAbsAlarm, timeVars
  <2> QED
    BY <1>1, <2>1, PromisesStill
<1>3. CASE Check(i, tim, cyc) = "ok"
  <2>1. i \in Ids(osekalarm) /\ tim \in 0 .. OsekOf(i).max /\ cyc \in Value
    BY <1>1, <1>3, Checked
  <2>2. PICK cur, max, m : cur = value[CounterOf(i)] /\ max = OsekOf(i).max /\ m = Plus(max, 1)
    OBVIOUS
  <2>3. cur \in Value /\ max \in 1 .. MaxValue /\ max < MaxValue /\ tim \in 0 .. max
    BY <1>1, <2>1, <2>2, Refers
  <2>4. m = max + 1 /\ m # 0 /\ max \in 1 .. MaxValue - 1 /\ m \in Nat \ {0}
    <3>1. max \in Value /\ 1 \in Value
      BY <2>3 DEF Value
    <3>2. m = IF max + 1 <= MaxValue THEN max + 1 ELSE max + 1 - MaxValue - 1
      BY <2>2, <3>1, PlusIs
    <3> QED
      BY <2>3, <3>2
  <2>5. PICK r \in Remainder(cur, m) :
          /\ panic' = (r = None)
          /\ IF panic' THEN UNCHANGED <<osekalarm, alarm, list, errVars>>
             ELSE SetOrRefuse(i, AbsVal(cur, r, tim, m), cyc)
          /\ Promise(i, NextAt(cur, tim, max + 1))
    BY <1>3, <2>2 DEF SetAbsAlarm
  <2>6. r = cur % m
    BY <2>4, <2>5 DEF Remainder
  <2>7. r # None
    <3>1. cur \in Nat
      BY <2>3 DEF Value
    <3>2. cur % m \in 0 .. m - 1
      BY <2>4, <3>1
    <3> QED
      BY <2>4, <2>6, <3>2 DEF None
  <2>8. PICK v, n : v = AbsVal(cur, cur % m, tim, m) /\ n = NextAt(cur, tim, m)
    OBVIOUS
  <2>9. /\ n \in cur + 1 .. cur + m /\ cur \in Nat /\ v \in Value
        /\ n <= MaxValue => v = n
        /\ n > MaxValue => v < cur
    BY <2>3, <2>4, <2>8, AbsValIs
  <2>10. n \in Nat /\ n > cur
    BY <2>4, <2>9
  <2>11. SetOrRefuse(i, v, cyc) /\ Promise(i, n)
    BY <2>4, <2>5, <2>6, <2>7, <2>8
  <2>12. /\ n <= MaxValue => v = n /\ ~(v < cur)
         /\ n > MaxValue => v < cur
    BY <2>9, <2>10
  <2> QED
    BY <1>1, <2>1, <2>2, <2>9, <2>10, <2>11, <2>12, SetOrRefusePromised
<1> QED
  BY <1>2, <1>3

LEMMA CancelAlarmPromised ==
  ASSUME PInv, ~panic, IInv', NEW i \in Nat, CancelAlarm(i)
  PROVE  PInv'
<1>1. /\ i \in Ids(alarm) /\ UNCHANGED <<phase, osekcounter, osekalarm>> /\ IInv
      /\ alarm' = [alarm EXCEPT ![i + 1].expirytime = 0, ![i + 1].counter = None]
  BY DEF CancelAlarm, confVars, PInv
<1>2. 0 \in Value /\ None \in Counter \union {None}
  BY DEF Value
<1>3. OseksSame /\ AlarmsTimed
  BY <1>1, StillMoved, ClearedTimed DEF Cleared
<1>4. CASE i \in Ids(osekalarm)
  <2>1. promise' = [promise EXCEPT ![i + 1] = 0]
    BY <1>4 DEF CancelAlarm
  <2>2. TimeSet(alarm, alarm', i, 0, None)
    BY <1>1 DEF TimeSet
  <2>3. PICK z \in Value : z = 0
    BY <1>2
  <2>4. TimeMoved(i, z, z)
    BY <1>2, <2>1, <2>2, <2>3 DEF TimeMoved
  <2> QED
    BY <1>1, <1>3, <1>4, <2>4, MovedPromised
<1>5. CASE i \notin Ids(osekalarm)
  <2>1. promise' = promise
    BY <1>5 DEF CancelAlarm
  <2>2. AllDue /\ SameIds /\ alarm \in Seq(AlarmSet)
    BY PromisedIs DEF PInv, IInv, TypeOK
  <2>3. \A j \in Ids(osekalarm) : j # i /\ j \in Nat
    BY <1>5 DEF Ids
  <2>4. \A k \in DOMAIN alarm : k # i + 1 => alarm'[k] = alarm[k]
    BY <1>1, <2>2
  <2>5. \A j \in Ids(osekalarm) : At(alarm', j) = At(alarm, j)
    <3>1. ASSUME NEW j \in Ids(osekalarm) PROVE j + 1 \in DOMAIN alarm /\ j + 1 # i + 1
      <4>1. At(osekalarm, j).alarm = j /\ At(osekalarm, j).alarm \in Ids(alarm)
        BY <1>1, <2>2, Refers DEF SameIds
      <4> QED
        BY <2>2, <2>3, <4>1 DEF Ids
    <3> QED
      BY <2>4, <3>1 DEF At
  <2>6. AllDue'
    BY <1>1, <2>1, <2>2, <2>5 DEF AllDue, Due, Ids, At
  <2> QED
    BY <1>1, <1>3, <2>6, AlarmsSameIds, Dued
<1> QED
  BY <1>4, <1>5

LEMMA FunctionReturnsPromised ==
  ASSUME PInv, ~panic, IInv', FunctionReturns
  PROVE  PInv'
<1>0. IInv /\ SameIds /\ AllDue
  BY PromisedIs DEF PInv
<1>1. PICK c, a, d, n : c = Top.c /\ a = Top.a /\ d = At(alarm, a).data /\ n = NextTime(a, c)
  OBVIOUS
<1>2. /\ calls # <<>> /\ a # None
      /\ IF n <= At(alarm, a).expirytime THEN Cleared(a) ELSE SetAlarm(c, a, n)
      /\ promise' = IF d = None THEN promise
                    ELSE [promise EXCEPT ![d + 1] =
                            IF At(promise, d) + Cycle(a) > MaxValue \/ Cycle(a) = 0 THEN 0
                            ELSE At(promise, d) + Cycle(a)]
      /\ UNCHANGED <<phase, osekcounter, osekalarm>>
  BY <1>1 DEF FunctionReturns, Cleared, confVars
<1>3. c \in Counter /\ a \in Ids(alarm)
  BY <1>0, <1>1, <1>2, TopIs
<1>4. PICK e, y : e = At(alarm, a).expirytime /\ y = Cycle(a)
  OBVIOUS
<1>5. /\ e \in Value /\ y \in Value /\ a \in Nat
      /\ d # None => d \in Ids(osekalarm) /\ At(osekalarm, d).alarm = a
  BY <1>0, <1>1, <1>3, <1>4, Running DEF IInv, LeadsBack
<1>6. n \in Value /\ n = IF e + y <= MaxValue THEN e + y ELSE e + y - MaxValue - 1
  <2>1. n = Plus(e, y)
    BY <1>1, <1>4 DEF NextTime
  <2> QED
    BY <1>5, <2>1, PlusIs, SumInValue
<1>7. PICK x : x = IF n <= e THEN 0 ELSE n
  OBVIOUS
<1>8. x \in Value
  BY <1>6, <1>7 DEF Value
<1>9. x = IF e + y > MaxValue \/ y = 0 THEN 0 ELSE e + y
  <2>1. e \in Nat /\ y \in Nat /\ e <= MaxValue /\ y <= MaxValue
    BY <1>5 DEF Value
  <2> QED
    BY <1>6, <1>7, <2>1
<1>10. \E b \in Counter \union {None} : TimeSet(alarm, alarm', a, x, b)
  <2>1. CASE n <= e
    <3>1. TimeSet(alarm, alarm', a, x, None)
      BY <1>2, <1>4, <1>7, <2>1 DEF TimeSet, Cleared
    <3> QED
      BY <3>1
  <2>2. CASE ~(n <= e)
    <3>1. TimeSet(alarm, alarm', a, x, c)
      BY <1>2, <1>4, <1>7, <2>2 DEF TimeSet, SetAlarm
    <3> QED
      BY <1>3, <3>1
  <2> QED
    BY <2>1, <2>2
<1>11. OseksSame
  BY <1>0, <1>2, StillMoved
<1>12. CASE d # None
  <2>1. d \in Ids(osekalarm) /\ d = a
    BY <1>0, <1>5, <1>12 DEF SameIds
  <2>2. At(promise, d) = e
    BY <1>0, <1>4, <2>1 DEF AllDue, Due
  <2>3. promise' = [promise EXCEPT ![a + 1] = x]
    BY <1>2, <1>4, <1>9, <1>12, <2>1, <2>2
  <2>4. TimeMoved(a, x, x)
    BY <1>10, <2>3 DEF TimeMoved
  <2> QED
    BY <1>2, <1>3, <1>8, <1>11, <2>1, <2>4, MovedPromised
<1>13. CASE d = None
  <2>1. PICK b \in Counter \union {None} : TimeSet(alarm, alarm', a, x, b)
    BY <1>10
  <2>2. alarm \in Seq(AlarmSet) /\ promise' = promise
    BY <1>0, <1>2, <1>13 DEF IInv, TypeOK
  <2>3. AlarmsTimed
    BY <1>0, <1>3, <1>8, <2>1, TimeSetTimed
  <2>4. PICK u : u = alarm'
    OBVIOUS
  <2>5. TimeSet(alarm, u, a, x, b)
    BY <2>1, <2>4
  <2>6. \A j \in Ids(alarm) : j # a => At(u, j) = At(alarm, j)
    BY <1>3, <1>8, <2>2, <2>5, TimeIsSet
  <2>7. \A j \in Ids(osekalarm) : j \in Ids(alarm) /\ j # a
    <3>1. ASSUME NEW j \in Ids(osekalarm) PROVE j \in Ids(alarm) /\ At(alarm, j).data = j
      <4>1. At(osekalarm, j).alarm \in Ids(alarm) /\ AlarmOf(j).data = j
        BY <1>0, Refers
      <4> QED
        BY <1>0, <4>1 DEF SameIds, AlarmOf
    <3>2. \A j \in Ids(osekalarm) : j # None
      BY DEF Ids, None
    <3> QED
      BY <1>1, <1>13, <3>1, <3>2
  <2>8. AllDue'
    BY <1>0, <1>2, <2>2, <2>4, <2>6, <2>7 DEF AllDue, Due, Ids, At
  <2> QED
    BY <1>2, <1>11, <2>3, <2>8, AlarmsSameIds, Dued
<1> QED
  BY <1>12, <1>13

\* What the theorem asks of the application: it does not add davroska alarms among its
\* OSEK alarms, and no OSEK counter has the largest dv_u64_t for a maxvalue, which
\* SetAbsAlarm() would divide by zero for.
KeepsRules == Mixes \notin Liberties /\ \A m \in Maxima : m < MaxValue

\* An OSEK alarm expires when OSEK says it does: the first time at the next time its
\* counter reads the value given to SetAbsAlarm(), or after the ticks given to
\* SetRelAlarm(), then each cycle later, whatever the counter's wrapping, its callback or
\* another alarm on the counter do in the meantime; and it is refused only if 64 bits
\* cannot hold that time.
THEOREM PromisesKept == ASSUME KeepsRules PROVE Spec => []Promised
<1>1. Init => PInv
  <2> SUFFICES ASSUME Init PROVE PInv
    OBVIOUS
  <2>1. IInv
    BY InitInvariant
  <2>2. osekalarm = <<>> /\ osekcounter = <<>>
    BY DEF Init
  <2>3. Ids(osekalarm) = {}
    BY <2>2 DEF Ids
  <2> QED
    BY <2>1, <2>2, <2>3 DEF PInv, SameIds, Promised
<1>2. ASSUME PInv, [Next]_vars PROVE PInv'
  <2>1. IInv'
    BY <1>2, NextInvariant DEF PInv
  <2>2. CASE UNCHANGED vars
    BY <1>2, <2>1, <2>2 DEF PInv, SameIds, Promised, AlarmOf, Ids, At,
                            vars, confVars, timeVars
  <2>3. CASE Next
    <3>0. ~panic
      BY <2>3 DEF Next
    <3>1. CASE HookReturns
      BY <1>2, <2>1, <3>0, <3>1, PromisesStill DEF HookReturns, confVars, timeVars
    <3>2. CASE NextPhase
      BY <1>2, <2>1, <3>0, <3>2, NextPhasePromised
    <3>3. CASE \E c \in Some(Counter), max \in Maxima, min \in Minima : AddOsekCounter(c, max, min)
      BY <1>2, <2>1, <3>0, <3>3, AddOsekCounterPromised
    <3>4. CASE AddPlainAlarm
      BY <1>2, <2>1, <3>0, <3>4, AddPlainAlarmPromised DEF KeepsRules
    <3>5. ASSUME NEW c, NEW kind, NEW obj, ConfigRest, AddOsekAlarm(c, kind, obj) PROVE PInv'
      <4>1. AlarmAdded(c, kind, obj)
        BY <3>5, AddOsekAlarmSplits
      <4> QED
        BY <1>2, <2>1, <3>0, <3>5, <4>1, AddedPromised
    <3>6. ASSUME ConfigRest, UNCHANGED <<osekalarm, alarm, promise>> PROVE PInv'
      BY <1>2, <2>1, <3>0, <3>6, PromisesStill DEF ConfigRest, confVars
    <3>7. CASE \E c \in Some(0 .. MaxOsekCounter - 1) :
                 \E t \in Some(Task), kind \in Kinds \intersect {"task", "event"} :
                   AddAlarmTask(c, t, kind)
      BY <3>5, <3>6, <3>7 DEF AddAlarmTask
    <3>8. CASE \E c \in Some(0 .. MaxOsekCounter - 1) : AddAlarmAcb(c)
      BY <3>5, <3>8 DEF AddAlarmAcb
    <3>9. CASE \E c \in Some(0 .. MaxOsekCounter - 1), c2 \in Some(Counter) : AddAlarmCounter(c, c2)
      BY <3>5, <3>6, <3>9 DEF AddAlarmCounter
    <3>10. CASE \E i \in Some(0 .. MaxOsekAlarm - 1), tim \in Times, cyc \in Times :
                  SetRelAlarm(i, tim, cyc)
      BY <1>2, <2>1, <3>0, <3>10, SetRelAlarmPromised, SomeAre, TimesAre
    <3>11. CASE \E i \in Some(0 .. MaxOsekAlarm - 1), tim \in Times, cyc \in Times :
                  SetAbsAlarm(i, tim, cyc)
      BY <1>2, <2>1, <3>0, <3>11, SetAbsAlarmPromised, SomeAre, TimesAre DEF KeepsRules
    <3>12. CASE \E i \in 0 .. MaxOsekAlarm - 1 : CancelAlarm(i)
      BY <1>2, <2>1, <3>0, <3>12, CancelAlarmPromised
    <3>13. CASE \E c \in Counter, n \in 1 .. 2 : AdvanceCounter(c, n)
      BY <1>2, <2>1, <3>0, <3>13, PromisesStill DEF AdvanceCounter, confVars, timeVars
    <3>14. CASE Expire
      BY <1>2, <2>1, <3>0, <3>14, PromisesStill DEF Expire, confVars
    <3>15. CASE FunctionReturns
      BY <1>2, <2>1, <3>0, <3>15, FunctionReturnsPromised
    <3>16. CASE AdvanceReturns
      BY <1>2, <2>1, <3>0, <3>16, PromisesStill DEF AdvanceReturns, confVars, timeVars
    <3> QED
      BY <2>3, <3>1, <3>2, <3>3, <3>4, <3>7, <3>8, <3>9, <3>10, <3>11, <3>12, <3>13, <3>14,
         <3>15, <3>16 DEF Next
  <2> QED
    BY <1>2, <2>2, <2>3
<1>3. PInv => Promised
  BY DEF PInv
<1> QED
  BY <1>1, <1>2, <1>3, PTL DEF Spec
=============================================================================
