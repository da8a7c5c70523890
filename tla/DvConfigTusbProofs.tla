------------------------- MODULE DvConfigTusbProofs -------------------------
(***************************************************************************)
(* Theorems of what stands at davroska's edges: DvConfig, the calls that   *)
(* configure it, for every number of executables, stacks, mutexes and      *)
(* slots and whatever the application asks for; and TusbOs, TinyUSB's      *)
(* queue without a lock and its delays, for every length of the queue,     *)
(* every value that is sent and every number of ticks.                     *)
(***************************************************************************)
EXTENDS DvConfig, TusbOs, FiniteSetTheorems, SequenceTheorems, WellFoundedInduction, TLAPS

-----------------------------------------------------------------------------
(* Numbers and sums                                                        *)

\* Some numbers have a least one.
LEMMA LeastOne ==
  ASSUME NEW T \in SUBSET Nat, T # {}
  PROVE  \E d \in T : \A c \in T : d <= c
<1>1. PICK d \in T : \A c \in T : ~(<<c, d>> \in OpToRel(<, Nat))
  BY NatLessThanWellFounded, WFMin
<1>2. \A c \in T : c \in Nat /\ d \in Nat /\ ~(c < d)
  BY <1>1 DEF OpToRel
<1> QED
  BY <1>2

\* A set with 0, and with a number's successor whenever it has the number, has them all.
LEMMA AllNumbers ==
  ASSUME NEW G, 0 \in G, \A n \in Nat : n \in G => n + 1 \in G
  PROVE  \A n \in Nat : n \in G
<1> SUFFICES ASSUME NEW b \in Nat, b \notin G PROVE FALSE
  OBVIOUS
<1>1. PICK T : T = {n \in Nat : n \notin G}
  OBVIOUS
<1>2. T \in SUBSET Nat /\ T # {}
  BY <1>1
<1>3. PICK d \in T : \A c \in T : d <= c
  BY <1>2, LeastOne
<1>4. d \in Nat /\ d # 0
  BY <1>1
<1>5. d - 1 \in Nat /\ d = (d - 1) + 1 /\ ~(d <= d - 1)
  BY <1>4
<1>6. d - 1 \in G
  BY <1>1, <1>3, <1>5
<1> QED
  BY <1>1, <1>5, <1>6

\* What s has to be to hold the sums of f[0], f[1], ...
Sums(s, f, n) ==
  /\ n \in Nat /\ f \in [0 .. n - 1 -> Nat]
  /\ s \in [0 .. n -> Nat] /\ s[0] = 0
  /\ \A i \in 0 .. n - 1 : s[i + 1] = s[i] + f[i]

LEMMA SumsExist ==
  ASSUME NEW n \in Nat, NEW f \in [0 .. n - 1 -> Nat]
  PROVE  \E s : Sums(s, f, n)
<1> DEFINE UpTo(s, m) == /\ s \in [0 .. n -> Nat] /\ s[0] = 0
                         /\ \A i \in 0 .. m - 1 : s[i + 1] = s[i] + f[i]
<1> DEFINE Possible(m) == m <= n => \E s : UpTo(s, m)
<1>1. PICK G : G = {m \in Nat : Possible(m)}
  OBVIOUS
<1>2. 0 \in G
  <2>1. PICK s : s = [i \in 0 .. n |-> 0]
    OBVIOUS
  <2>2. s \in [0 .. n -> Nat] /\ s[0] = 0
    BY <2>1
  <2>3. UpTo(s, 0)
    BY <2>2
  <2> HIDE DEF UpTo
  <2>4. Possible(0)
    BY <2>3
  <2> HIDE DEF Possible
  <2> QED
    BY <1>1, <2>4
<1>3. ASSUME NEW m \in Nat, m \in G PROVE m + 1 \in G
  <2>1. Possible(m)
    <3> HIDE DEF Possible
    <3> QED
      BY <1>1, <1>3
  <2>2. ASSUME m + 1 <= n PROVE \E s : UpTo(s, m + 1)
    <3>1. PICK s : UpTo(s, m)
      BY <2>1, <2>2
    <3>2. PICK v : v = s[m] + f[m]
      OBVIOUS
    <3>3. v \in Nat
      BY <2>2, <3>1, <3>2
    <3>4. PICK t : t = [s EXCEPT ![m + 1] = v]
      OBVIOUS
    <3>5. t \in [0 .. n -> Nat] /\ t[0] = 0
      BY <2>2, <3>1, <3>3, <3>4
    <3>6. \A i \in 0 .. (m + 1) - 1 : t[i + 1] = t[i] + f[i]
      BY <2>2, <3>1, <3>2, <3>4
    <3>7. UpTo(t, m + 1)
      BY <3>5, <3>6
    <3> HIDE DEF UpTo
    <3> QED
      BY <3>7
  <2>3. Possible(m + 1)
    <3> HIDE DEF UpTo
    <3> QED
      BY <2>2
  <2> HIDE DEF Possible
  <2> QED
    BY <1>1, <2>3
<1>4. n \in G
  <2> HIDE DEF Possible
  <2> QED
    BY <1>2, <1>3, AllNumbers
<1>5. Possible(n)
  <2> HIDE DEF Possible
  <2> QED
    BY <1>1, <1>4
<1>6. PICK s : UpTo(s, n)
  BY <1>5
<1> QED
  BY <1>6 DEF Sums

\* The recursive definition gives the sums.
LEMMA SumsDefined ==
  ASSUME NEW n \in Nat, NEW f \in [0 .. n - 1 -> Nat]
  PROVE  Sums(SumsOf(f, n), f, n)
<1> DEFINE P(s) == s = [i \in 0 .. n |-> IF i = 0 THEN 0 ELSE s[i - 1] + f[i - 1]]
<1>1. \E s : P(s)
  <2>1. PICK s : Sums(s, f, n)
    BY SumsExist
  <2>2. \A i \in 0 .. n : s[i] = IF i = 0 THEN 0 ELSE s[i - 1] + f[i - 1]
    <3> SUFFICES ASSUME NEW i \in 0 .. n, i # 0 PROVE s[i] = s[i - 1] + f[i - 1]
      BY <2>1 DEF Sums
    <3>1. i - 1 \in 0 .. n - 1 /\ (i - 1) + 1 = i
      OBVIOUS
    <3> QED
      BY <2>1, <3>1 DEF Sums
  <2>3. P(s)
    BY <2>1, <2>2 DEF Sums
  <2> QED
    BY <2>3
<1>2. SumsOf(f, n) = CHOOSE s : P(s)
  BY DEF SumsOf
<1> HIDE DEF P
<1>3. P(CHOOSE s : P(s))
  BY <1>1, Zenon
<1>4. PICK s : s = SumsOf(f, n) /\ P(s)
  BY <1>2, <1>3
<1>5. s = [i \in 0 .. n |-> IF i = 0 THEN 0 ELSE s[i - 1] + f[i - 1]]
  BY <1>4 DEF P
<1>6. s[0] = 0 /\ \A i \in 0 .. n - 1 : s[i + 1] = s[i] + f[i]
  <2>1. s[0] = 0
    BY <1>5
  <2>2. ASSUME NEW i \in 0 .. n - 1 PROVE s[i + 1] = s[i] + f[i]
    <3>1. i + 1 \in 0 .. n /\ i + 1 # 0 /\ (i + 1) - 1 = i
      OBVIOUS
    <3> QED
      BY <1>5, <3>1
  <2> QED
    BY <2>1, <2>2
<1>7. \A i \in 0 .. n : s[i] \in Nat
  <2>1. PICK G : G = {m \in Nat : m <= n => s[m] \in Nat}
    OBVIOUS
  <2>2. 0 \in G
    BY <1>6, <2>1
  <2>3. ASSUME NEW m \in Nat, m \in G PROVE m + 1 \in G
    <3>1. CASE m + 1 <= n
      <4>1. m \in 0 .. n - 1 /\ s[m] \in Nat
        BY <2>1, <2>3, <3>1
      <4>2. f[m] \in Nat /\ s[m + 1] = s[m] + f[m]
        BY <1>6, <4>1
      <4> QED
        BY <2>1, <4>1, <4>2
    <3>2. CASE ~(m + 1 <= n)
      BY <2>1, <3>2
    <3> QED
      BY <3>1, <3>2
  <2>4. \A m \in Nat : m \in G
    BY <2>2, <2>3, AllNumbers
  <2> QED
    BY <2>1, <2>4
<1>8. s \in [0 .. n -> Nat]
  BY <1>5, <1>7
<1>9. Sums(s, f, n)
  BY <1>6, <1>8 DEF Sums
<1> QED
  BY <1>4, <1>9

\* Sums do not get smaller.
LEMMA SumsGrow ==
  ASSUME NEW n, NEW f, NEW s, Sums(s, f, n),
         NEW i \in 0 .. n, NEW j \in 0 .. n, i <= j
  PROVE  s[i] <= s[j]
<1>0. n \in Nat /\ f \in [0 .. n - 1 -> Nat]
  BY DEF Sums
<1> USE <1>0
<1>1. PICK G : G = {m \in Nat : i + m <= n => s[i] <= s[i + m]}
  OBVIOUS
<1>2. 0 \in G
  <2>1. i + 0 = i /\ s[i] \in Nat
    BY DEF Sums
  <2> QED
    BY <1>1, <2>1
<1>3. ASSUME NEW m \in Nat, m \in G PROVE m + 1 \in G
  <2>1. CASE i + (m + 1) <= n
    <3>1. i + m \in 0 .. n - 1 /\ i + (m + 1) = (i + m) + 1
      BY <2>1
    <3>2. s[i] <= s[i + m] /\ s[i] \in Nat /\ s[i + m] \in Nat /\ f[i + m] \in Nat
      BY <1>1, <1>3, <3>1 DEF Sums
    <3>3. s[(i + m) + 1] = s[i + m] + f[i + m]
      BY <3>1 DEF Sums
    <3> QED
      BY <1>1, <3>1, <3>2, <3>3
  <2>2. CASE ~(i + (m + 1) <= n)
    BY <1>1, <2>2
  <2> QED
    BY <2>1, <2>2
<1>4. \A m \in Nat : m \in G
  BY <1>2, <1>3, AllNumbers
<1>5. PICK d \in Nat : i + d = j
  <2>1. j - i \in Nat /\ i + (j - i) = j
    OBVIOUS
  <2> QED
    BY <2>1
<1>6. d \in G
  BY <1>4
<1> QED
  BY <1>1, <1>5, <1>6

\* The sums of what is the same are the same.
LEMMA SumsAgree ==
  ASSUME NEW n, NEW f, NEW s, Sums(s, f, n), NEW k, NEW g, NEW t, Sums(t, g, k),
         n <= k, \A i \in 0 .. n - 1 : f[i] = g[i]
  PROVE  s[n] = t[n]
<1>0. n \in Nat /\ k \in Nat
  BY DEF Sums
<1> USE <1>0
<1>1. PICK G : G = {m \in Nat : m <= n => s[m] = t[m]}
  OBVIOUS
<1>2. 0 \in G
  BY <1>1 DEF Sums
<1>3. ASSUME NEW m \in Nat, m \in G PROVE m + 1 \in G
  <2>1. CASE m + 1 <= n
    <3>1. m \in 0 .. n - 1 /\ m \in 0 .. k - 1 /\ s[m] = t[m]
      BY <1>1, <1>3, <2>1
    <3>2. s[m + 1] = s[m] + f[m] /\ t[m + 1] = t[m] + g[m]
      BY <3>1 DEF Sums
    <3> QED
      BY <1>1, <3>1, <3>2
  <2>2. CASE ~(m + 1 <= n)
    BY <1>1, <2>2
  <2> QED
    BY <2>1, <2>2
<1>4. \A m \in Nat : m \in G
  BY <1>2, <1>3, AllNumbers
<1> QED
  BY <1>1, <1>4

-----------------------------------------------------------------------------
(* The configuration of davroska                                           *)

Executable == [base : Nat, run : Nat, maxact : Nat, irq : Irq \union {None},
               extended : Nat \union {None}]
MutexRow   == [ceiling : Nat, users : SUBSET Nat, maxtake : Nat]
StackRow   == [base : Nat, len : Nat, sp : Nat]
GroupRow   == [nopreempt : BOOLEAN, members : SUBSET Nat]

IsTable(f, S) == CountOf(f) \in Nat /\ f \in [0 .. CountOf(f) - 1 -> S]

TablesType ==
  /\ IsTable(exe, Executable) /\ IsTable(mutex, MutexRow)
  /\ ntask \in 1 .. CountOf(exe) /\ maxtaskprio \in 0 .. MaxPrio - 1
  /\ nslots \in [Queue -> Nat] /\ vector \in [Irq -> Nat \union {None}]
  /\ phase = "tasks" => ntask = CountOf(exe)

\* Tasks come first, and their priorities are not above maxtaskprio; those of ISRs are.
PrioritiesApart ==
  /\ exe[0].base = 0 /\ exe[0].run = 0
  /\ \A e \in DOMAIN exe \ {0} : exe[e].base \in 1 .. MaxPrio - 1 /\ exe[e].maxact >= 1
  /\ \A e \in DOMAIN exe : exe[e].run \in exe[e].base .. MaxPrio - 1
  /\ \A e \in DOMAIN exe : e < ntask <=> exe[e].base <= maxtaskprio

\* An ISR and its vector know each other.
VectorsPaired ==
  /\ \A i \in Irq : vector[i] # None => vector[i] \in Isr /\ exe[vector[i]].irq = i
  /\ \A e \in Isr : exe[e].irq \in Irq /\ vector[exe[e].irq] = e

\* The members of a group can be run at the priority it asks for.
Members(g) == g \in GroupRow /\ g.members \subseteq DOMAIN exe \ {0}
                /\ (g.nopreempt => g.members \subseteq DOMAIN exe \ Isr)
Shares(g) ==
  \A e \in g.members :
    /\ \A f \in g.members : exe[e].run >= exe[f].base
    /\ g.nopreempt => \A t \in DOMAIN exe \ Isr : exe[e].run >= exe[t].base

GroupsShare ==
  /\ phase # "groups" => group = None /\ groups = {}
  /\ group # None => Members(group)
  /\ \A g \in groups : Members(g) /\ Shares(g)

\* The slots have been counted with the executables.
Acts(x, p)  == [e \in DOMAIN x |-> IF x[e].base = p THEN x[e].maxact ELSE 0]
Total(x, p) == SumsOf(Acts(x, p), CountOf(x))[CountOf(x)]
SlotsCounted == \A p \in 0 .. MaxPrio : nslots[p] = 2 + Total(exe, p)

\* There are no levels before dv_calculatelevels().
LevelsLater == phase \in {"tasks", "isrs"} => \A q \in Queue : level[q] = 0

\* The stacks belong to tasks.
StacksOwned ==
  /\ IsTable(stack, StackRow) /\ extstacks \in Nat
  /\ \A e \in DOMAIN exe : exe[e].extended # None =>
       e \in 1 .. ntask - 1 /\ exe[e].extended \in DOMAIN stack

\* Mutexes come last.
MutexesLast ==
  /\ phase \in {"tasks", "isrs", "groups", "halted"} => DOMAIN mutex = {}
  /\ \A m \in DOMAIN mutex : mutex[m].users \subseteq DOMAIN exe

Sound ==
  /\ TablesType /\ PrioritiesApart /\ VectorsPaired /\ GroupsShare /\ SlotsCounted
  /\ LevelsLater /\ QueuesSound /\ LevelsSound /\ StacksOwned /\ StacksSound
  /\ MutexesLast /\ CeilingsSound

\* The length of a table
LEMMA TableIs ==
  ASSUME NEW n \in Nat, NEW S, NEW f \in [0 .. n - 1 -> S]
  PROVE  CountOf(f) = n /\ IsTable(f, S)
<1>1. n - 1 \in Int /\ 0 \in Int /\ DOMAIN f = 0 .. n - 1
  OBVIOUS
<1>2. Cardinality(0 .. n - 1) = IF 0 > n - 1 THEN 0 ELSE (n - 1) - 0 + 1
  BY <1>1, FS_Interval
<1>3. CountOf(f) = n
  BY <1>1, <1>2 DEF CountOf
<1> QED
  BY <1>3 DEF IsTable

\* Adding a row
LEMMA TableGrows ==
  ASSUME NEW S, NEW f, IsTable(f, S), NEW x \in S, NEW g, g = Append1(f, x)
  PROVE  /\ IsTable(g, S) /\ CountOf(g) = CountOf(f) + 1
         /\ g[CountOf(f)] = x /\ \A i \in 0 .. CountOf(f) - 1 : g[i] = f[i]
<1>1. PICK n : n = CountOf(f)
  OBVIOUS
<1>2. n \in Nat /\ f \in [0 .. n - 1 -> S]
  BY <1>1 DEF IsTable
<1>3. g = [i \in 0 .. n |-> IF i = n THEN x ELSE f[i]]
  BY <1>1 DEF Append1
<1>4. g \in [0 .. n -> S] /\ g[n] = x /\ \A i \in 0 .. n - 1 : g[i] = f[i]
  BY <1>2, <1>3
<1>5. n + 1 \in Nat /\ (n + 1) - 1 = n
  BY <1>2
<1>6. g \in [0 .. (n + 1) - 1 -> S]
  BY <1>4, <1>5
<1>7. CountOf(g) = n + 1 /\ IsTable(g, S)
  BY <1>5, <1>6, TableIs
<1> QED
  BY <1>1, <1>4, <1>7

\* What is activated at a priority, when an executable is added
LEMMA TotalGrows ==
  ASSUME NEW x, IsTable(x, Executable), NEW y, IsTable(y, Executable), NEW n \in Nat,
         CountOf(x) = n, CountOf(y) = n + 1, \A i \in 0 .. n - 1 : y[i] = x[i], NEW p
  PROVE  /\ Total(x, p) \in Nat
         /\ Total(y, p) = Total(x, p) + (IF y[n].base = p THEN y[n].maxact ELSE 0)
<1>1. PICK f : f = Acts(x, p)
  OBVIOUS
<1>2. PICK g : g = Acts(y, p)
  OBVIOUS
<1>3. x \in [0 .. n - 1 -> Executable] /\ y \in [0 .. n -> Executable]
  BY DEF IsTable
<1>4. f \in [0 .. n - 1 -> Nat] /\ g \in [0 .. (n + 1) - 1 -> Nat]
  BY <1>1, <1>2, <1>3 DEF Acts, Executable
<1>5. \A i \in 0 .. n - 1 : f[i] = g[i]
  BY <1>1, <1>2, <1>3 DEF Acts
<1>6. g[n] = IF y[n].base = p THEN y[n].maxact ELSE 0
  BY <1>2, <1>3 DEF Acts
<1>7. PICK s : s = SumsOf(f, n)
  OBVIOUS
<1>8. PICK t : t = SumsOf(g, n + 1)
  OBVIOUS
<1>9. Sums(s, f, n)
  BY <1>4, <1>7, SumsDefined
<1>10. Sums(t, g, n + 1)
  <2>1. n + 1 \in Nat
    OBVIOUS
  <2> QED
    BY <1>4, <1>8, <2>1, SumsDefined
<1>11. s[n] = t[n]
  <2>1. PICK k : k = n + 1
    OBVIOUS
  <2>2. n <= k /\ Sums(t, g, k)
    BY <1>10, <2>1
  <2> QED
    BY <1>5, <1>9, <2>2, SumsAgree
<1>12. s[n] \in Nat /\ t[n + 1] = t[n] + g[n]
  <2>1. n \in 0 .. (n + 1) - 1 /\ n \in 0 .. n
    OBVIOUS
  <2> QED
    BY <1>9, <1>10, <2>1 DEF Sums
<1>13. Total(x, p) = s[n] /\ Total(y, p) = t[n + 1]
  BY <1>1, <1>2, <1>7, <1>8 DEF Total
<1> QED
  BY <1>6, <1>11, <1>12, <1>13

\* One executable more, and what belongs to it in the queues
Added(x, y, new) ==
  /\ IsTable(x, Executable) /\ IsTable(y, Executable) /\ CountOf(y) = CountOf(x) + 1
  /\ y[CountOf(x)] = new /\ \A i \in 0 .. CountOf(x) - 1 : y[i] = x[i]

LEMMA ExeAdded ==
  ASSUME TablesType, SlotsCounted,
         NEW prio \in 1 .. MaxPrio - 1, NEW maxact \in Nat, NEW irq \in Irq \union {None},
         NEW ext \in Nat \union {None}, AddExe(prio, maxact, irq, ext)
  PROVE  /\ Added(exe, exe', NewExe(prio, maxact, irq, ext))
         /\ nslots' \in [Queue -> Nat] /\ SlotsCounted'
<1>1. PICK new : new = NewExe(prio, maxact, irq, ext)
  OBVIOUS
<1>2. MaxPrio \in Nat
  BY ConfigAssumption
<1>3. new \in Executable
  BY <1>1, <1>2 DEF NewExe, Executable
<1>4. PICK y : y = exe'
  OBVIOUS
<1>5. IsTable(exe, Executable) /\ y = Append1(exe, new)
  BY <1>1, <1>4 DEF AddExe, TablesType
<1>6. /\ IsTable(y, Executable) /\ CountOf(y) = CountOf(exe) + 1
      /\ y[CountOf(exe)] = new /\ \A i \in 0 .. CountOf(exe) - 1 : y[i] = exe[i]
  BY <1>3, <1>5, TableGrows
<1>7. Added(exe, exe', NewExe(prio, maxact, irq, ext))
  BY <1>1, <1>4, <1>5, <1>6 DEF Added
<1>8. prio \in Queue
  BY <1>2 DEF Queue
<1>9. nslots \in [Queue -> Nat] /\ nslots' = [nslots EXCEPT ![prio] = @ + maxact]
  BY DEF AddExe, TablesType
<1>10. nslots' \in [Queue -> Nat]
  BY <1>8, <1>9
<1>11. SlotsCounted'
  <2> SUFFICES ASSUME NEW p \in 0 .. MaxPrio PROVE nslots'[p] = 2 + Total(exe', p)
    BY DEF SlotsCounted
  <2>1. PICK n : n = CountOf(exe)
    OBVIOUS
  <2>2. n \in Nat /\ CountOf(exe) = n /\ CountOf(y) = n + 1 /\ \A i \in 0 .. n - 1 : y[i] = exe[i]
    BY <1>5, <1>6, <2>1 DEF IsTable
  <2>3. /\ Total(exe, p) \in Nat
        /\ Total(y, p) = Total(exe, p) + (IF y[n].base = p THEN y[n].maxact ELSE 0)
    BY <1>5, <1>6, <2>2, TotalGrows
  <2>4. y[n].base = prio /\ y[n].maxact = maxact
    BY <1>1, <1>6, <2>1 DEF NewExe
  <2>5. p \in Queue /\ nslots[p] = 2 + Total(exe, p)
    BY <1>2 DEF Queue, SlotsCounted
  <2>6. nslots'[p] = nslots[p] + (IF prio = p THEN maxact ELSE 0)
    BY <1>8, <1>9, <2>5
  <2>7. Total(exe', p) = Total(y, p)
    BY <1>4
  <2> QED
    BY <2>3, <2>4, <2>5, <2>6, <2>7
<1> QED
  BY <1>7, <1>10, <1>11

\* Before the groups there are none, and no mutexes, and nothing to say of the tables.
LEMMA Preparing ==
  ASSUME phase' \in {"tasks", "isrs"}, group' = None, groups' = {}, DOMAIN mutex' = {}
  PROVE  GroupsShare' /\ MutexesLast' /\ CeilingsSound' /\ QueuesSound' /\ LevelsSound'
BY DEF GroupsShare, MutexesLast, CeilingsSound, QueuesSound, LevelsSound, Queued

LEMMA AddTaskKeeps ==
  ASSUME Sound, NEW prio \in Int, NEW maxact \in Int, NEW ext \in Nat \union {None},
         AddTask(prio, maxact, ext)
  PROVE  /\ TablesType' /\ PrioritiesApart' /\ VectorsPaired' /\ GroupsShare'
         /\ SlotsCounted' /\ LevelsLater' /\ QueuesSound' /\ LevelsSound'
         /\ MutexesLast' /\ CeilingsSound'
         /\ \E a \in Nat : /\ maxact <= 1 => a = 1
                           /\ Added(exe, exe', NewExe(prio, a, None, ext))
<1>1. PICK a \in Nat : a = (IF maxact < 1 THEN 1 ELSE maxact)
  OBVIOUS
<1>2. /\ phase = "tasks" /\ prio >= 1 /\ AddExe(prio, a, None, ext) /\ ntask' = ntask + 1
      /\ maxtaskprio' = (IF prio > maxtaskprio THEN prio ELSE maxtaskprio)
      /\ UNCHANGED <<phase, irqVars, tableVars, groupVars, mutex, panic>>
  BY <1>1 DEF AddTask
<1>3. prio \in 1 .. MaxPrio - 1 /\ MaxPrio \in Nat
  BY <1>2, ConfigAssumption DEF AddExe
<1>4. /\ Added(exe, exe', NewExe(prio, a, None, ext))
      /\ nslots' \in [Queue -> Nat] /\ SlotsCounted'
  BY <1>2, <1>3, ExeAdded DEF Sound
<1>5. PICK n : n = CountOf(exe)
  OBVIOUS
<1>6. PICK y : y = exe'
  OBVIOUS
<1>7. /\ n \in Nat /\ n >= 1 /\ n = ntask /\ exe \in [0 .. n - 1 -> Executable]
      /\ maxtaskprio \in 0 .. MaxPrio - 1
  BY <1>2, <1>5 DEF Sound, TablesType, IsTable
<1>8. /\ IsTable(y, Executable) /\ CountOf(y) = n + 1 /\ y \in [0 .. n -> Executable]
      /\ \A i \in 0 .. n - 1 : y[i] = exe[i]
  BY <1>4, <1>5, <1>6, <1>7 DEF Added, IsTable
<1>9. y[n] = NewExe(prio, a, None, ext)
  BY <1>4, <1>5, <1>6 DEF Added
<1>10. /\ y[n].base = prio /\ y[n].run = prio /\ y[n].maxact = a
       /\ a >= 1
  BY <1>1, <1>9 DEF NewExe
<1>11. /\ vector' = vector /\ phase' = phase /\ group' = group /\ groups' = groups
       /\ mutex' = mutex /\ level' = level
  BY <1>2 DEF irqVars, tableVars, groupVars
<1>12. /\ group = None /\ groups = {} /\ DOMAIN mutex = {} /\ IsTable(mutex, MutexRow)
       /\ vector \in [Irq -> Nat \union {None}]
  BY <1>2 DEF Sound, GroupsShare, MutexesLast, TablesType
<1>13. Isr = {}
  BY <1>7 DEF Isr
<1>14. TablesType'
  <2>1. ntask' \in 1 .. CountOf(exe') /\ ntask' = CountOf(exe')
    BY <1>2, <1>6, <1>7, <1>8
  <2>2. maxtaskprio' \in 0 .. MaxPrio - 1
    BY <1>2, <1>3, <1>7
  <2>3. IsTable(exe', Executable) /\ IsTable(mutex', MutexRow)
    BY <1>6, <1>8, <1>11, <1>12
  <2> QED
    BY <1>4, <1>11, <1>12, <2>1, <2>2, <2>3 DEF TablesType
<1>15. PrioritiesApart'
  <2>1. exe[0].base = 0 /\ exe[0].run = 0 /\ y[0] = exe[0]
    BY <1>7, <1>8 DEF Sound, PrioritiesApart
  <2>2. DOMAIN y = 0 .. n
    BY <1>8
  <2>3. ASSUME NEW e \in 0 .. n
        PROVE  /\ e # 0 => y[e].base \in 1 .. MaxPrio - 1 /\ y[e].maxact >= 1
               /\ y[e].run \in y[e].base .. MaxPrio - 1
               /\ e < ntask' /\ y[e].base <= maxtaskprio'
    <3>1. CASE e = n
      BY <1>2, <1>3, <1>7, <1>10, <3>1
    <3>2. CASE e # n
      <4>1. e \in DOMAIN exe /\ e \in 0 .. n - 1 /\ y[e] = exe[e] /\ e < ntask
        BY <1>7, <1>8, <3>2
      <4>2. /\ e # 0 => exe[e].base \in 1 .. MaxPrio - 1 /\ exe[e].maxact >= 1
            /\ exe[e].run \in exe[e].base .. MaxPrio - 1
            /\ exe[e].base <= maxtaskprio
        BY <4>1 DEF Sound, PrioritiesApart
      <4>3. exe[e] \in Executable
        BY <1>7, <4>1
      <4>4. exe[e].base \in Nat
        BY <4>3 DEF Executable
      <4> QED
        BY <1>2, <1>3, <1>7, <4>1, <4>2, <4>4
    <3> QED
      BY <3>1, <3>2
  <2> QED
    BY <1>6, <2>1, <2>2, <2>3 DEF PrioritiesApart
<1>16. VectorsPaired'
  <2>1. \A i \in Irq : vector[i] = None
    BY <1>13 DEF Sound, VectorsPaired
  <2>2. Isr' = {}
    BY <1>2, <1>6, <1>7, <1>8 DEF Isr
  <2> QED
    BY <1>11, <2>1, <2>2 DEF VectorsPaired
<1>17. GroupsShare' /\ MutexesLast' /\ CeilingsSound' /\ QueuesSound' /\ LevelsSound'
  BY <1>2, <1>11, <1>12, Preparing
<1>18. LevelsLater'
  BY <1>11 DEF Sound, LevelsLater
<1>19. \E a1 \in Nat : /\ maxact <= 1 => a1 = 1
                       /\ Added(exe, exe', NewExe(prio, a1, None, ext))
  BY <1>1, <1>4
<1> QED
  BY <1>4, <1>14, <1>15, <1>16, <1>17, <1>18, <1>19

LEMMA AddBasicTaskKeeps ==
  ASSUME Sound, NEW prio \in Int, NEW maxact \in Int, AddBasicTask(prio, maxact)
  PROVE  Sound'
<1>1. AddTask(prio, maxact, None) /\ UNCHANGED stackVars
  BY DEF AddBasicTask
<1>2. None \in Nat \union {None}
  OBVIOUS
<1>3. PICK a \in Nat : Added(exe, exe', NewExe(prio, a, None, None))
  BY <1>1, <1>2, AddTaskKeeps
<1>4. PICK y : y = exe'
  OBVIOUS
<1>5. PICK n \in Nat : n = CountOf(exe) /\ n = ntask /\ ntask' = n + 1
  BY <1>1 DEF AddTask, Sound, TablesType, IsTable
<1>6. DOMAIN exe = 0 .. n - 1 /\ DOMAIN y = 0 .. n /\ \A i \in 0 .. n - 1 : y[i] = exe[i]
  BY <1>3, <1>4, <1>5 DEF Added, IsTable
<1>7. y[n].extended = None
  BY <1>3, <1>4, <1>5 DEF Added, NewExe
<1>8. stack' = stack /\ extstacks' = extstacks
  BY <1>1 DEF stackVars
<1>9. StacksOwned'
  <2>1. ASSUME NEW e \in 0 .. n, y[e].extended # None
        PROVE  e \in 1 .. n /\ y[e].extended \in DOMAIN stack
    <3>1. e \in 0 .. n - 1
      BY <1>7, <2>1
    <3>2. e \in DOMAIN exe /\ exe[e].extended # None /\ y[e] = exe[e]
      BY <1>6, <2>1, <3>1
    <3> QED
      BY <1>5, <3>2 DEF Sound, StacksOwned
  <2>2. IsTable(stack, StackRow) /\ extstacks \in Nat
    BY DEF Sound, StacksOwned
  <2> QED
    BY <1>4, <1>5, <1>6, <1>8, <2>1, <2>2 DEF StacksOwned
<1>10. StacksSound'
  <2>1. ASSUME NEW e \in 0 .. n, NEW f \in 0 .. n, y[e].extended # None,
               y[e].extended = y[f].extended
        PROVE  e = f
    <3>1. e \in 0 .. n - 1 /\ f \in 0 .. n - 1
      BY <1>7, <2>1
    <3> QED
      BY <1>6, <2>1, <3>1 DEF Sound, StacksSound
  <2>2. ASSUME NEW k \in DOMAIN stack
        PROVE  \E e \in 1 .. ntask' - 1 : y[e].extended = k /\ y[e].maxact = 1
    <3>1. PICK e \in 1 .. ntask - 1 : exe[e].extended = k /\ exe[e].maxact = 1
      BY DEF Sound, StacksSound
    <3>2. e \in 1 .. ntask' - 1 /\ y[e] = exe[e]
      BY <1>5, <1>6
    <3> QED
      BY <3>1, <3>2
  <2>3. \A k \in DOMAIN stack :
          /\ stack[k].sp - stack[k].base >= stack[k].len + Canary
          /\ stack[k].sp <= extstacks
          /\ \A m \in DOMAIN stack : k < m => stack[k].sp <= stack[m].base
    BY DEF Sound, StacksSound
  <2> QED
    BY <1>4, <1>6, <1>8, <2>1, <2>2, <2>3 DEF StacksSound
<1>11. /\ TablesType' /\ PrioritiesApart' /\ VectorsPaired' /\ GroupsShare'
       /\ SlotsCounted' /\ LevelsLater' /\ QueuesSound' /\ LevelsSound'
       /\ MutexesLast' /\ CeilingsSound'
  BY <1>1, <1>2, AddTaskKeeps
<1> QED
  BY <1>9, <1>10, <1>11 DEF Sound

\* A stack's length is not negative.
LEMMA RoundNotNegative ==
  ASSUME NEW b \in Nat
  PROVE  StackRound(b) \in Nat
<1>1. Canary \in Nat /\ Canary >= 1
  BY ConfigAssumption
<1>2. PICK c \in Nat : c = Canary /\ c >= 1
  BY <1>1
<1>3. PICK q : q = (b + c - 1) \div c
  OBVIOUS
<1>4. q \in Nat
  BY <1>2, <1>3
<1>5. q * c \in Nat
  BY <1>4
<1> QED
  BY <1>2, <1>3, <1>5 DEF StackRound

LEMMA AddExtendedTaskKeeps ==
  ASSUME Sound, NEW prio \in Int, NEW bytes \in Int, AddExtendedTask(prio, bytes)
  PROVE  Sound'
<1>1. PICK x : x = CountOf(stack)
  OBVIOUS
<1>2. /\ x \in Nat /\ DOMAIN stack = 0 .. x - 1 /\ IsTable(stack, StackRow) /\ extstacks \in Nat
      /\ bytes \in Nat /\ AddTask(prio, 1, x)
  BY <1>1 DEF Sound, StacksOwned, IsTable, AddExtendedTask
<1>3. x \in Nat \union {None} /\ 1 \in Int
  BY <1>2
<1>4. PICK a \in Nat : a = 1 /\ Added(exe, exe', NewExe(prio, a, None, x))
  BY <1>2, <1>3, AddTaskKeeps
<1>5. PICK y : y = exe'
  OBVIOUS
<1>6. PICK n \in Nat : n = CountOf(exe) /\ n = ntask /\ n >= 1 /\ ntask' = n + 1
  BY <1>2 DEF AddTask, Sound, TablesType, IsTable
<1>7. DOMAIN exe = 0 .. n - 1 /\ DOMAIN y = 0 .. n /\ \A i \in 0 .. n - 1 : y[i] = exe[i]
  BY <1>4, <1>5, <1>6 DEF Added, IsTable
<1>8. y[n].extended = x /\ y[n].maxact = 1
  BY <1>4, <1>5, <1>6 DEF Added, NewExe
<1>9. PICK len \in Nat : len = StackRound(bytes)
  BY <1>2, RoundNotNegative
<1>10. PICK c \in Nat : c = Canary
  BY ConfigAssumption
<1>11. PICK top \in Nat : top = extstacks + len + c
  BY <1>2, <1>9, <1>10
<1>12. PICK row : row = Stack(bytes)
  OBVIOUS
<1>13. row = [base |-> extstacks, len |-> len, sp |-> top]
  BY <1>9, <1>10, <1>11, <1>12 DEF Stack
<1>14. PICK st : st = stack'
  OBVIOUS
<1>15. st = Append1(stack, row) /\ extstacks' = top /\ row \in StackRow
  <2>1. /\ stack' = Append1(stack, Stack(bytes))
        /\ extstacks' = extstacks + StackRound(bytes) + Canary
    BY DEF AddExtendedTask
  <2>2. row \in StackRow
    BY <1>2, <1>13 DEF StackRow
  <2> QED
    BY <1>9, <1>10, <1>11, <1>12, <1>14, <2>1, <2>2
<1>16. /\ IsTable(st, StackRow) /\ CountOf(st) = x + 1
       /\ st[x] = row /\ \A i \in 0 .. x - 1 : st[i] = stack[i]
  BY <1>1, <1>2, <1>15, TableGrows
<1>17. DOMAIN st = 0 .. x
  BY <1>2, <1>16 DEF IsTable
<1>18. StacksOwned'
  <2>1. ASSUME NEW e \in 0 .. n, y[e].extended # None
        PROVE  e \in 1 .. n /\ y[e].extended \in 0 .. x
    <3>1. CASE e = n
      BY <1>2, <1>6, <1>8, <3>1
    <3>2. CASE e # n
      <4>1. e \in DOMAIN exe /\ exe[e].extended # None /\ y[e] = exe[e]
        BY <1>7, <2>1, <3>2
      <4>2. e \in 1 .. ntask - 1 /\ exe[e].extended \in DOMAIN stack
        BY <4>1 DEF Sound, StacksOwned
      <4> QED
        BY <1>2, <1>6, <4>1, <4>2
    <3> QED
      BY <3>1, <3>2
  <2> QED
    BY <1>5, <1>6, <1>7, <1>14, <1>15, <1>16, <1>17, <2>1 DEF StacksOwned
<1>19. StacksSound'
  <2>1. ASSUME NEW e \in 0 .. n, NEW f \in 0 .. n, y[e].extended # None,
               y[e].extended = y[f].extended
        PROVE  e = f
    <3>1. \A i \in 0 .. n - 1 : y[i].extended # None => y[i].extended \in 0 .. x - 1
      BY <1>2, <1>7 DEF Sound, StacksOwned
    <3>2. x \notin 0 .. x - 1
      BY <1>2
    <3>3. e = n <=> f = n
      <4>1. e # n => e \in 0 .. n - 1
        OBVIOUS
      <4>2. f # n => f \in 0 .. n - 1
        OBVIOUS
      <4> QED
        BY <1>8, <2>1, <3>1, <3>2, <4>1, <4>2
    <3>4. CASE e # n /\ f # n
      <4>1. e \in 0 .. n - 1 /\ f \in 0 .. n - 1
        BY <3>4
      <4> QED
        BY <1>7, <2>1, <4>1 DEF Sound, StacksSound
    <3> QED
      BY <3>3, <3>4
  <2>2. ASSUME NEW k \in 0 .. x
        PROVE  \E e \in 1 .. ntask' - 1 : y[e].extended = k /\ y[e].maxact = 1
    <3>1. CASE k = x
      BY <1>6, <1>8, <3>1
    <3>2. CASE k # x
      <4>1. k \in DOMAIN stack
        BY <1>2, <3>2
      <4>2. PICK e \in 1 .. ntask - 1 : exe[e].extended = k /\ exe[e].maxact = 1
        BY <4>1 DEF Sound, StacksSound
      <4>3. e \in 1 .. ntask' - 1 /\ y[e] = exe[e]
        BY <1>6, <1>7
      <4> QED
        BY <4>2, <4>3
    <3> QED
      BY <3>1, <3>2
  <2>3. \A k \in DOMAIN stack :
          /\ stack[k].sp - stack[k].base >= stack[k].len + c
          /\ stack[k].sp <= extstacks
          /\ \A m \in DOMAIN stack : k < m => stack[k].sp <= stack[m].base
    BY <1>10 DEF Sound, StacksSound
  <2>4. \A k \in 0 .. x - 1 : stack[k].sp \in Nat
    BY <1>1, <1>2 DEF IsTable, StackRow
  <2>5. st[x].base = extstacks /\ st[x].len = len /\ st[x].sp = top
    BY <1>13, <1>16
  <2>6. ASSUME NEW k \in 0 .. x
        PROVE  /\ st[k].sp - st[k].base >= st[k].len + c
               /\ st[k].sp <= top
               /\ \A m \in 0 .. x : k < m => st[k].sp <= st[m].base
    <3>1. CASE k = x
      BY <1>2, <1>9, <1>10, <1>11, <2>5, <3>1
    <3>2. CASE k # x
      <4>1. k \in 0 .. x - 1 /\ st[k] = stack[k] /\ stack[k].sp \in Nat
        BY <1>2, <1>16, <2>4, <3>2
      <4>2. /\ stack[k].sp - stack[k].base >= stack[k].len + c
            /\ stack[k].sp <= extstacks
            /\ \A m \in 0 .. x - 1 : k < m => stack[k].sp <= stack[m].base
        BY <1>2, <2>3, <4>1
      <4>3. st[k].sp <= top
        BY <1>2, <1>11, <4>1, <4>2
      <4>4. ASSUME NEW m \in 0 .. x, k < m PROVE st[k].sp <= st[m].base
        <5>1. CASE m = x
          BY <2>5, <4>1, <4>2, <5>1
        <5>2. CASE m # x
          BY <1>2, <1>16, <4>1, <4>2, <4>4, <5>2
        <5> QED
          BY <5>1, <5>2
      <4> QED
        BY <4>1, <4>2, <4>3, <4>4
    <3> QED
      BY <3>1, <3>2
  <2> QED
    BY <1>5, <1>7, <1>10, <1>14, <1>15, <1>17, <2>1, <2>2, <2>6 DEF StacksSound
<1>20. /\ TablesType' /\ PrioritiesApart' /\ VectorsPaired' /\ GroupsShare'
       /\ SlotsCounted' /\ LevelsLater' /\ QueuesSound' /\ LevelsSound'
       /\ MutexesLast' /\ CeilingsSound'
  BY <1>2, <1>3, AddTaskKeeps
<1> QED
  BY <1>18, <1>19, <1>20 DEF Sound

LEMMA EndTasksKeeps ==
  ASSUME Sound, EndTasks
  PROVE  Sound'
<1>1. /\ phase = "tasks" /\ phase' = "isrs"
      /\ UNCHANGED <<exeVars, irqVars, tableVars, groupVars, mutex, stackVars, panic>>
  BY DEF EndTasks
<1>2. /\ exe' = exe /\ ntask' = ntask /\ maxtaskprio' = maxtaskprio /\ nslots' = nslots
      /\ vector' = vector /\ level' = level /\ group' = group /\ groups' = groups
      /\ mutex' = mutex /\ stack' = stack /\ extstacks' = extstacks
  BY <1>1 DEF exeVars, irqVars, tableVars, groupVars, stackVars
<1>3. GroupsShare' /\ MutexesLast' /\ CeilingsSound' /\ QueuesSound' /\ LevelsSound'
  <2>1. group = None /\ groups = {} /\ DOMAIN mutex = {}
    BY <1>1 DEF Sound, GroupsShare, MutexesLast
  <2> QED
    BY <1>1, <1>2, <2>1, Preparing
<1>4. TablesType'
  BY <1>1, <1>2 DEF Sound, TablesType
<1>5. PrioritiesApart'
  BY <1>2 DEF Sound, PrioritiesApart
<1>6. VectorsPaired'
  BY <1>2 DEF Sound, VectorsPaired, Isr
<1>7. SlotsCounted'
  BY <1>2 DEF Sound, SlotsCounted
<1>8. LevelsLater'
  BY <1>1, <1>2 DEF Sound, LevelsLater
<1>9. StacksOwned' /\ StacksSound'
  BY <1>2 DEF Sound, StacksOwned, StacksSound
<1> QED
  BY <1>3, <1>4, <1>5, <1>6, <1>7, <1>8, <1>9 DEF Sound

LEMMA AddIsrKeeps ==
  ASSUME Sound, NEW irq \in Irq, NEW prio \in Int, AddIsr(irq, prio)
  PROVE  Sound'
<1>1. /\ phase = "isrs" /\ prio > maxtaskprio /\ vector[irq] = None
      /\ AddExe(prio, 1, irq, None)
      /\ vector' = [vector EXCEPT ![irq] = CountOf(exe)]
  BY DEF AddIsr, IsVectorFree
<1>2. /\ phase' = phase /\ ntask' = ntask /\ maxtaskprio' = maxtaskprio /\ level' = level
      /\ group' = group /\ groups' = groups /\ mutex' = mutex /\ stack' = stack
      /\ extstacks' = extstacks
  BY DEF AddIsr, tableVars, groupVars, stackVars
<1>3. prio \in 1 .. MaxPrio - 1 /\ MaxPrio \in Nat /\ maxtaskprio \in 0 .. MaxPrio - 1
  BY <1>1, ConfigAssumption DEF AddExe, Sound, TablesType
<1>4. irq \in Irq \union {None} /\ None \in Nat \union {None} /\ 1 \in Nat
  OBVIOUS
<1>5. /\ Added(exe, exe', NewExe(prio, 1, irq, None))
      /\ nslots' \in [Queue -> Nat] /\ SlotsCounted'
  BY <1>1, <1>3, <1>4, ExeAdded DEF Sound
<1>6. PICK n \in Nat : n = CountOf(exe)
  BY DEF Sound, TablesType, IsTable
<1>7. PICK y : y = exe'
  OBVIOUS
<1>8. /\ exe \in [0 .. n - 1 -> Executable] /\ ntask \in 1 .. n
      /\ vector \in [Irq -> Nat \union {None}] /\ IsTable(mutex, MutexRow)
  BY <1>6 DEF Sound, TablesType, IsTable
<1>9. /\ IsTable(y, Executable) /\ CountOf(y) = n + 1 /\ y \in [0 .. n -> Executable]
      /\ \A i \in 0 .. n - 1 : y[i] = exe[i]
  BY <1>5, <1>6, <1>7, <1>8 DEF Added, IsTable
<1>10. /\ y[n].base = prio /\ y[n].run = prio /\ y[n].maxact = 1 /\ y[n].irq = irq
       /\ y[n].extended = None
  BY <1>5, <1>6, <1>7 DEF Added, NewExe
<1>11. vector' = [vector EXCEPT ![irq] = n] /\ vector' \in [Irq -> Nat \union {None}]
  BY <1>1, <1>6, <1>8
<1>12. TablesType'
  <2>1. ntask' \in 1 .. CountOf(exe')
    BY <1>2, <1>7, <1>8, <1>9
  <2> QED
    BY <1>1, <1>2, <1>3, <1>5, <1>7, <1>8, <1>9, <1>11, <2>1 DEF TablesType
<1>13. PrioritiesApart'
  <2>1. exe[0].base = 0 /\ exe[0].run = 0 /\ y[0] = exe[0]
    BY <1>8, <1>9 DEF Sound, PrioritiesApart
  <2>2. DOMAIN y = 0 .. n
    BY <1>9
  <2>3. ASSUME NEW e \in 0 .. n
        PROVE  /\ e # 0 => y[e].base \in 1 .. MaxPrio - 1 /\ y[e].maxact >= 1
               /\ y[e].run \in y[e].base .. MaxPrio - 1
               /\ e < ntask <=> y[e].base <= maxtaskprio
    <3>1. CASE e = n
      <4>1. ~(n < ntask) /\ ~(prio <= maxtaskprio)
        BY <1>1, <1>3, <1>8
      <4> QED
        BY <1>3, <1>10, <3>1, <4>1
    <3>2. CASE e # n
      <4>1. e \in DOMAIN exe /\ y[e] = exe[e]
        BY <1>8, <1>9, <3>2
      <4> QED
        BY <4>1 DEF Sound, PrioritiesApart
    <3> QED
      BY <3>1, <3>2
  <2> QED
    BY <1>2, <1>7, <2>1, <2>2, <2>3 DEF PrioritiesApart
<1>14. VectorsPaired'
  <2>1. Isr = ntask .. n - 1 /\ Isr' = ntask .. n
    BY <1>2, <1>7, <1>8, <1>9 DEF Isr
  <2>2. PICK v : v = vector'
    OBVIOUS
  <2>3. /\ v[irq] = n /\ \A i \in Irq : i # irq => v[i] = vector[i]
    BY <1>8, <1>11, <2>2
  <2>4. None \notin Nat
    BY ConfigAssumption
  <2>5. ASSUME NEW i \in Irq, v[i] # None
        PROVE  v[i] \in ntask .. n /\ y[v[i]].irq = i
    <3>1. CASE i = irq
      BY <1>8, <1>10, <2>3, <3>1
    <3>2. CASE i # irq
      <4>1. vector[i] \in ntask .. n - 1 /\ exe[vector[i]].irq = i /\ v[i] = vector[i]
        BY <2>1, <2>3, <2>5, <3>2 DEF Sound, VectorsPaired
      <4> QED
        BY <1>8, <1>9, <4>1
    <3> QED
      BY <3>1, <3>2
  <2>6. ASSUME NEW e \in ntask .. n
        PROVE  y[e].irq \in Irq /\ v[y[e].irq] = e
    <3>1. CASE e = n
      BY <1>10, <2>3, <3>1
    <3>2. CASE e # n
      <4>1. e \in ntask .. n - 1 /\ e \in 0 .. n - 1 /\ y[e] = exe[e]
        BY <1>8, <1>9, <3>2
      <4>2. exe[e].irq \in Irq /\ vector[exe[e].irq] = e
        BY <2>1, <4>1 DEF Sound, VectorsPaired
      <4>3. exe[e].irq # irq
        BY <1>1, <2>4, <4>1, <4>2
      <4> QED
        BY <2>3, <4>1, <4>2, <4>3
    <3> QED
      BY <3>1, <3>2
  <2> QED
    BY <1>7, <2>1, <2>2, <2>5, <2>6 DEF VectorsPaired
<1>15. GroupsShare' /\ MutexesLast' /\ CeilingsSound' /\ QueuesSound' /\ LevelsSound'
  <2>1. group = None /\ groups = {} /\ DOMAIN mutex = {}
    BY <1>1 DEF Sound, GroupsShare, MutexesLast
  <2> QED
    BY <1>1, <1>2, <2>1, Preparing
<1>16. LevelsLater'
  BY <1>2 DEF Sound, LevelsLater
<1>17. StacksOwned'
  <2>1. ASSUME NEW e \in 0 .. n, y[e].extended # None
        PROVE  e \in 1 .. ntask - 1 /\ y[e].extended \in DOMAIN stack
    <3>1. e \in DOMAIN exe /\ y[e] = exe[e]
      BY <1>8, <1>9, <1>10, <2>1
    <3> QED
      BY <2>1, <3>1 DEF Sound, StacksOwned
  <2>2. IsTable(stack, StackRow) /\ extstacks \in Nat
    BY DEF Sound, StacksOwned
  <2> QED
    BY <1>2, <1>7, <1>9, <2>1, <2>2 DEF StacksOwned
<1>18. StacksSound'
  <2>1. ASSUME NEW e \in 0 .. n, NEW f \in 0 .. n, y[e].extended # None,
               y[e].extended = y[f].extended
        PROVE  e = f
    <3>1. e \in 0 .. n - 1 /\ f \in 0 .. n - 1
      BY <1>10, <2>1
    <3> QED
      BY <1>8, <1>9, <2>1, <3>1 DEF Sound, StacksSound
  <2>2. ASSUME NEW k \in DOMAIN stack
        PROVE  \E e \in 1 .. ntask - 1 : y[e].extended = k /\ y[e].maxact = 1
    <3>1. PICK e \in 1 .. ntask - 1 : exe[e].extended = k /\ exe[e].maxact = 1
      BY DEF Sound, StacksSound
    <3>2. y[e] = exe[e]
      BY <1>8, <1>9
    <3> QED
      BY <3>1, <3>2
  <2>3. \A k \in DOMAIN stack :
          /\ stack[k].sp - stack[k].base >= stack[k].len + Canary
          /\ stack[k].sp <= extstacks
          /\ \A m \in DOMAIN stack : k < m => stack[k].sp <= stack[m].base
    BY DEF Sound, StacksSound
  <2> QED
    BY <1>2, <1>7, <1>9, <2>1, <2>2, <2>3 DEF StacksSound
<1> QED
  BY <1>5, <1>12, <1>13, <1>14, <1>15, <1>16, <1>17, <1>18 DEF Sound

\* dv_createqueues()
LEMMA QueuesCreated ==
  ASSUME TablesType, SlotsCounted, CreateQueues, ~panic'
  PROVE  /\ \A q, r1 \in Queue : q < r1 => first'[q] + nslots[q] <= first'[r1]
         /\ \A q \in Queue : first'[q] >= 0 /\ first'[q] + nslots[q] <= SlotLimit
<1>1. PICK n : n = MaxPrio + 2
  OBVIOUS
<1>2. n \in Nat /\ Queue = 0 .. n - 1
  BY <1>1, ConfigAssumption DEF Queue
<1>3. PICK s : s = SumsOf(nslots, n)
  OBVIOUS
<1>4. nslots \in [0 .. n - 1 -> Nat]
  BY <1>2 DEF TablesType
<1>5. Sums(s, nslots, n)
  BY <1>2, <1>3, <1>4, SumsDefined
<1>6. PICK f : f = first'
  OBVIOUS
<1>7. (\A q \in Queue : f[q] = s[q]) /\ s[n] <= SlotLimit
  <2>1. \A q : SlotsBefore(q) = s[q]
    BY <1>1, <1>3 DEF SlotsBefore
  <2>2. first' = [q \in Queue |-> SlotsBefore(q)]
    BY DEF CreateQueues
  <2>3. ~(SlotsBefore(n) > SlotLimit)
    BY <1>1 DEF CreateQueues
  <2>4. s[n] \in Nat /\ SlotLimit \in Nat
    BY <1>2, <1>5, ConfigAssumption DEF Sums
  <2> QED
    BY <1>6, <2>1, <2>2, <2>3, <2>4
<1>8. ASSUME NEW q \in Queue
      PROVE  q + 1 \in 0 .. n /\ s[q + 1] = f[q] + nslots[q] /\ f[q] \in Nat /\ nslots[q] \in Nat
  BY <1>2, <1>4, <1>5, <1>7 DEF Sums
<1>9. ASSUME NEW q \in Queue, NEW r1 \in Queue, q < r1
      PROVE  f[q] + nslots[q] <= f[r1]
  <2>1. PICK i \in 0 .. n : i = q + 1
    BY <1>8
  <2>2. r1 \in 0 .. n /\ i <= r1
    BY <1>2, <1>9, <2>1
  <2>3. s[i] <= s[r1]
    BY <1>5, <2>2, SumsGrow
  <2> QED
    BY <1>7, <1>8, <2>1, <2>3
<1>10. ASSUME NEW q \in Queue
       PROVE  f[q] >= 0 /\ f[q] + nslots[q] <= SlotLimit
  <2>1. PICK i \in 0 .. n : i = q + 1
    BY <1>8
  <2>2. n \in 0 .. n /\ i <= n
    BY <1>2, <2>1
  <2>3. s[i] <= s[n]
    BY <1>5, <2>2, SumsGrow
  <2>4. SlotLimit \in Nat /\ s[i] \in Nat /\ s[n] \in Nat
    BY <1>5, <2>2, ConfigAssumption DEF Sums
  <2> QED
    BY <1>7, <1>8, <2>1, <2>3, <2>4
<1> QED
  BY <1>6, <1>9, <1>10

\* dv_calculatelevels()
LEMMA LevelsCalculated ==
  ASSUME Sound, phase = "isrs", CalculateLevels,
         NEW p \in {exe[e].base : e \in DOMAIN exe} \union {MaxPrio}, NEW i \in Isr
  PROVE  irqlevel'[exe[i].irq] >= level'[p] <=> exe[i].base >= p
<1>1. PICK n : n = MaxPrio + 2
  OBVIOUS
<1>2. n \in Nat /\ Queue = 0 .. n - 1 /\ MaxPrio \in Nat /\ maxtaskprio \in 0 .. MaxPrio - 1
  BY <1>1, ConfigAssumption DEF Queue, Sound, TablesType
<1>3. PICK taken : taken = Taken
  OBVIOUS
<1>4. taken = [q \in 0 .. n - 1 |-> IF q > maxtaskprio /\ HasIsr(q) THEN 1 ELSE 0]
  BY <1>2, <1>3 DEF Taken
<1>5. taken \in [0 .. n - 1 -> Nat]
  BY <1>4
<1>6. PICK s : s = SumsOf(taken, n)
  OBVIOUS
<1>7. Sums(s, taken, n)
  BY <1>2, <1>5, <1>6, SumsDefined
<1>8. \A q : Level(q) = 1 + s[q]
  BY <1>1, <1>3, <1>6 DEF Level
<1>9. i \in DOMAIN exe /\ i >= ntask /\ i \in Nat /\ ntask \in Nat /\ ntask >= 1
  BY DEF Isr, Sound, TablesType, IsTable
<1>10. PICK b : b = exe[i].base
  OBVIOUS
<1>11. b \in 1 .. MaxPrio - 1 /\ b > maxtaskprio
  <2>1. exe[i].base \in 1 .. MaxPrio - 1 /\ (i < ntask <=> exe[i].base <= maxtaskprio)
    BY <1>9 DEF Sound, PrioritiesApart
  <2> QED
    BY <1>2, <1>9, <1>10, <2>1
<1>12. exe[i].irq \in Irq /\ vector[exe[i].irq] = i /\ i # None
  BY <1>9, ConfigAssumption DEF Sound, VectorsPaired
<1>13. irqlevel'[exe[i].irq] = 1 + s[b]
  BY <1>8, <1>10, <1>12 DEF CalculateLevels
<1>14. p \in 0 .. MaxPrio
  <2>1. CASE p = MaxPrio
    BY <1>2, <2>1
  <2>2. CASE p # MaxPrio
    <3>1. PICK e \in DOMAIN exe : p = exe[e].base
      BY <2>2
    <3>2. exe[e].base = 0 \/ exe[e].base \in 1 .. MaxPrio - 1
      BY <3>1 DEF Sound, PrioritiesApart
    <3> QED
      BY <1>2, <3>1, <3>2
  <2> QED
    BY <2>1, <2>2
<1>15. p \in Queue /\ p \in 0 .. n /\ b \in 0 .. n - 1 /\ b + 1 \in 0 .. n /\ b \in 0 .. n
  BY <1>1, <1>2, <1>11, <1>14
<1>16. s[p] \in Nat /\ s[b] \in Nat
  BY <1>7, <1>15 DEF Sums
<1>17. CASE p <= maxtaskprio
  <2>1. level'[p] = 0
    <3>1. level[p] = 0
      BY <1>15 DEF Sound, LevelsLater
    <3>2. p \notin maxtaskprio + 1 .. MaxPrio
      BY <1>2, <1>14, <1>17
    <3> QED
      BY <1>15, <3>1, <3>2 DEF CalculateLevels
  <2> QED
    BY <1>2, <1>10, <1>11, <1>13, <1>14, <1>16, <1>17, <2>1
<1>18. CASE ~(p <= maxtaskprio)
  <2>1. level'[p] = 1 + s[p]
    <3>1. p \in maxtaskprio + 1 .. MaxPrio
      BY <1>2, <1>14, <1>18
    <3> QED
      BY <1>8, <1>15, <3>1 DEF CalculateLevels
  <2>2. CASE b >= p
    <3>1. p <= b
      BY <1>11, <1>14, <2>2
    <3>2. s[p] <= s[b]
      BY <1>7, <1>15, <3>1, SumsGrow
    <3> QED
      BY <1>10, <1>13, <1>16, <2>1, <2>2, <3>2
  <2>3. CASE ~(b >= p)
    <3>1. PICK c \in 0 .. n : c = b + 1
      BY <1>15
    <3>2. c <= p
      BY <1>11, <1>14, <2>3, <3>1
    <3>3. s[c] <= s[p]
      BY <1>7, <1>15, <3>2, SumsGrow
    <3>4. HasIsr(b)
      BY <1>10 DEF HasIsr
    <3>5. taken[b] = 1
      BY <1>4, <1>11, <1>15, <3>4
    <3>6. s[c] = s[b] + 1
      BY <1>7, <1>15, <3>1, <3>5 DEF Sums
    <3> QED
      BY <1>10, <1>13, <1>16, <2>1, <2>3, <3>3, <3>6
  <2> QED
    BY <2>2, <2>3
<1> QED
  BY <1>17, <1>18

LEMMA EndIsrsKeeps ==
  ASSUME Sound, EndIsrs
  PROVE  Sound'
<1>1. /\ phase = "isrs" /\ CreateQueues /\ CalculateLevels
      /\ phase' = (IF panic' THEN "halted" ELSE "groups")
  BY DEF EndIsrs
<1>2. /\ exe' = exe /\ ntask' = ntask /\ maxtaskprio' = maxtaskprio /\ nslots' = nslots
      /\ vector' = vector /\ group' = group /\ groups' = groups
      /\ mutex' = mutex /\ stack' = stack /\ extstacks' = extstacks
  BY DEF EndIsrs, exeVars, groupVars, stackVars
<1>3. group = None /\ groups = {} /\ DOMAIN mutex = {}
  BY <1>1 DEF Sound, GroupsShare, MutexesLast
<1>4. phase' = "halted" \/ phase' = "groups"
  BY <1>1
<1>5. GroupsShare'
  BY <1>2, <1>3 DEF GroupsShare
<1>6. MutexesLast' /\ CeilingsSound'
  BY <1>2, <1>3 DEF MutexesLast, CeilingsSound
<1>7. TablesType'
  BY <1>2, <1>4 DEF Sound, TablesType
<1>8. PrioritiesApart'
  BY <1>2 DEF Sound, PrioritiesApart
<1>9. VectorsPaired'
  BY <1>2 DEF Sound, VectorsPaired, Isr
<1>10. SlotsCounted'
  BY <1>2 DEF Sound, SlotsCounted
<1>11. LevelsLater'
  BY <1>4 DEF LevelsLater
<1>12. StacksOwned' /\ StacksSound'
  BY <1>2 DEF Sound, StacksOwned, StacksSound
<1>13. QueuesSound'
  <2> SUFFICES ASSUME Queued' PROVE QueuesSound'
    BY DEF QueuesSound
  <2>1. ~panic'
    BY <1>1, <1>4 DEF Queued
  <2>2. /\ \A q, r1 \in Queue : q < r1 => first'[q] + nslots[q] <= first'[r1]
        /\ \A q \in Queue : first'[q] >= 0 /\ first'[q] + nslots[q] <= SlotLimit
    BY <1>1, <2>1, QueuesCreated DEF Sound
  <2>3. \A p \in 0 .. MaxPrio :
          nslots[p] = 2 + SumsOf([e \in DOMAIN exe |-> IF exe[e].base = p
                                                       THEN exe[e].maxact ELSE 0],
                                 CountOf(exe))[CountOf(exe)]
    BY DEF Sound, SlotsCounted, Total, Acts
  <2> QED
    BY <1>2, <2>2, <2>3 DEF QueuesSound
<1>14. LevelsSound'
  <2>1. \A p \in {exe[e].base : e \in DOMAIN exe} \union {MaxPrio} :
          \A i \in Isr : irqlevel'[exe[i].irq] >= level'[p] <=> exe[i].base >= p
    BY <1>1, LevelsCalculated
  <2>2. Isr' = Isr
    BY <1>2 DEF Isr
  <2> QED
    BY <1>2, <2>1, <2>2 DEF LevelsSound
<1> QED
  BY <1>5, <1>6, <1>7, <1>8, <1>9, <1>10, <1>11, <1>12, <1>13, <1>14 DEF Sound

\* Where the executables and what belongs to them stay as they are
LEMMA TablesStay ==
  ASSUME Sound, UNCHANGED <<exeVars, irqVars, tableVars, stackVars>>,
         phase \in {"groups", "mutexes"}, phase' \in {"groups", "mutexes", "started"},
         IsTable(mutex', MutexRow)
  PROVE  /\ TablesType' /\ PrioritiesApart' /\ VectorsPaired' /\ SlotsCounted' /\ LevelsLater'
         /\ QueuesSound' /\ LevelsSound' /\ StacksOwned' /\ StacksSound'
<1>1. /\ exe' = exe /\ ntask' = ntask /\ maxtaskprio' = maxtaskprio /\ nslots' = nslots
      /\ vector' = vector /\ irqlevel' = irqlevel /\ first' = first /\ level' = level
      /\ stack' = stack /\ extstacks' = extstacks
  BY DEF exeVars, irqVars, tableVars, stackVars
<1>2. TablesType'
  BY <1>1 DEF Sound, TablesType
<1>3. PrioritiesApart'
  BY <1>1 DEF Sound, PrioritiesApart
<1>4. VectorsPaired'
  BY <1>1 DEF Sound, VectorsPaired, Isr
<1>5. SlotsCounted' /\ LevelsLater'
  BY <1>1 DEF Sound, SlotsCounted, LevelsLater
<1>6. Queued
  BY DEF Queued
<1>7. QueuesSound'
  BY <1>1, <1>6 DEF Sound, QueuesSound
<1>8. LevelsSound'
  <2>1. Isr' = Isr
    BY <1>1 DEF Isr
  <2> QED
    BY <1>1, <1>6, <2>1 DEF Sound, LevelsSound
<1>9. StacksOwned' /\ StacksSound'
  BY <1>1 DEF Sound, StacksOwned, StacksSound
<1> QED
  BY <1>2, <1>3, <1>4, <1>5, <1>7, <1>8, <1>9

\* A step of callout_addgroups() that only notes something
LEMMA NotingGroup ==
  ASSUME Sound, phase = "groups", phase' = "groups", groups' = groups,
         UNCHANGED <<exeVars, irqVars, tableVars, mutex, stackVars>>,
         group' # None => Members(group')
  PROVE  Sound'
<1>1. /\ exe' = exe /\ ntask' = ntask /\ mutex' = mutex
      /\ UNCHANGED <<exeVars, irqVars, tableVars, stackVars>>
  BY DEF exeVars
<1>2. IsTable(mutex', MutexRow) /\ DOMAIN mutex = {}
  BY <1>1 DEF Sound, TablesType, MutexesLast
<1>3. /\ TablesType' /\ PrioritiesApart' /\ VectorsPaired' /\ SlotsCounted' /\ LevelsLater'
      /\ QueuesSound' /\ LevelsSound' /\ StacksOwned' /\ StacksSound'
  BY <1>1, <1>2, TablesStay
<1>4. MutexesLast' /\ CeilingsSound'
  BY <1>1, <1>2 DEF MutexesLast, CeilingsSound
<1>5. GroupsShare'
  <2>1. Isr' = Isr
    BY <1>1 DEF Isr
  <2>2. ASSUME NEW g, Members(g) PROVE Members(g)'
    BY <1>1, <2>1, <2>2 DEF Members
  <2>3. ASSUME NEW g, Shares(g) PROVE Shares(g)'
    BY <1>1, <2>1, <2>3 DEF Shares
  <2>4. group' # None => Members(group)'
    <3>1. PICK g : g = group'
      OBVIOUS
    <3>2. g # None => Members(g)'
      BY <2>2, <3>1
    <3> QED
      BY <3>1, <3>2 DEF Members
  <2>5. \A g \in groups' : Members(g)' /\ Shares(g)'
    BY <2>2, <2>3 DEF Sound, GroupsShare
  <2> QED
    BY <2>4, <2>5 DEF GroupsShare
<1> QED
  BY <1>3, <1>4, <1>5 DEF Sound

LEMMA StartGroupKeeps ==
  ASSUME Sound, NEW nopreempt \in BOOLEAN, StartGroup(nopreempt)
  PROVE  Sound'
<1>1. /\ phase = "groups" /\ phase' = "groups" /\ groups' = groups
      /\ UNCHANGED <<exeVars, irqVars, tableVars, mutex, stackVars>>
      /\ group' = [nopreempt |-> nopreempt, members |-> {}]
  BY DEF StartGroup
<1>2. Members(group')
  BY <1>1 DEF Members, GroupRow
<1> QED
  BY <1>1, <1>2, NotingGroup

LEMMA AddToGroupKeeps ==
  ASSUME Sound, NEW e \in Nat, AddToGroup(e)
  PROVE  Sound'
<1>1. /\ phase = "groups" /\ phase' = "groups" /\ groups' = groups /\ group # None
      /\ UNCHANGED <<exeVars, irqVars, tableVars, mutex, stackVars>>
      /\ e >= 1 /\ e < CountOf(exe) /\ ~(group.nopreempt /\ e >= ntask)
      /\ group' = [group EXCEPT !.members = @ \union {e}]
  BY DEF AddToGroup
<1>2. Members(group)
  BY <1>1 DEF Sound, GroupsShare
<1>3. e \in DOMAIN exe \ {0}
  BY <1>1 DEF Sound, TablesType, IsTable
<1>4. /\ group' \in GroupRow /\ group'.members = group.members \union {e}
      /\ group'.nopreempt = group.nopreempt
  BY <1>1, <1>2 DEF Members, GroupRow
<1>5. group.nopreempt => e \in DOMAIN exe \ Isr
  BY <1>1, <1>3 DEF Isr
<1>6. Members(group')
  BY <1>2, <1>3, <1>4, <1>5 DEF Members
<1> QED
  BY <1>1, <1>6, NotingGroup

\* The largest of some numbers up to a bound
LEMMA LargestOf ==
  ASSUME NEW n \in Nat, NEW S \in SUBSET (0 .. n), S # {}
  PROVE  Max(S) \in S /\ \A x \in S : Max(S) >= x
<1>1. PICK T : T = {d \in Nat : d <= n /\ n - d \in S}
  OBVIOUS
<1>2. T \in SUBSET Nat /\ T # {}
  <2>1. PICK x \in S : x \in 0 .. n
    OBVIOUS
  <2>2. PICK d \in Nat : d = n - x /\ d <= n /\ n - d = x
    BY <2>1
  <2>3. d \in T
    BY <1>1, <2>2
  <2> QED
    BY <1>1, <2>3
<1>3. PICK d \in T : \A c \in T : d <= c
  BY <1>2, LeastOne
<1>4. d \in Nat /\ d <= n /\ n - d \in S
  BY <1>1
<1>5. ASSUME NEW y \in S PROVE n - d >= y
  <2>1. y \in 0 .. n
    OBVIOUS
  <2>2. PICK c \in Nat : c = n - y /\ c <= n /\ n - c = y
    BY <2>1
  <2>3. c \in T
    BY <1>1, <2>2
  <2> QED
    BY <1>3, <1>4, <2>1, <2>2, <2>3
<1>6. \E x \in S : \A y \in S : x >= y
  BY <1>4, <1>5
<1> QED
  BY <1>6 DEF Max

\* dv_finishgroup() finds a priority that an executable can have.
LEMMA GroupPrioReaches ==
  ASSUME Sound, Members(group)
  PROVE  /\ GroupPrio \in 0 .. MaxPrio - 1
         /\ \A e \in Rivals : e \in DOMAIN exe /\ GroupPrio >= exe[e].base
<1>1. PICK n \in Nat : n = CountOf(exe) /\ DOMAIN exe = 0 .. n - 1 /\ ntask \in 1 .. n
  BY DEF Sound, TablesType, IsTable
<1>2. Rivals \subseteq DOMAIN exe
  BY <1>1 DEF Rivals, Members
<1>3. PICK m \in Nat : m = MaxPrio - 1
  BY ConfigAssumption
<1>4. PICK S : S = {0} \union {exe[e].base : e \in Rivals}
  OBVIOUS
<1>5. \A e \in DOMAIN exe : exe[e].base \in 0 .. m
  BY <1>3 DEF Sound, PrioritiesApart
<1>6. S \in SUBSET (0 .. m) /\ S # {}
  BY <1>2, <1>4, <1>5
<1>7. Max(S) \in S /\ \A x \in S : Max(S) >= x
  BY <1>6, LargestOf
<1>8. GroupPrio = Max(S)
  BY <1>4 DEF GroupPrio
<1> QED
  BY <1>2, <1>3, <1>4, <1>6, <1>7, <1>8

LEMMA FinishGroupKeeps ==
  ASSUME Sound, FinishGroup
  PROVE  Sound'
<1>1. /\ phase = "groups" /\ phase' = "groups" /\ group # None /\ group' = None
      /\ groups' = groups \union {group}
      /\ exe' = [e \in DOMAIN exe |-> IF e \in group.members /\ exe[e].run < GroupPrio
                                      THEN [exe[e] EXCEPT !.run = GroupPrio] ELSE exe[e]]
  BY DEF FinishGroup
<1>2. /\ ntask' = ntask /\ maxtaskprio' = maxtaskprio /\ nslots' = nslots
      /\ vector' = vector /\ irqlevel' = irqlevel /\ first' = first /\ level' = level
      /\ stack' = stack /\ extstacks' = extstacks /\ mutex' = mutex
  BY DEF FinishGroup, irqVars, tableVars, stackVars
<1>3. Members(group) /\ DOMAIN mutex = {} /\ IsTable(mutex, MutexRow)
  BY <1>1 DEF Sound, GroupsShare, MutexesLast, TablesType
<1>4. PICK h : h = group
  OBVIOUS
<1>5. PICK prio : prio = GroupPrio
  OBVIOUS
<1>6. /\ prio \in 0 .. MaxPrio - 1 /\ MaxPrio \in Nat
      /\ \A e \in Rivals : e \in DOMAIN exe /\ prio >= exe[e].base
  BY <1>3, <1>5, GroupPrioReaches, ConfigAssumption
<1>7. PICK n \in Nat : n = CountOf(exe) /\ exe \in [0 .. n - 1 -> Executable] /\ ntask \in 1 .. n
  BY DEF Sound, TablesType, IsTable
<1>8. PICK y : y = exe'
  OBVIOUS
<1>9. y = [e \in 0 .. n - 1 |-> IF e \in h.members /\ exe[e].run < prio
                                THEN [exe[e] EXCEPT !.run = prio] ELSE exe[e]]
  BY <1>1, <1>4, <1>5, <1>7, <1>8
<1>10. ASSUME NEW e \in 0 .. n - 1
       PROVE  /\ y[e] \in Executable /\ y[e].base = exe[e].base /\ y[e].maxact = exe[e].maxact
              /\ y[e].irq = exe[e].irq /\ y[e].extended = exe[e].extended
              /\ y[e].run \in exe[e].base .. MaxPrio - 1 /\ y[e].run >= exe[e].run
              /\ e \in h.members => y[e].run >= prio
              /\ exe[e].base \in Nat /\ exe[e].run \in Nat
  <2>1. PICK x \in Executable : x = exe[e]
    BY <1>7
  <2>2. x.run \in x.base .. MaxPrio - 1
    BY <1>7, <2>1 DEF Sound, PrioritiesApart
  <2>3. x.base \in Nat /\ x.run \in Nat
    BY DEF Executable
  <2>4. CASE e \in h.members /\ x.run < prio
    <3>1. y[e] = [x EXCEPT !.run = prio]
      BY <1>9, <2>1, <2>4
    <3>2. /\ y[e] \in Executable /\ y[e].base = x.base /\ y[e].maxact = x.maxact
          /\ y[e].irq = x.irq /\ y[e].extended = x.extended /\ y[e].run = prio
      BY <1>6, <3>1 DEF Executable
    <3> QED
      BY <1>6, <2>1, <2>2, <2>3, <2>4, <3>2
  <2>5. CASE ~(e \in h.members /\ x.run < prio)
    <3>1. y[e] = x
      BY <1>9, <2>1, <2>5
    <3>2. e \in h.members => x.run >= prio
      BY <1>6, <2>3, <2>5
    <3> QED
      BY <1>6, <2>1, <2>2, <2>3, <3>1, <3>2
  <2> QED
    BY <2>4, <2>5
<1>11. y \in [0 .. n - 1 -> Executable]
  BY <1>9, <1>10
<1>12. CountOf(y) = n /\ IsTable(y, Executable) /\ DOMAIN y = 0 .. n - 1 /\ DOMAIN exe = 0 .. n - 1
  BY <1>7, <1>11, TableIs
<1>13. Isr' = Isr
  BY <1>2, <1>8, <1>12 DEF Isr
<1>14. TablesType'
  <2>1. /\ ntask \in 1 .. n /\ maxtaskprio \in 0 .. MaxPrio - 1 /\ nslots \in [Queue -> Nat]
        /\ vector \in [Irq -> Nat \union {None}]
    BY <1>7 DEF Sound, TablesType
  <2> QED
    BY <1>1, <1>2, <1>3, <1>8, <1>12, <2>1 DEF TablesType
<1>15. PrioritiesApart'
  <2>1. exe[0].base = 0 /\ exe[0].run = 0 /\ 0 \in 0 .. n - 1
    BY <1>7 DEF Sound, PrioritiesApart
  <2>2. 0 \notin h.members
    BY <1>3, <1>4 DEF Members
  <2>3. y[0].base = 0 /\ y[0].run = 0
    BY <1>9, <2>1, <2>2
  <2>4. ASSUME NEW e \in 0 .. n - 1
        PROVE  /\ e # 0 => y[e].base \in 1 .. MaxPrio - 1 /\ y[e].maxact >= 1
               /\ y[e].run \in y[e].base .. MaxPrio - 1
               /\ e < ntask <=> y[e].base <= maxtaskprio
    <3>1. /\ e # 0 => exe[e].base \in 1 .. MaxPrio - 1 /\ exe[e].maxact >= 1
          /\ e < ntask <=> exe[e].base <= maxtaskprio
      BY <1>12 DEF Sound, PrioritiesApart
    <3> QED
      BY <1>10, <3>1
  <2> QED
    BY <1>2, <1>8, <1>12, <2>3, <2>4 DEF PrioritiesApart
<1>16. VectorsPaired'
  <2>1. ASSUME NEW e \in Isr PROVE e \in 0 .. n - 1 /\ y[e].irq = exe[e].irq
    <3>1. e \in 0 .. n - 1
      BY <1>12 DEF Isr
    <3> QED
      BY <1>10, <3>1
  <2> QED
    BY <1>2, <1>8, <1>13, <2>1 DEF Sound, VectorsPaired
<1>17. GroupsShare'
  <2>1. ASSUME NEW g, Members(g) PROVE Members(g)'
    BY <1>8, <1>12, <1>13, <2>1 DEF Members
  <2>2. \A e \in 0 .. n - 1 : y[e].base = exe[e].base /\ y[e].run >= exe[e].run
    BY <1>10
  <2>3. \A e \in 0 .. n - 1 : exe[e].base \in Nat /\ exe[e].run \in Nat /\ y[e].run \in Nat
    BY <1>10, <1>11 DEF Executable
  <2>4. DOMAIN exe \ Isr = 0 .. ntask - 1 /\ ntask \in 1 .. n
    BY <1>7, <1>12 DEF Isr
  <2>5. ASSUME NEW g, Members(g), Shares(g) PROVE Shares(g)'
    <3>1. g.members \subseteq 0 .. n - 1
      BY <1>12, <2>5 DEF Members
    <3>2. ASSUME NEW e \in g.members, NEW f \in g.members PROVE y[e].run >= y[f].base
      <4>1. exe[e].run >= exe[f].base
        BY <2>5, <3>2 DEF Shares
      <4> QED
        BY <2>2, <2>3, <3>1, <4>1
    <3>3. ASSUME NEW e \in g.members, g.nopreempt, NEW t \in 0 .. ntask - 1
          PROVE  y[e].run >= y[t].base
      <4>1. exe[e].run >= exe[t].base
        BY <2>4, <2>5, <3>3 DEF Shares
      <4> QED
        BY <2>2, <2>3, <2>4, <3>1, <4>1
    <3> QED
      BY <1>8, <1>12, <1>13, <2>4, <3>2, <3>3 DEF Shares
  <2>6. Members(h)
    BY <1>3, <1>4
  <2>7. Shares(h)'
    <3>1. h.members \subseteq 0 .. n - 1 /\ h \in GroupRow
      BY <1>12, <2>6 DEF Members
    <3>2. \A e \in h.members : y[e].run >= prio
      BY <1>10, <3>1
    <3>3. CASE h.nopreempt
      <4>1. Rivals = 1 .. ntask - 1
        BY <1>4, <3>3 DEF Rivals
      <4>2. \A t \in 0 .. ntask - 1 : prio >= exe[t].base
        <5>1. exe[0].base = 0
          BY DEF Sound, PrioritiesApart
        <5> QED
          BY <1>6, <4>1, <5>1
      <4>3. \A t \in 0 .. ntask - 1 : t \in 0 .. n - 1
        BY <2>4
      <4>4. ASSUME NEW e \in h.members, NEW t \in 0 .. ntask - 1
            PROVE  y[e].run >= y[t].base
        BY <1>6, <2>2, <2>3, <3>1, <3>2, <4>2, <4>3
      <4>5. h.members \subseteq 0 .. ntask - 1
        BY <2>4, <2>6, <3>3 DEF Members
      <4> QED
        BY <1>8, <1>12, <1>13, <2>4, <4>4, <4>5 DEF Shares
    <3>4. CASE ~h.nopreempt
      <4>1. Rivals = h.members
        BY <1>4, <3>4 DEF Rivals
      <4>2. ASSUME NEW e \in h.members, NEW f \in h.members
            PROVE  y[e].run >= y[f].base
        BY <1>6, <2>2, <2>3, <3>1, <3>2, <4>1
      <4> QED
        BY <1>8, <3>4, <4>2 DEF Shares
    <3> QED
      BY <3>3, <3>4
  <2>8. \A g \in groups' : Members(g)' /\ Shares(g)'
    <3>1. ASSUME NEW g \in groups PROVE Members(g) /\ Shares(g)
      BY DEF Sound, GroupsShare
    <3>2. \A g \in groups : Members(g)' /\ Shares(g)'
      BY <2>1, <2>5, <3>1
    <3>3. Members(h)'
      BY <2>1, <2>6
    <3>4. groups' = groups \union {h}
      BY <1>1, <1>4
    <3> QED
      BY <2>7, <3>2, <3>3, <3>4
  <2> QED
    BY <1>1, <2>8 DEF GroupsShare
<1>18. \A p \in 0 .. MaxPrio : Total(y, p) = Total(exe, p)
  <2> SUFFICES ASSUME NEW p PROVE Total(y, p) = Total(exe, p)
    OBVIOUS
  <2>1. Acts(y, p) = Acts(exe, p)
    BY <1>10, <1>12 DEF Acts
  <2> QED
    BY <1>7, <1>12, <2>1 DEF Total
<1>19. SlotsCounted'
  BY <1>2, <1>8, <1>18 DEF Sound, SlotsCounted
<1>20. LevelsLater'
  BY <1>1 DEF LevelsLater
<1>21. QueuesSound'
  <2>1. \A p \in 0 .. MaxPrio :
          nslots'[p] = 2 + SumsOf([e \in DOMAIN exe' |-> IF exe'[e].base = p
                                                         THEN exe'[e].maxact ELSE 0],
                                  CountOf(exe'))[CountOf(exe')]
    BY <1>19 DEF SlotsCounted, Total, Acts
  <2>2. /\ \A q, r1 \in Queue : q < r1 => first[q] + nslots[q] <= first[r1]
        /\ \A q \in Queue : first[q] >= 0 /\ first[q] + nslots[q] <= SlotLimit
    BY <1>1 DEF Sound, QueuesSound, Queued
  <2> QED
    BY <1>2, <2>1, <2>2 DEF QueuesSound
<1>22. LevelsSound'
  <2>1. {exe'[e].base : e \in DOMAIN exe'} = {exe[e].base : e \in DOMAIN exe}
    BY <1>8, <1>10, <1>12
  <2>2. \A i \in Isr : exe'[i].base = exe[i].base /\ exe'[i].irq = exe[i].irq
    <3>1. Isr \subseteq 0 .. n - 1
      BY <1>12 DEF Isr
    <3> QED
      BY <1>8, <1>10, <3>1
  <2>3. \A p \in {exe[e].base : e \in DOMAIN exe} \union {MaxPrio} :
          \A i \in Isr : irqlevel[exe[i].irq] >= level[p] <=> exe[i].base >= p
    BY <1>1 DEF Sound, LevelsSound, Queued
  <2>4. \A p \in {exe'[e].base : e \in DOMAIN exe'} \union {MaxPrio} :
          \A i \in Isr' : irqlevel'[exe'[i].irq] >= level'[p] <=> exe'[i].base >= p
    BY <1>2, <1>13, <2>1, <2>2, <2>3
  <2> QED
    BY <2>4 DEF LevelsSound
<1>23. StacksOwned'
  <2>1. ASSUME NEW e \in 0 .. n - 1, y[e].extended # None
        PROVE  e \in 1 .. ntask - 1 /\ y[e].extended \in DOMAIN stack
    BY <1>10, <1>12, <2>1 DEF Sound, StacksOwned
  <2>2. IsTable(stack, StackRow) /\ extstacks \in Nat
    BY DEF Sound, StacksOwned
  <2> QED
    BY <1>2, <1>8, <1>12, <2>1, <2>2 DEF StacksOwned
<1>24. StacksSound'
  <2>1. ASSUME NEW e \in 0 .. n - 1, NEW f \in 0 .. n - 1, y[e].extended # None,
               y[e].extended = y[f].extended
        PROVE  e = f
    BY <1>10, <1>12, <2>1 DEF Sound, StacksSound
  <2>2. ASSUME NEW k \in DOMAIN stack
        PROVE  \E e \in 1 .. ntask - 1 : y[e].extended = k /\ y[e].maxact = 1
    <3>1. PICK e \in 1 .. ntask - 1 : exe[e].extended = k /\ exe[e].maxact = 1
      BY DEF Sound, StacksSound
    <3>2. e \in 0 .. n - 1
      BY <1>7
    <3> QED
      BY <1>10, <3>1, <3>2
  <2>3. \A k \in DOMAIN stack :
          /\ stack[k].sp - stack[k].base >= stack[k].len + Canary
          /\ stack[k].sp <= extstacks
          /\ \A m \in DOMAIN stack : k < m => stack[k].sp <= stack[m].base
    BY DEF Sound, StacksSound
  <2> QED
    BY <1>2, <1>8, <1>12, <2>1, <2>2, <2>3 DEF StacksSound
<1>25. MutexesLast' /\ CeilingsSound'
  BY <1>2, <1>3 DEF MutexesLast, CeilingsSound
<1> QED
  BY <1>14, <1>15, <1>16, <1>17, <1>19, <1>20, <1>21, <1>22, <1>23, <1>24, <1>25 DEF Sound

LEMMA EndGroupsKeeps ==
  ASSUME Sound, EndGroups
  PROVE  Sound'
<1>1. /\ phase = "groups" /\ phase' = "mutexes" /\ group' = None /\ groups' = {}
      /\ UNCHANGED <<exeVars, irqVars, tableVars, stackVars>> /\ mutex' = mutex
  BY DEF EndGroups
<1>2. IsTable(mutex', MutexRow) /\ DOMAIN mutex = {}
  BY <1>1 DEF Sound, TablesType, MutexesLast
<1>3. /\ TablesType' /\ PrioritiesApart' /\ VectorsPaired' /\ SlotsCounted' /\ LevelsLater'
      /\ QueuesSound' /\ LevelsSound' /\ StacksOwned' /\ StacksSound'
  BY <1>1, <1>2, TablesStay
<1>4. GroupsShare'
  BY <1>1 DEF GroupsShare
<1>5. MutexesLast' /\ CeilingsSound'
  BY <1>1, <1>2 DEF MutexesLast, CeilingsSound
<1> QED
  BY <1>3, <1>4, <1>5 DEF Sound

LEMMA AddMutexKeeps ==
  ASSUME Sound, NEW maxtake \in Int, AddMutex(maxtake)
  PROVE  Sound'
<1>1. /\ phase = "mutexes" /\ phase' = "mutexes" /\ exe' = exe
      /\ UNCHANGED <<exeVars, irqVars, tableVars, stackVars>>
      /\ group' = group /\ groups' = groups
  BY DEF AddMutex, exeVars, groupVars
<1>2. PICK k \in Nat : k = (IF maxtake < 1 THEN 1 ELSE maxtake)
  OBVIOUS
<1>3. PICK row : row = [ceiling |-> 0, users |-> {}, maxtake |-> k]
  OBVIOUS
<1>4. PICK x : x = mutex'
  OBVIOUS
<1>5. x = Append1(mutex, row) /\ IsTable(mutex, MutexRow) /\ row \in MutexRow /\ k >= 1
  <2>1. x = Append1(mutex, row)
    BY <1>2, <1>3, <1>4 DEF AddMutex
  <2>2. row \in MutexRow
    BY <1>3 DEF MutexRow
  <2> QED
    BY <1>2, <2>1, <2>2 DEF Sound, TablesType
<1>6. /\ IsTable(x, MutexRow) /\ CountOf(x) = CountOf(mutex) + 1
      /\ x[CountOf(mutex)] = row /\ \A i \in 0 .. CountOf(mutex) - 1 : x[i] = mutex[i]
  BY <1>5, TableGrows
<1>7. /\ TablesType' /\ PrioritiesApart' /\ VectorsPaired' /\ SlotsCounted' /\ LevelsLater'
      /\ QueuesSound' /\ LevelsSound' /\ StacksOwned' /\ StacksSound'
  BY <1>1, <1>4, <1>6, TablesStay
<1>8. GroupsShare'
  BY <1>1 DEF Sound, GroupsShare
<1>9. \A m \in DOMAIN x : x[m] = row \/ (m \in DOMAIN mutex /\ x[m] = mutex[m])
  BY <1>5, <1>6 DEF IsTable
<1>10. MutexesLast'
  <2>1. \A m \in DOMAIN x : x[m].users \subseteq DOMAIN exe
    BY <1>3, <1>9 DEF Sound, MutexesLast
  <2> QED
    BY <1>1, <1>4, <2>1 DEF MutexesLast
<1>11. CeilingsSound'
  <2>1. ASSUME NEW m \in DOMAIN x
        PROVE  /\ \A e \in x[m].users : exe[e].base <= x[m].ceiling
               /\ x[m].ceiling \in {0} \union {exe[e].base : e \in x[m].users}
               /\ x[m].maxtake >= 1
    <3>1. CASE x[m] = row
      BY <1>3, <1>5, <3>1
    <3>2. CASE x[m] # row
      <4>1. m \in DOMAIN mutex /\ x[m] = mutex[m]
        BY <1>9, <3>2
      <4> QED
        BY <4>1 DEF Sound, CeilingsSound
    <3> QED
      BY <3>1, <3>2
  <2> QED
    BY <1>1, <1>4, <2>1 DEF CeilingsSound
<1> QED
  BY <1>7, <1>8, <1>10, <1>11 DEF Sound

\* dv_addmutexuser()
LEMMA AddMutexUserKeeps ==
  ASSUME Sound, NEW m, NEW e, AddMutexUser(m, e)
  PROVE  Sound'
<1>1. /\ phase = "mutexes" /\ phase' = "mutexes" /\ exe' = exe
      /\ UNCHANGED <<exeVars, irqVars, tableVars, stackVars>>
      /\ group' = group /\ groups' = groups /\ m \in DOMAIN mutex /\ e \in DOMAIN exe
  BY DEF AddMutexUser, exeVars, groupVars
<1>2. PICK n \in Nat : n = CountOf(mutex) /\ mutex \in [0 .. n - 1 -> MutexRow]
  BY DEF Sound, TablesType, IsTable
<1>3. PICK b : b = exe[e].base
  OBVIOUS
<1>4. b \in Nat /\ e \in Nat
  BY <1>1, <1>3 DEF Sound, TablesType, IsTable, Executable
<1>5. PICK old \in MutexRow : old = mutex[m]
  BY <1>1, <1>2
<1>6. old.ceiling \in Nat /\ old.users \in SUBSET Nat /\ old.maxtake \in Nat
  BY DEF MutexRow
<1>7. PICK c \in Nat : c = (IF old.ceiling < b THEN b ELSE old.ceiling)
  BY <1>4, <1>6
<1>8. PICK u \in SUBSET Nat : u = old.users \union {e}
  BY <1>4, <1>6
<1>9. PICK x : x = mutex'
  OBVIOUS
<1>10. /\ x \in [0 .. n - 1 -> MutexRow]
       /\ x[m].ceiling = c /\ x[m].users = u /\ x[m].maxtake = old.maxtake
       /\ \A i \in 0 .. n - 1 : i # m => x[i] = mutex[i]
  <2>1. mutex' = [mutex EXCEPT ![m].ceiling = IF @ < exe[e].base THEN exe[e].base ELSE @,
                               ![m].users   = @ \union {e}]
    BY DEF AddMutexUser
  <2>2. x = [mutex EXCEPT ![m] = [[old EXCEPT !.ceiling = c] EXCEPT !.users = u]]
    BY <1>1, <1>2, <1>3, <1>5, <1>6, <1>7, <1>8, <1>9, <2>1 DEF MutexRow
  <2>3. PICK row : row = [[old EXCEPT !.ceiling = c] EXCEPT !.users = u]
    OBVIOUS
  <2>4. /\ row \in MutexRow /\ row.ceiling = c /\ row.users = u
        /\ row.maxtake = old.maxtake
    BY <1>7, <1>8, <2>3 DEF MutexRow
  <2> QED
    BY <1>1, <1>2, <2>2, <2>3, <2>4
<1>11. IsTable(x, MutexRow) /\ DOMAIN x = DOMAIN mutex
  BY <1>2, <1>10, TableIs
<1>12. /\ TablesType' /\ PrioritiesApart' /\ VectorsPaired' /\ SlotsCounted' /\ LevelsLater'
       /\ QueuesSound' /\ LevelsSound' /\ StacksOwned' /\ StacksSound'
  BY <1>1, <1>9, <1>11, TablesStay
<1>13. GroupsShare'
  BY <1>1 DEF Sound, GroupsShare
<1>14. old.users \subseteq DOMAIN exe
  BY <1>1, <1>5 DEF Sound, MutexesLast
<1>15. MutexesLast'
  <2>1. \A i \in DOMAIN x : x[i].users \subseteq DOMAIN exe
    BY <1>1, <1>2, <1>8, <1>10, <1>11, <1>14 DEF Sound, MutexesLast
  <2> QED
    BY <1>1, <1>9, <2>1 DEF MutexesLast
<1>16. CeilingsSound'
  <2>1. ASSUME NEW i \in DOMAIN x
        PROVE  /\ \A f \in x[i].users : exe[f].base <= x[i].ceiling
               /\ x[i].ceiling \in {0} \union {exe[f].base : f \in x[i].users}
               /\ x[i].maxtake >= 1
    <3>1. CASE i = m
      <4>1. /\ \A f \in old.users : exe[f].base <= old.ceiling
            /\ old.ceiling \in {0} \union {exe[f].base : f \in old.users}
            /\ old.maxtake >= 1
        BY <1>1, <1>5 DEF Sound, CeilingsSound
      <4>2. \A f \in DOMAIN exe : exe[f].base \in Nat
        BY DEF Sound, TablesType, IsTable, Executable
      <4>3. \A f \in u : exe[f].base <= c
        BY <1>3, <1>4, <1>6, <1>7, <1>8, <1>14, <4>1, <4>2
      <4>4. c \in {0} \union {exe[f].base : f \in u}
        <5>1. CASE old.ceiling < b
          BY <1>3, <1>7, <1>8, <5>1
        <5>2. CASE ~(old.ceiling < b)
          BY <1>7, <1>8, <4>1, <5>2
        <5> QED
          BY <5>1, <5>2
      <4> QED
        BY <1>10, <3>1, <4>1, <4>3, <4>4
    <3>2. CASE i # m
      <4>1. i \in DOMAIN mutex /\ x[i] = mutex[i]
        BY <1>2, <1>10, <1>11, <3>2
      <4> QED
        BY <4>1 DEF Sound, CeilingsSound
    <3> QED
      BY <3>1, <3>2
  <2> QED
    BY <1>1, <1>9, <2>1 DEF CeilingsSound
<1> QED
  BY <1>12, <1>13, <1>15, <1>16 DEF Sound

LEMMA EndMutexesKeeps ==
  ASSUME Sound, EndMutexes
  PROVE  Sound'
<1>1. /\ phase = "mutexes" /\ phase' = "started" /\ exe' = exe
      /\ UNCHANGED <<exeVars, irqVars, tableVars, stackVars>>
      /\ group' = group /\ groups' = groups /\ mutex' = mutex
  BY DEF EndMutexes, exeVars, groupVars
<1>2. IsTable(mutex', MutexRow)
  BY <1>1 DEF Sound, TablesType
<1>3. /\ TablesType' /\ PrioritiesApart' /\ VectorsPaired' /\ SlotsCounted' /\ LevelsLater'
      /\ QueuesSound' /\ LevelsSound' /\ StacksOwned' /\ StacksSound'
  BY <1>1, <1>2, TablesStay
<1>4. GroupsShare'
  BY <1>1 DEF Sound, GroupsShare
<1>5. MutexesLast' /\ CeilingsSound'
  BY <1>1 DEF Sound, MutexesLast, CeilingsSound
<1> QED
  BY <1>3, <1>4, <1>5 DEF Sound

\* A step in which nothing happens, or a refused call
LEMMA NothingDone ==
  ASSUME Sound, UNCHANGED configVars
  PROVE  Sound'
<1>1. /\ phase' = phase /\ exe' = exe /\ ntask' = ntask /\ maxtaskprio' = maxtaskprio
      /\ nslots' = nslots /\ vector' = vector /\ irqlevel' = irqlevel /\ first' = first
      /\ level' = level /\ group' = group /\ groups' = groups /\ mutex' = mutex
      /\ stack' = stack /\ extstacks' = extstacks
  BY DEF configVars, exeVars, irqVars, tableVars, groupVars, stackVars
<1>2. TablesType' /\ PrioritiesApart'
  BY <1>1 DEF Sound, TablesType, PrioritiesApart
<1>3. Isr' = Isr
  BY <1>1 DEF Isr
<1>4. VectorsPaired'
  BY <1>1, <1>3 DEF Sound, VectorsPaired
<1>5. GroupsShare'
  BY <1>1, <1>3 DEF Sound, GroupsShare, Members, Shares
<1>6. SlotsCounted' /\ LevelsLater'
  BY <1>1 DEF Sound, SlotsCounted, LevelsLater
<1>7. Queued' = Queued
  BY <1>1 DEF Queued
<1>8. QueuesSound'
  BY <1>1, <1>7 DEF Sound, QueuesSound
<1>9. LevelsSound'
  BY <1>1, <1>3, <1>7 DEF Sound, LevelsSound
<1>10. StacksOwned' /\ StacksSound'
  BY <1>1 DEF Sound, StacksOwned, StacksSound
<1>11. MutexesLast' /\ CeilingsSound'
  BY <1>1 DEF Sound, MutexesLast, CeilingsSound
<1> QED
  BY <1>2, <1>4, <1>5, <1>6, <1>8, <1>9, <1>10, <1>11 DEF Sound

LEMMA ConfigStarts ==
  ASSUME ConfigInit
  PROVE  Sound
<1>1. PICK x : x = NewExe(0, 1, None, None)
  OBVIOUS
<1>2. /\ x \in Executable /\ x.base = 0 /\ x.run = 0 /\ x.maxact = 1 /\ x.extended = None
  BY <1>1 DEF NewExe, Executable
<1>3. exe = [e \in {0} |-> x]
  BY <1>1 DEF ConfigInit
<1>4. exe \in [0 .. 1 - 1 -> Executable] /\ 1 \in Nat /\ exe[0] = x
  BY <1>2, <1>3
<1>5. CountOf(exe) = 1 /\ IsTable(exe, Executable)
  BY <1>4, TableIs
<1>6. MaxPrio \in Nat /\ MaxPrio >= 1 /\ Canary \in Nat
  BY ConfigAssumption
<1>7. /\ phase = "tasks" /\ ntask = 1 /\ maxtaskprio = 0 /\ group = None /\ groups = {}
      /\ extstacks = Canary /\ DOMAIN mutex = {} /\ DOMAIN stack = {}
      /\ vector = [i \in Irq |-> None] /\ level = [q \in Queue |-> 0]
  BY DEF ConfigInit
<1>8. mutex \in [0 .. 0 - 1 -> MutexRow] /\ stack \in [0 .. 0 - 1 -> StackRow]
  <2>1. mutex = [m \in {} |-> 0] /\ stack = [k \in {} |-> 0]
    BY DEF ConfigInit
  <2>2. 0 .. 0 - 1 = {}
    OBVIOUS
  <2> QED
    BY <2>1, <2>2
<1>9. IsTable(mutex, MutexRow) /\ IsTable(stack, StackRow)
  BY <1>8, TableIs
<1>10. DOMAIN exe = {0} /\ Isr = {}
  BY <1>3, <1>7 DEF Isr
<1>11. nslots = [q \in Queue |-> IF q = 0 THEN 3 ELSE IF q <= MaxPrio THEN 2 ELSE 0]
  BY DEF ConfigInit
<1>12. TablesType
  <2>1. nslots \in [Queue -> Nat]
    BY <1>11
  <2> QED
    BY <1>5, <1>6, <1>7, <1>9, <2>1 DEF TablesType
<1>13. PrioritiesApart
  BY <1>2, <1>4, <1>6, <1>7, <1>10 DEF PrioritiesApart
<1>14. VectorsPaired
  BY <1>7, <1>10 DEF VectorsPaired
<1>15. GroupsShare /\ MutexesLast /\ CeilingsSound
  BY <1>7 DEF GroupsShare, MutexesLast, CeilingsSound
<1>16. ~Queued
  BY <1>7 DEF Queued
<1>17. QueuesSound /\ LevelsSound
  BY <1>16 DEF QueuesSound, LevelsSound
<1>18. LevelsLater
  BY <1>7 DEF LevelsLater
<1>19. StacksOwned
  BY <1>2, <1>4, <1>6, <1>7, <1>9, <1>10 DEF StacksOwned
<1>20. StacksSound
  BY <1>7, <1>10 DEF StacksSound
<1>21. SlotsCounted
  <2> SUFFICES ASSUME NEW p \in 0 .. MaxPrio PROVE nslots[p] = 2 + Total(exe, p)
    BY DEF SlotsCounted
  <2>1. PICK f : f = Acts(exe, p)
    OBVIOUS
  <2>2. f[0] = (IF p = 0 THEN 1 ELSE 0) /\ f \in [0 .. 1 - 1 -> Nat]
    BY <1>2, <1>4, <1>10, <2>1 DEF Acts
  <2>3. PICK s : s = SumsOf(f, 1)
    OBVIOUS
  <2>4. Sums(s, f, 1)
    BY <2>2, <2>3, SumsDefined
  <2>5. s[1] = f[0]
    <3>1. 0 \in 0 .. 1 - 1 /\ 0 + 1 = 1 /\ f[0] \in Nat
      BY <2>2
    <3>2. s[0 + 1] = s[0] + f[0] /\ s[0] = 0
      BY <2>4, <3>1 DEF Sums
    <3> QED
      BY <3>1, <3>2
  <2>6. Total(exe, p) = s[1]
    BY <1>5, <2>1, <2>3 DEF Total
  <2>7. p \in Queue
    BY <1>6 DEF Queue
  <2> QED
    BY <1>11, <2>2, <2>5, <2>6, <2>7
<1> QED
  BY <1>12, <1>13, <1>14, <1>15, <1>17, <1>18, <1>19, <1>20, <1>21 DEF Sound

LEMMA ConfigStep ==
  ASSUME Sound, [ConfigNext]_configVars
  PROVE  Sound'
<1>1. /\ Asked.prio \subseteq Int /\ Asked.act \subseteq Int /\ Asked.bytes \subseteq Int
      /\ \A e \in 0 .. MaxExe : e \in Nat
  BY ConfigAssumption
<1>2. CASE \E p \in Asked.prio, n \in Asked.act : AddBasicTask(p, n)
  BY <1>1, <1>2, AddBasicTaskKeeps
<1>3. CASE \E p \in Asked.prio, b \in Asked.bytes : AddExtendedTask(p, b)
  BY <1>1, <1>3, AddExtendedTaskKeeps
<1>4. CASE EndTasks
  BY <1>4, EndTasksKeeps
<1>5. CASE \E i \in Irq, p \in Asked.prio : AddIsr(i, p)
  BY <1>1, <1>5, AddIsrKeeps
<1>6. CASE EndIsrs
  BY <1>6, EndIsrsKeeps
<1>7. CASE \E b \in BOOLEAN : StartGroup(b)
  BY <1>7, StartGroupKeeps
<1>8. CASE \E e \in 0 .. MaxExe : AddToGroup(e)
  BY <1>1, <1>8, AddToGroupKeeps
<1>9. CASE FinishGroup
  BY <1>9, FinishGroupKeeps
<1>10. CASE EndGroups
  BY <1>10, EndGroupsKeeps
<1>11. CASE \E n \in Asked.act : AddMutex(n)
  BY <1>1, <1>11, AddMutexKeeps
<1>12. CASE \E m \in 0 .. MaxMutex - 1, e \in 0 .. MaxExe : AddMutexUser(m, e)
  BY <1>12, AddMutexUserKeeps
<1>13. CASE EndMutexes
  BY <1>13, EndMutexesKeeps
<1>14. CASE UNCHANGED configVars
  BY <1>14, NothingDone
<1> QED
  BY <1>2, <1>3, <1>4, <1>5, <1>6, <1>7, <1>8, <1>9, <1>10, <1>11, <1>12, <1>13, <1>14
     DEF ConfigNext

\* What is sound is what the properties say.
LEMMA SoundIsConfigured ==
  ASSUME Sound
  PROVE  Configured
<1>1. PICK n \in Nat : n = CountOf(exe) /\ exe \in [0 .. n - 1 -> Executable]
                       /\ ntask \in 1 .. n /\ maxtaskprio \in Nat
  BY ConfigAssumption DEF Sound, TablesType, IsTable
<1>2. ASSUME NEW i \in Isr, NEW t \in DOMAIN exe \ Isr PROVE exe[i].base > exe[t].base
  <2>1. i \in DOMAIN exe /\ t \in DOMAIN exe /\ ~(i < ntask) /\ t < ntask
    BY <1>1 DEF Isr
  <2>2. ~(exe[i].base <= maxtaskprio) /\ exe[t].base <= maxtaskprio
    BY <2>1 DEF Sound, PrioritiesApart
  <2>3. exe[i].base \in Nat /\ exe[t].base \in Nat
    BY <1>1, <2>1 DEF Executable
  <2> QED
    BY <1>1, <2>2, <2>3
<1>3. \A i \in Irq : vector[i] # None => exe[vector[i]].irq = i
  BY DEF Sound, VectorsPaired
<1>4. \A i \in Isr : vector[exe[i].irq] = i
  BY DEF Sound, VectorsPaired
<1>5. \A g \in groups : Shares(g)
  BY DEF Sound, GroupsShare
<1>6. /\ exe[0].base = 0 /\ exe[0].run = 0
      /\ \A e \in DOMAIN exe \ {0} : exe[e].base \in 1 .. MaxPrio - 1 /\ exe[e].maxact >= 1
      /\ \A e \in DOMAIN exe : exe[e].run \in exe[e].base .. MaxPrio - 1
  BY DEF Sound, PrioritiesApart
<1>7. ExecutablesSound
  BY <1>2, <1>3, <1>4, <1>5, <1>6 DEF ExecutablesSound, Shares
<1> QED
  BY <1>7 DEF Sound, Configured, TablesSound

\* Whatever the application's callouts call in their phases, in whatever order, with whatever
\* arguments, what dv_startos() has built is sound: the priorities of the executables, the
\* vectors and the groups; the queues, the lock levels, the stacks and the ceilings.
THEOREM ConfiguredAlways == ConfigSpec => []Configured
<1>1. ConfigInit => Sound
  BY ConfigStarts
<1>2. Sound /\ [ConfigNext]_configVars => Sound'
  BY ConfigStep
<1>3. Sound => Configured
  BY SoundIsConfigured
<1> QED
  BY <1>1, <1>2, <1>3, PTL DEF ConfigSpec

-----------------------------------------------------------------------------
(* TinyUSB on davroska                                                     *)

USE TusbAssumption DEF Slot, Event, At, Goto, Has, Clear

-----------------------------------------------------------------------------
(* The ring buffer                                                         *)

RingType ==
  /\ buf \in [Slot -> Value] /\ w \in Slot /\ r \in Slot
  /\ fifo \in Seq(Value)

\* While the task copies there is something to copy, and its copy stays the oldest event
\* until the index moves.
Copying ==
  /\ pc \in {"copy", "advance"} => r # w
  /\ pc = "advance" => item = buf[r]

RingInv == RingType /\ RingHolds /\ Copying

\* The slots from the reader's index to the writer's are different ones; the writer's is
\* none of them.
LEMMA SlotsApart ==
  ASSUME w \in Slot, r \in Slot, NEW k \in 1 .. Count
  PROVE  SlotOf(k) \in Slot /\ SlotOf(k) # w
BY DEF SlotOf, Count

\* Moving on round the buffer
LEMMA NextInSlot ==
  ASSUME NEW i \in Slot
  PROVE  NextIndex(i) \in Slot
BY DEF NextIndex

LEMMA RingInit == Init => RingInv
<1> SUFFICES ASSUME Init PROVE RingInv
  OBVIOUS
<1>1. RingType
  BY DEF Init, RingType
<1>2. Len(fifo) = 0 /\ Count = 0
  BY DEF Init, Count
<1>3. RingHolds
  BY <1>2 DEF RingHolds
<1> QED
  BY <1>1, <1>3 DEF Init, RingInv, Copying

\* An ISR that finds room fills the writer's slot, which is none of those in use, and
\* leaves the slot that the task copies alone.
LEMMA SendKeepsRing ==
  ASSUME RingInv, NEW v \in Value, Send(v)
  PROVE  RingInv'
<1> USE DEF RingInv, RingType
<1>1. CASE Full
  BY <1>1 DEF Send, RingHolds, Copying, Count, SlotOf
<1>2. CASE ~Full
  <2>1. /\ buf' = [buf EXCEPT ![w] = v] /\ w' = NextIndex(w) /\ r' = r /\ pc' = pc
        /\ item' = item /\ fifo' = Append(fifo, v) /\ w' # r
    BY <1>2 DEF Send, Full
  <2>2. w' \in Slot /\ buf' \in [Slot -> Value]
    BY <2>1, NextInSlot
  <2>3. /\ fifo' \in Seq(Value) /\ Len(fifo') = Len(fifo) + 1
        /\ \A k \in 1 .. Len(fifo) : fifo'[k] = fifo[k]
        /\ fifo'[Len(fifo) + 1] = v
    BY <2>1, AppendProperties
  <2>4. Len(fifo) = Count /\ Count \in Nat
    BY DEF RingHolds, Count
  <2>5. Count' = Count + 1
    BY <2>1 DEF Count, NextIndex
  <2>6. SlotOf(Count + 1) = w
    BY DEF SlotOf, Count
  <2>7. RingHolds'
    <3>1. Len(fifo') = Count'
      BY <2>3, <2>4, <2>5
    <3>2. ASSUME NEW k \in 1 .. Len(fifo') PROVE buf'[SlotOf(k)'] = fifo'[k]
      <4>1. SlotOf(k)' = SlotOf(k)
        BY <2>1 DEF SlotOf
      <4>2. CASE k \in 1 .. Len(fifo)
        <5>1. SlotOf(k) \in Slot /\ SlotOf(k) # w
          BY <2>4, <4>2, SlotsApart
        <5>2. buf[SlotOf(k)] = fifo[k]
          BY <4>2 DEF RingHolds
        <5> QED
          BY <2>1, <2>3, <4>1, <4>2, <5>1, <5>2
      <4>3. CASE k = Len(fifo) + 1
        <5>1. SlotOf(k) = w
          BY <2>4, <2>6, <4>3
        <5> QED
          BY <2>1, <2>3, <4>1, <4>3, <5>1
      <4> QED
        BY <2>3, <2>4, <4>2, <4>3
    <3> QED
      BY <3>1, <3>2 DEF RingHolds
  <2>8. Copying'
    BY <2>1 DEF Copying
  <2> QED
    BY <2>1, <2>2, <2>3, <2>7, <2>8
<1> QED
  BY <1>1, <1>2

\* The task frees its slot only after it has copied it.
LEMMA AdvanceKeepsRing ==
  ASSUME RingInv, Advance
  PROVE  RingInv'
<1> USE DEF RingInv, RingType
<1>1. /\ r' = NextIndex(r) /\ fifo' = Tail(fifo) /\ buf' = buf /\ w' = w
      /\ pc' = "work" /\ r # w
  BY DEF Advance, Copying
<1>2. Len(fifo) = Count /\ Count \in Nat \ {0}
  BY <1>1 DEF RingHolds, Count
<1>3. fifo # <<>>
  BY <1>2
<1>4. /\ fifo' \in Seq(Value) /\ Len(fifo') = Len(fifo) - 1
      /\ \A k \in 1 .. Len(fifo') : fifo'[k] = fifo[k + 1]
  BY <1>1, <1>3, HeadTailProperties
<1>5. r' \in Slot
  BY <1>1, NextInSlot
<1>6. Count' = Count - 1
  BY <1>1 DEF Count, NextIndex
<1>7. ASSUME NEW k \in 1 .. Len(fifo') PROVE buf'[SlotOf(k)'] = fifo'[k]
  <2>1. k + 1 \in 1 .. Len(fifo)
    BY <1>2, <1>4
  <2>2. SlotOf(k)' = SlotOf(k + 1)
    <3>1. k \in 1 .. Size - 1 /\ k + 1 \in 1 .. Size - 1
      BY <1>2, <2>1 DEF Count
    <3>2. SlotOf(k)' = IF r' + k - 1 < Size THEN r' + k - 1 ELSE r' + k - 1 - Size
      BY DEF SlotOf
    <3>3. r' = IF r + 1 >= Size THEN 0 ELSE r + 1
      BY <1>1 DEF NextIndex
    <3> QED
      BY <3>1, <3>2, <3>3 DEF SlotOf
  <2>3. buf[SlotOf(k + 1)] = fifo[k + 1]
    BY <2>1 DEF RingHolds
  <2> QED
    BY <1>1, <1>4, <2>2, <2>3
<1> QED
  BY <1>1, <1>2, <1>4, <1>5, <1>6, <1>7 DEF RingHolds, Copying

\* The task's looks at the queue and its copy change neither index.
LEMMA ReadsKeepRing ==
  ASSUME RingInv, TestEmpty \/ TestAgain \/ Copy
  PROVE  RingInv'
BY DEF RingInv, RingType, RingHolds, Copying, Count, SlotOf, TestEmpty, TestAgain, Copy,
       QueueOnly, queueVars

\* No other step touches the queue or enters the task's copying.
LEMMA OthersKeepRing ==
  ASSUME RingInv, UNCHANGED queueVars, pc' \in {"copy", "advance"} => pc' = pc
  PROVE  RingInv'
BY DEF RingInv, RingType, RingHolds, Copying, Count, SlotOf, queueVars

LEMMA RingStep == RingInv /\ [Next]_vars => RingInv'
<1> SUFFICES ASSUME RingInv, [Next]_vars PROVE RingInv'
  OBVIOUS
<1>1. CASE \E v \in Value : Send(v)
  BY <1>1, SendKeepsRing
<1>2. CASE Post
  BY <1>2, OthersKeepRing DEF Post
<1>3. CASE Receive
  BY <1>3, OthersKeepRing DEF Receive, QueueOnly
<1>4. CASE \E n \in 1 .. MaxTicks : Delay(n)
  BY <1>4, OthersKeepRing DEF Delay
<1>5. CASE Tick
  BY <1>5, OthersKeepRing DEF Tick
<1>6. CASE WaitForever
  BY <1>6, OthersKeepRing DEF WaitForever
<1>7. CASE \E n \in 0 .. MaxTicks : WaitLimited(n)
  BY <1>7, OthersKeepRing DEF WaitLimited
<1>8. CASE Step
  <2>1. CASE TestEmpty \/ TestAgain \/ Copy
    BY <2>1, ReadsKeepRing
  <2>2. CASE Advance
    BY <2>2, AdvanceKeepsRing
  <2>3. CASE WaitNotify \/ ClearNotify \/ WaitTimeout \/ ClearTimeout
    BY <2>3, OthersKeepRing DEF WaitNotify, ClearNotify, WaitTimeout, ClearTimeout, QueueOnly
  <2>4. CASE WaitPosted \/ ClearPosted \/ WaitEither \/ GetEvent \/ StopAlarm \/ ClearBoth
    BY <2>4, OthersKeepRing
       DEF WaitPosted, ClearPosted, WaitEither, GetEvent, StopAlarm, ClearBoth
  <2> QED
    BY <1>8, <2>1, <2>2, <2>3, <2>4 DEF Step
<1>9. CASE UNCHANGED vars
  BY <1>9, OthersKeepRing DEF vars
<1> QED
  BY <1>1, <1>2, <1>3, <1>4, <1>5, <1>6, <1>7, <1>8, <1>9 DEF Next

\* The queue between the ISRs and the task loses, doubles and overwrites nothing, for
\* every length of it (inline_queue_send(), inline_queue_receive()).
THEOREM LockFreeRing == Spec => []RingHolds
<1>1. RingInv => RingHolds
  BY DEF RingInv
<1> QED
  BY <1>1, RingInit, RingStep, PTL DEF Spec

\* What the task takes out is the oldest event, also when an ISR sends in the middle of
\* it (inline_queue_receive()).
THEOREM OldestTaken == Spec => []TakesOldest
<1>1. RingInv => TakesOldest
  <2> SUFFICES ASSUME RingInv, pc = "advance" PROVE fifo # <<>> /\ item = Head(fifo)
    BY DEF TakesOldest
  <2>1. /\ fifo \in Seq(Value) /\ w \in Slot /\ r \in Slot /\ r # w /\ item = buf[r]
        /\ Len(fifo) = Count
    BY DEF RingInv, RingType, RingHolds, Copying
  <2>2. Count \in Nat \ {0} /\ SlotOf(1) = r
    BY <2>1 DEF Count, SlotOf
  <2>3. 1 \in 1 .. Len(fifo) /\ fifo # <<>>
    BY <2>1, <2>2
  <2>4. buf[SlotOf(1)] = fifo[1]
    BY <2>3 DEF RingInv, RingHolds
  <2> QED
    BY <2>1, <2>2, <2>3, <2>4
<1> QED
  BY <1>1, RingInit, RingStep, PTL DEF Spec

-----------------------------------------------------------------------------
(* Delays and notifications                                                *)

\* Where the task is in osal_delay() or in a wait with a time limit
Timed == {"dwait", "dclear", "twait", "tget", "tstop", "tclear"}

\* An alarm runs, and a Timeout is pending, only in a call that has set the alarm; the
\* one after the other.  Until the call has looked, the alarm runs as long as the task
\* is to sleep.
AlarmType == /\ pc \in PC /\ role \in {"device", "host"} /\ pending \subseteq Event
             /\ evt \subseteq Event /\ alarm \in Nat /\ slept \in Nat
AlarmInv ==
  /\ AlarmType
  /\ alarm # 0 => pc \in {"dwait", "twait", "tget", "tstop"}
  /\ "timeout" \in pending => alarm = 0 /\ pc \in Timed
  /\ pc \in {"dwait", "twait", "tget"} => slept <= alarm
  /\ pc = "tget" => pending # {}
  /\ pc = "tstop" => evt \subseteq pending
  /\ pc = "dclear" => slept = 0

LEMMA AlarmInit == Init => AlarmInv
BY DEF Init, AlarmInv, AlarmType, PC

\* The steps of the ISRs and of the queue's receiver, which set no alarm
LEMMA QueueKeepsAlarm ==
  ASSUME AlarmInv,
         \/ \E v \in Value : Send(v)
         \/ Post \/ Receive \/ TestEmpty \/ WaitNotify \/ ClearNotify \/ TestAgain
         \/ Copy \/ Advance
  PROVE  AlarmInv'
<1> USE DEF AlarmInv, AlarmType, QueueOnly, queueVars
<1>1. ASSUME NEW v \in Value, Send(v) PROVE AlarmInv'
  BY <1>1 DEF Send
<1>2. CASE Post
  BY <1>2 DEF Post
<1>3. CASE Receive \/ TestEmpty \/ WaitNotify
  BY <1>3 DEF Receive, TestEmpty, WaitNotify, PC, Timed
<1>4. CASE ClearNotify
  BY <1>4 DEF ClearNotify, PC, Timed
<1>5. CASE TestAgain \/ Copy \/ Advance
  BY <1>5 DEF TestAgain, Copy, Advance, PC, Timed
<1> QED
  BY <1>1, <1>2, <1>3, <1>4, <1>5

LEMMA TickKeepsAlarm ==
  ASSUME AlarmInv, Tick
  PROVE  AlarmInv'
<1>1. /\ alarm' = alarm - 1 /\ alarm' \in Nat /\ alarm \in Nat \ {0}
      /\ slept' = (IF slept > 0 THEN slept - 1 ELSE 0) /\ slept' \in Nat /\ slept \in Nat
  BY DEF AlarmInv, AlarmType, Tick
<1>2. pc \in {"dwait", "twait", "tget", "tstop"} /\ pc' = pc
  BY <1>1 DEF AlarmInv, Tick
<1>3. slept <= alarm => slept' <= alarm'
  BY <1>1
<1>4. pending' = IF alarm' = 0 THEN pending \union {"timeout"} ELSE pending
  BY <1>1 DEF Tick
<1>5. "timeout" \in pending' => alarm' = 0
  BY <1>1, <1>4 DEF AlarmInv
<1> QED
  BY <1>1, <1>2, <1>3, <1>4, <1>5 DEF AlarmInv, AlarmType, Tick, Timed

\* The calls that set the alarm, each from a place where none runs
LEMMA SettingKeepsAlarm ==
  ASSUME AlarmInv,
         \/ \E n \in 1 .. MaxTicks : Delay(n)
         \/ WaitForever
         \/ \E n \in 0 .. MaxTicks : WaitLimited(n)
  PROVE  AlarmInv'
<1> USE DEF AlarmInv, AlarmType, queueVars, PC, Timed
<1>1. ASSUME NEW n \in 1 .. MaxTicks, Delay(n) PROVE AlarmInv'
  BY <1>1 DEF Delay, StartAlarm
<1>2. CASE WaitForever
  BY <1>2 DEF WaitForever, waitVars
<1>3. ASSUME NEW n \in 0 .. MaxTicks, WaitLimited(n) PROVE AlarmInv'
  BY <1>3 DEF WaitLimited, StartAlarm
<1> QED
  BY <1>1, <1>2, <1>3

LEMMA WaitingKeepsAlarm ==
  ASSUME AlarmInv,
         \/ WaitTimeout \/ ClearTimeout \/ WaitPosted \/ ClearPosted
         \/ WaitEither \/ GetEvent \/ StopAlarm \/ ClearBoth
  PROVE  AlarmInv'
<1> USE DEF AlarmInv, AlarmType, queueVars, waitVars, PC, Timed
<1>1. CASE WaitTimeout
  BY <1>1 DEF WaitTimeout
<1>2. CASE ClearTimeout
  BY <1>2 DEF ClearTimeout
<1>3. CASE WaitPosted \/ ClearPosted
  BY <1>3 DEF WaitPosted, ClearPosted
<1>4. CASE WaitEither \/ GetEvent
  BY <1>4 DEF WaitEither, GetEvent
<1>5. CASE StopAlarm
  BY <1>5 DEF StopAlarm
<1>6. CASE ClearBoth
  BY <1>6 DEF ClearBoth
<1> QED
  BY <1>1, <1>2, <1>3, <1>4, <1>5, <1>6

LEMMA AlarmStep == AlarmInv /\ [Next]_vars => AlarmInv'
<1> SUFFICES ASSUME AlarmInv, [Next]_vars PROVE AlarmInv'
  OBVIOUS
<1>1. CASE UNCHANGED vars
  BY <1>1 DEF vars, queueVars, waitVars, AlarmInv, AlarmType, PC, Timed
<1>2. CASE Tick
  BY <1>2, TickKeepsAlarm
<1>3. CASE Next /\ ~Tick
  BY <1>3, QueueKeepsAlarm, SettingKeepsAlarm, WaitingKeepsAlarm DEF Next, Step
<1> QED
  BY <1>1, <1>2, <1>3

\* No delay and no time limit is cut short by what an earlier wait has left behind
\* (osal_delay(), osal_wgcevent()), whatever TinyUSB does.
THEOREM DelaysInFull == Spec => []FullDelay
<1>1. ASSUME AlarmInv PROVE FullDelay
  <2>1. pc = "dclear" => slept = 0
    BY <1>1 DEF AlarmInv
  <2>2. ASSUME pc = "tget", "notify" \notin pending PROVE slept = 0
    <3>1. "timeout" \in pending
      BY <1>1, <2>2 DEF AlarmInv, AlarmType
    <3>2. alarm = 0 /\ slept <= alarm /\ slept \in Nat
      BY <1>1, <2>2, <3>1 DEF AlarmInv, AlarmType
    <3> QED
      BY <3>2
  <2> QED
    BY <2>1, <2>2 DEF FullDelay
<1> QED
  BY <1>1, AlarmInit, AlarmStep, PTL DEF Spec

-----------------------------------------------------------------------------
(* Wake-ups                                                                *)

\* Which calls a device and a host make
Receiving == {"recv", "wait", "clear", "again", "copy", "advance", "idle"}
Awaiting  == {"swait", "sclear", "twait", "tget", "tstop", "tclear"}

\* A notification stays pending until the call that clears it has seen it: the receiver
\* looks at the queue again after that, a wait with a time limit has it in evt.
WakeInv ==
  /\ AlarmInv
  /\ pc \in Receiving => role = "device"
  /\ pc \in Awaiting => role = "host"
  /\ posted => role = "host" /\ ("notify" \in pending \/ "notify" \in evt)
  /\ posted \in BOOLEAN
  /\ evt # {} => pc \in {"tstop", "tclear"}
  /\ pc \in {"tstop", "tclear"} /\ "notify" \notin evt => "notify" \notin pending
  /\ pc = "wait" /\ r # w => "notify" \in pending

LEMMA WakeInit == Init => WakeInv
BY AlarmInit DEF Init, WakeInv, Receiving, Awaiting

LEMMA WakeStep ==
  ASSUME PostsLate \notin Liberties, WakeInv, [Next]_vars
  PROVE  WakeInv'
<1> DEFINE Rest ==
      /\ pc \in Receiving => role = "device"
      /\ pc \in Awaiting => role = "host"
      /\ posted => role = "host" /\ ("notify" \in pending \/ "notify" \in evt)
      /\ posted \in BOOLEAN
      /\ evt # {} => pc \in {"tstop", "tclear"}
      /\ pc \in {"tstop", "tclear"} /\ "notify" \notin evt => "notify" \notin pending
      /\ pc = "wait" /\ r # w => "notify" \in pending
<1>1. AlarmInv'
  BY AlarmStep DEF WakeInv
<1>2. Rest'
  <2> USE DEF WakeInv, AlarmInv, AlarmType, PC, Receiving, Awaiting, queueVars, waitVars, QueueOnly
  <2>1. CASE UNCHANGED vars
    BY <2>1 DEF vars
  <2>2. ASSUME NEW v \in Value, Send(v) PROVE Rest'
    BY <2>2 DEF Send
  <2>3. CASE Post
    BY <2>3 DEF Post
  <2>4. CASE Tick
    BY <2>4 DEF Tick
  <2>5. CASE Receive \/ TestEmpty \/ WaitNotify \/ ClearNotify
    BY <2>5 DEF Receive, TestEmpty, WaitNotify, ClearNotify
  <2>6. CASE TestAgain \/ Copy \/ Advance
    BY <2>6 DEF TestAgain, Copy, Advance
  <2>7. ASSUME NEW n \in 1 .. MaxTicks, Delay(n) PROVE Rest'
    BY <2>7 DEF Delay, StartAlarm
  <2>8. CASE WaitForever \/ WaitPosted
    BY <2>8 DEF WaitForever, WaitPosted
  <2>14. CASE ClearPosted
    <3>1. /\ pc = "sclear" /\ pc' = "work" /\ posted' = FALSE /\ evt = {}
          /\ UNCHANGED <<role, evt>>
      BY <2>14 DEF ClearPosted
    <3> QED
      BY <3>1
  <2>9. ASSUME NEW n \in 0 .. MaxTicks, WaitLimited(n) PROVE Rest'
    BY <2>9 DEF WaitLimited, StartAlarm
  <2>10. CASE WaitTimeout \/ ClearTimeout
    BY <2>10 DEF WaitTimeout, ClearTimeout
  <2>11. CASE WaitEither \/ StopAlarm
    BY <2>11 DEF WaitEither, StopAlarm
  <2>13. CASE GetEvent
    <3>1. /\ pc = "tget" /\ pc' = "tstop" /\ evt' = pending /\ pending' = pending
          /\ evt = {} /\ UNCHANGED <<role, posted>>
      BY <2>13 DEF GetEvent
    <3> QED
      BY <3>1
  <2>12. CASE ClearBoth
    <3>1. posted' <=> posted /\ "notify" \notin evt
      BY <2>12 DEF ClearBoth
    <3>2. "notify" \in evt \/ ~posted
      BY <2>12 DEF ClearBoth
    <3>3. posted' = FALSE
      BY <2>12, <3>1, <3>2 DEF ClearBoth
    <3>4. /\ pc' = "work" /\ evt' = {} /\ UNCHANGED role
      BY <2>12 DEF ClearBoth
    <3> QED
      BY <3>3, <3>4
  <2> QED
    BY <2>1, <2>2, <2>3, <2>4, <2>5, <2>6, <2>7, <2>8, <2>9, <2>10, <2>11, <2>12, <2>13, <2>14
       DEF Next, Step
<1> QED
  BY <1>1, <1>2 DEF WakeInv

\* No notification is lost, wherever between the look at the queue, the wait and the
\* clearing of the event it comes, if TinyUSB posts nothing to a wait that has just run
\* out of time (osal_queue_receive(), osal_wgcevent()).
THEOREM WakeUpsKept ==
  ASSUME PostsLate \notin Liberties
  PROVE  Spec => []NoLostWakeup
<1>1. RingInv /\ WakeInv => NoLostWakeup
  <2> SUFFICES ASSUME RingInv, WakeInv PROVE NoLostWakeup
    OBVIOUS
  <2>1. ASSUME pc = "wait", fifo # <<>> PROVE "notify" \in pending
    <3>1. Len(fifo) = Count /\ fifo \in Seq(Value) /\ w \in Slot /\ r \in Slot
      BY DEF RingInv, RingType, RingHolds
    <3>2. Len(fifo) # 0
      BY <2>1, <3>1, EmptySeq
    <3>3. r # w
      BY <3>1, <3>2 DEF Count
    <3> QED
      BY <2>1, <3>3 DEF WakeInv
  <2> QED
    BY <2>1 DEF WakeInv, NoLostWakeup
<1>2. Init => RingInv /\ WakeInv
  BY RingInit, WakeInit
<1>3. RingInv /\ WakeInv /\ [Next]_vars => (RingInv /\ WakeInv)'
  BY RingStep, WakeStep
<1> QED
  BY <1>1, <1>2, <1>3, PTL DEF Spec

=============================================================================
