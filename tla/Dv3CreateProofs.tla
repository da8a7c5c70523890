-------------------------- MODULE Dv3CreateProofs ---------------------------
(***************************************************************************)
(* Theorems of Dv3Create, for tables of any size, any configurations of    *)
(* executables and any number of them.                                     *)
(*                                                                         *)
(* The functions of the kernel are operators on a state s of its tables,   *)
(* so the parts of the invariant are predicates on one too, and a lemma    *)
(* says of each function what the state u in which it returns has in       *)
(* common with s: first that all tables are accounted for and blocking     *)
(* executables apart (creation), then how threads, job queues and the list *)
(* of active threads fit together, and at last both for destruction.       *)
(***************************************************************************)
EXTENDS Dv3Create, FiniteSetTheorems, SequenceTheorems, WellFoundedInduction, TLAPS

-----------------------------------------------------------------------------
(* States                                                                  *)

Ref(t) == Entries(t) \union {Nil}

ExeRow   == [state : {"free", "disabled", "idle", "active"}, prio : Nat, flags : SUBSET Flags,
             thr : Ref("thr"), reg : Ref("reg"), evs : Ref("evs"), dll : Ref("dll"),
             page : Ref("page")]
ThrRow   == [n : Int, jobs : Ref("rb"), exe : Ref("exe")]
RingRow  == [used : BOOLEAN, length : Int, jobs : Seq(Entries("exe"))]
AllocRow == [free : Int, next : Int]

\* What dv_panic() is called with
Failures == {"no thread available", "no registers available", "no eventstatus available",
             "no dll_element available", "no stack available", "no free executable found",
             "no ringbuffer available", "insufficient buffer space"}

KernelState ==
  [exe : [Entries("exe") -> ExeRow], thr : [Entries("thr") -> ThrRow],
   reg : [Entries("reg") -> Int], page : [Entries("page") -> Int],
   evs : [Entries("evs") -> BOOLEAN], dll : [Entries("dll") -> BOOLEAN],
   rb : [Entries("rb") -> RingRow], alloc : [Tables -> AllocRow],
   freewords : Int, queue : Seq(Entries("thr")), panic : {"none"} \union Failures]

Alive(s, e) == s.exe[e].state # "free"

\* The users of entry i of table t, and the entries that are free, in any state
Holders(s, t, i) == {e \in Entries("exe") : Alive(s, e) /\ s.exe[e][t] = i}
FreeIn(s, t)     == {i \in Entries(t) : ~InUse(s, t, i)}

\* The tables whose entries have users, and how many an entry says that it has
Columns == {"thr", "reg", "page", "evs", "dll"}

NumberOf(s, t, i) == IF t = "thr" THEN s.thr[i].n
                     ELSE IF t \in {"reg", "page"} THEN s[t][i]
                     ELSE IF s[t][i] THEN 1 ELSE 0

\* A page keeps the users that have been destroyed.
Counts(s, t) == \A i \in Entries(t) :
  IF t = "page" THEN NumberOf(s, t, i) >= Cardinality(Holders(s, t, i))
                ELSE NumberOf(s, t, i) = Cardinality(Holders(s, t, i))

CountsFree(s, t) == s.alloc[t].free = Cardinality(FreeIn(s, t))

AccountedIn(s) ==
  (\A t \in Columns : Counts(s, t)) /\ (\A t \in Tables : CountsFree(s, t))

LEMMA AccountedIsIn ==
  ASSUME AccountedIn(k)
  PROVE  Accounted
<1>1. Live = {e \in Entries("exe") : Alive(k, e)}
  BY DEF Live, Alive
<1>2. \A t, i : UsersOf(t, i) = Holders(k, t, i)
  BY <1>1 DEF UsersOf, Holders
<1>3. \A t \in Columns : Counts(k, t)
  BY DEF AccountedIn
<1>4. /\ \A i \in Entries("thr") : k.thr[i].n = Cardinality(Holders(k, "thr", i))
      /\ \A i \in Entries("reg") : k.reg[i] = Cardinality(Holders(k, "reg", i))
      /\ \A i \in Entries("page") : k.page[i] >= Cardinality(Holders(k, "page", i))
  BY <1>3 DEF Counts, NumberOf, Columns
<1>5. \A t \in {"evs", "dll"} : \A i \in Entries(t) :
        Cardinality(Holders(k, t, i)) = (IF k[t][i] THEN 1 ELSE 0)
  BY <1>3 DEF Counts, NumberOf, Columns
<1>6. \A t \in Tables : k.alloc[t].free = Cardinality({i \in Entries(t) : ~InUse(k, t, i)})
  BY DEF AccountedIn, CountsFree, FreeIn
<1> QED
  BY <1>2, <1>4, <1>5, <1>6 DEF Accounted

\* The tables are finite, and what is counted in them.
LEMMA TablesFinite ==
  ASSUME NEW t \in Tables
  PROVE  IsFiniteSet(Entries(t)) /\ Entries(t) \subseteq Nat
<1>1. Size[t] \in Nat
  BY CreateAssumption
<1>2. 0 \in Int /\ Size[t] - 1 \in Int
  BY <1>1
<1>3. IsFiniteSet(0 .. (Size[t] - 1))
  BY <1>2, FS_Interval
<1>4. 0 .. (Size[t] - 1) \subseteq Nat
  BY <1>1
<1> QED
  BY <1>3, <1>4 DEF Entries

LEMMA HoldersFinite ==
  ASSUME NEW s, NEW t, NEW i
  PROVE  IsFiniteSet(Holders(s, t, i)) /\ Cardinality(Holders(s, t, i)) \in Nat
<1>1. "exe" \in Tables
  BY DEF Tables
<1>2. IsFiniteSet(Entries("exe"))
  BY <1>1, TablesFinite
<1>3. Holders(s, t, i) \subseteq Entries("exe")
  BY DEF Holders
<1>4. IsFiniteSet(Holders(s, t, i))
  BY <1>2, <1>3, FS_Subset
<1> QED
  BY <1>4, FS_CardinalityType

LEMMA FreeFinite ==
  ASSUME NEW s, NEW t \in Tables
  PROVE  IsFiniteSet(FreeIn(s, t)) /\ Cardinality(FreeIn(s, t)) \in Nat
<1>1. IsFiniteSet(Entries(t))
  BY TablesFinite
<1>2. FreeIn(s, t) \subseteq Entries(t)
  BY DEF FreeIn
<1>3. IsFiniteSet(FreeIn(s, t))
  BY <1>1, <1>2, FS_Subset
<1> QED
  BY <1>3, FS_CardinalityType

\* A set with one element more or less
LEMMA OneMore ==
  ASSUME NEW S, IsFiniteSet(S), NEW x, x \notin S, NEW T, T = S \union {x}
  PROVE  Cardinality(T) = Cardinality(S) + 1 /\ Cardinality(S) \in Nat
BY FS_AddElement, FS_CardinalityType

LEMMA OneLess ==
  ASSUME NEW S, IsFiniteSet(S), NEW x, x \in S, NEW T, T = S \ {x}
  PROVE  Cardinality(T) = Cardinality(S) - 1 /\ Cardinality(S) \in Nat
BY FS_RemoveElement, FS_CardinalityType

LEMMA NobodyCounted ==
  ASSUME NEW S, IsFiniteSet(S), Cardinality(S) = 0
  PROVE  S = {}
BY FS_EmptySet

\* Some numbers have a least one.
LEMMA LeastOne ==
  ASSUME NEW T \in SUBSET Nat, T # {}
  PROVE  \E d \in T : \A c \in T : d <= c
<1>1. PICK d \in T : \A c \in T : ~(<<c, d>> \in OpToRel(<, Nat))
  BY NatLessThanWellFounded, WFMin
<1>2. \A c \in T : c \in Nat /\ d \in Nat /\ ~(c < d)
  BY <1>1 DEF OpToRel
<1> QED
  BY <1>2

LEMMA MinIsOne ==
  ASSUME NEW T \in SUBSET Nat, T # {}
  PROVE  Min(T) \in T
<1>1. \E d \in T : \A c \in T : d <= c
  BY LeastOne
<1> QED
  BY <1>1 DEF Min

\* What dv_allocate_obj() finds is free.
LEMMA FoundIsFree ==
  ASSUME NEW s \in KernelState, NEW t \in Tables
  PROVE  \/ Found(s, t) = Nil /\ (s.alloc[t].free <= 0 \/ FreeIn(s, t) = {})
         \/ Found(s, t) \in FreeIn(s, t)
<1>1. PICK free : free = FreeIn(s, t)
  OBVIOUS
<1>2. PICK next \in Int : next = s.alloc[t].next
  BY DEF KernelState, AllocRow
<1>3. PICK size \in Nat : size = Size[t] /\ size >= 1
  BY CreateAssumption
<1>4. free \subseteq Entries(t) /\ free \subseteq Nat
  BY <1>1, TablesFinite DEF FreeIn
<1> DEFINE Distance(i) == (i + size - next) % size
<1>5. \A i \in free : Distance(i) \in Nat
  BY <1>3, <1>4
<1>6. CASE s.alloc[t].free <= 0 \/ free = {}
  BY <1>1, <1>6 DEF Found, FreeIn
<1>7. CASE ~(s.alloc[t].free <= 0 \/ free = {})
  <2>1. PICK T : T = {Distance(i) : i \in free}
    OBVIOUS
  <2> HIDE DEF Distance
  <2>2. T \in SUBSET Nat /\ T # {}
    BY <1>5, <1>7, <2>1
  <2>3. PICK d \in T : \A c \in T : d <= c
    BY <2>2, LeastOne
  <2>4. \E i \in free : \A j \in free : Distance(i) <= Distance(j)
    BY <2>1, <2>3
  <2>5. (CHOOSE i \in free : \A j \in free : Distance(i) <= Distance(j)) \in free
    BY <2>4
  <2>6. Found(s, t) = CHOOSE i \in free : \A j \in free : Distance(i) <= Distance(j)
    BY <1>1, <1>2, <1>3, <1>7 DEF Found, FreeIn, Distance
  <2> QED
    BY <1>1, <2>5, <2>6
<1> QED
  BY <1>6, <1>7

\* The free entries, table by table
LEMMA FreeInIs ==
  ASSUME NEW s \in KernelState
  PROVE  /\ FreeIn(s, "exe") = {i \in Entries("exe") : ~Alive(s, i)}
         /\ FreeIn(s, "thr") = {i \in Entries("thr") : s.thr[i].n = 0}
         /\ FreeIn(s, "reg") = {i \in Entries("reg") : s.reg[i] = 0}
         /\ FreeIn(s, "page") = {i \in Entries("page") : s.page[i] = 0}
         /\ FreeIn(s, "rb") = {i \in Entries("rb") : ~s.rb[i].used}
         /\ FreeIn(s, "evs") = {i \in Entries("evs") : ~s.evs[i]}
         /\ FreeIn(s, "dll") = {i \in Entries("dll") : ~s.dll[i]}
<1>1. \A i : InUse(s, "exe", i) <=> Alive(s, i)
  BY DEF InUse, Alive
<1>2. \A i : InUse(s, "thr", i) <=> s.thr[i].n # 0
  BY DEF InUse
<1>3. \A i : InUse(s, "reg", i) <=> s.reg[i] # 0
  BY DEF InUse
<1>4. \A i : InUse(s, "page", i) <=> s.page[i] # 0
  BY DEF InUse
<1>5. \A i : InUse(s, "rb", i) <=> s.rb[i].used
  BY DEF InUse
<1>6. \A i \in Entries("evs") : InUse(s, "evs", i) <=> s.evs[i]
  BY DEF InUse
<1>7. \A i \in Entries("dll") : InUse(s, "dll", i) <=> s.dll[i]
  BY DEF InUse
<1> QED
  BY <1>1, <1>2, <1>3, <1>4, <1>5, <1>6, <1>7 DEF FreeIn

\* One entry of table t gets its first user.
Allots(s, u, t, d) ==
  /\ u \in KernelState /\ u.exe = s.exe /\ u.thr = s.thr /\ u.reg = s.reg
  /\ u.page = s.page /\ u.evs = s.evs /\ u.dll = s.dll /\ u.rb = s.rb
  /\ u.freewords = s.freewords /\ u.queue = s.queue /\ u.panic = s.panic
  /\ u.alloc[t].free = s.alloc[t].free + d
  /\ \A t1 \in Tables \ {t} : u.alloc[t1] = s.alloc[t1]

LEMMA CountedAllots ==
  ASSUME NEW s \in KernelState, NEW t \in Tables, NEW i \in Nat
  PROVE  Allots(s, Counted(s, t, i), t, -1)
<1>0. PICK u : u = Counted(s, t, i)
  OBVIOUS
<1>1. PICK size \in Nat : size = Size[t] /\ size >= 1
  BY CreateAssumption
<1>2. (i + 1) % size \in Int
  BY <1>1
<1>3. PICK row : row = [free |-> s.alloc[t].free - 1, next |-> (i + 1) % size]
  OBVIOUS
<1>4. row \in AllocRow /\ row.free = s.alloc[t].free - 1
  BY <1>2, <1>3 DEF KernelState, AllocRow
<1>5. u = [s EXCEPT !.alloc[t] = row]
  BY <1>0, <1>1, <1>3 DEF Counted
<1>6. u.alloc[t].free = s.alloc[t].free + (-1)
  BY <1>4, <1>5 DEF KernelState, AllocRow
<1>7. /\ u \in KernelState /\ u.exe = s.exe /\ u.thr = s.thr /\ u.reg = s.reg
      /\ u.page = s.page /\ u.evs = s.evs /\ u.dll = s.dll /\ u.rb = s.rb
      /\ u.freewords = s.freewords /\ u.queue = s.queue /\ u.panic = s.panic
      /\ \A t1 \in Tables \ {t} : u.alloc[t1] = s.alloc[t1]
  BY <1>4, <1>5 DEF KernelState
<1> QED
  BY <1>0, <1>6, <1>7 DEF Allots

LEMMA FreedAllots ==
  ASSUME NEW s \in KernelState, NEW t \in Tables
  PROVE  Allots(s, Freed(s, t), t, 1)
<1>0. PICK u : u = Freed(s, t)
  OBVIOUS
<1>1. PICK row : row = [s.alloc[t] EXCEPT !.free = @ + 1]
  OBVIOUS
<1>2. s.alloc[t] \in AllocRow
  BY DEF KernelState
<1>3. row \in AllocRow /\ row.free = s.alloc[t].free + 1
  BY <1>1, <1>2 DEF AllocRow
<1>4. u = [s EXCEPT !.alloc[t] = row]
  BY <1>0, <1>1, <1>2 DEF Freed, KernelState, AllocRow
<1>5. /\ u \in KernelState /\ u.exe = s.exe /\ u.thr = s.thr /\ u.reg = s.reg
      /\ u.page = s.page /\ u.evs = s.evs /\ u.dll = s.dll /\ u.rb = s.rb
      /\ u.freewords = s.freewords /\ u.queue = s.queue /\ u.panic = s.panic
      /\ u.alloc[t].free = s.alloc[t].free + 1
      /\ \A t1 \in Tables \ {t} : u.alloc[t1] = s.alloc[t1]
  BY <1>3, <1>4 DEF KernelState
<1> QED
  BY <1>0, <1>5 DEF Allots

LEMMA AllotsSame ==
  ASSUME NEW s \in KernelState, NEW u, NEW t, NEW d, Allots(s, u, t, d)
  PROVE  /\ \A t1 \in Columns : \A i : NumberOf(u, t1, i) = NumberOf(s, t1, i)
         /\ \A t1, i : Holders(u, t1, i) = Holders(s, t1, i)
<1>1. /\ u \in KernelState /\ u.exe = s.exe /\ u.thr = s.thr /\ u.reg = s.reg
      /\ u.page = s.page /\ u.evs = s.evs /\ u.dll = s.dll
  BY DEF Allots
<1>2. \A t1 \in Columns : \A i : NumberOf(u, t1, i) = NumberOf(s, t1, i)
  BY <1>1 DEF NumberOf, Columns, KernelState
<1>3. \A t1, i : Holders(u, t1, i) = Holders(s, t1, i)
  BY <1>1 DEF Holders, Alive
<1> QED
  BY <1>2, <1>3

\* Where nothing is said to have changed, the same is free.
LEMMA NumberFree ==
  ASSUME NEW s \in KernelState, NEW t \in Columns, NEW i \in Entries(t)
  PROVE  /\ i \in FreeIn(s, t) <=> NumberOf(s, t, i) = 0
         /\ NumberOf(s, t, i) \in Int
<1>1. CASE t = "thr"
  BY <1>1 DEF FreeIn, InUse, NumberOf, KernelState, ThrRow
<1>2. CASE t \in {"reg", "page"}
  BY <1>2 DEF FreeIn, InUse, NumberOf, KernelState
<1>3. CASE t \in {"evs", "dll"}
  BY <1>3 DEF FreeIn, InUse, NumberOf, KernelState
<1> QED
  BY <1>1, <1>2, <1>3 DEF Columns

LEMMA SameFree ==
  ASSUME NEW s \in KernelState, NEW u \in KernelState, NEW t \in Tables,
         \/ t \in Columns /\ \A i \in Entries(t) : NumberOf(u, t, i) = NumberOf(s, t, i)
         \/ t = "rb" /\ \A i \in Entries("rb") : u.rb[i].used = s.rb[i].used
         \/ t = "exe" /\ \A i \in Entries("exe") : Alive(u, i) <=> Alive(s, i)
  PROVE  FreeIn(u, t) = FreeIn(s, t)
<1>1. CASE t \in Columns
  <2>1. \A i \in Entries(t) : NumberOf(u, t, i) = NumberOf(s, t, i)
    BY <1>1 DEF Columns
  <2>2. \A i \in Entries(t) : i \in FreeIn(u, t) <=> i \in FreeIn(s, t)
    BY <1>1, <2>1, NumberFree
  <2> QED
    BY <2>2 DEF FreeIn
<1>2. CASE t = "rb"
  <2>1. \A i \in Entries("rb") : u.rb[i].used = s.rb[i].used
    BY <1>2 DEF Columns
  <2> QED
    BY <1>2, <2>1 DEF FreeIn, InUse
<1>3. CASE t = "exe"
  <2>1. \A i \in Entries("exe") : Alive(u, i) <=> Alive(s, i)
    BY <1>3 DEF Columns
  <2>2. /\ FreeIn(u, "exe") = {i \in Entries("exe") : ~Alive(u, i)}
        /\ FreeIn(s, "exe") = {i \in Entries("exe") : ~Alive(s, i)}
    BY FreeInIs
  <2> QED
    BY <1>3, <2>1, <2>2
<1> QED
  BY <1>1, <1>2, <1>3

\* One row of the executables has changed: who holds what.
RowSet(s, u, e, row) ==
  s \in KernelState /\ e \in Entries("exe") /\ u.exe = [s.exe EXCEPT ![e] = row]

LEMMA HolderJoins ==
  ASSUME NEW s, NEW u, NEW e, NEW row, RowSet(s, u, e, row),
         NEW t, NEW i, row.state # "free", row[t] = i
  PROVE  Holders(u, t, i) = Holders(s, t, i) \union {e}
BY DEF RowSet, Holders, Alive, KernelState

LEMMA HolderLeaves ==
  ASSUME NEW s, NEW u, NEW e, NEW row, RowSet(s, u, e, row),
         NEW t, NEW i, row.state = "free" \/ row[t] # i
  PROVE  Holders(u, t, i) = Holders(s, t, i) \ {e}
BY DEF RowSet, Holders, Alive, KernelState

\* No entry is Nil.
LEMMA NilIsNone ==
  ASSUME NEW t \in Tables
  PROVE  Nil \notin Entries(t)
BY TablesFinite DEF Nil

\* The column in which e has got entry i
LEMMA CountsJoined ==
  ASSUME NEW s, NEW u, NEW e, NEW row, RowSet(s, u, e, row),
         NEW t \in Columns, NEW i \in Entries(t), Counts(s, t),
         Alive(s, e) => s.exe[e][t] = Nil, row.state # "free", row[t] = i,
         NumberOf(u, t, i) = NumberOf(s, t, i) + 1,
         \A j \in Entries(t) \ {i} : NumberOf(u, t, j) = NumberOf(s, t, j)
  PROVE  Counts(u, t)
<1>0. s \in KernelState /\ e \in Entries("exe")
  BY DEF RowSet
<1> SUFFICES ASSUME NEW j \in Entries(t)
             PROVE  IF t = "page" THEN NumberOf(u, t, j) >= Cardinality(Holders(u, t, j))
                                  ELSE NumberOf(u, t, j) = Cardinality(Holders(u, t, j))
  BY DEF Counts
<1>1. e \notin Holders(s, t, j)
  BY NilIsNone DEF Holders, Columns, Tables
<1>2. IF t = "page" THEN NumberOf(s, t, j) >= Cardinality(Holders(s, t, j))
                    ELSE NumberOf(s, t, j) = Cardinality(Holders(s, t, j))
  BY DEF Counts
<1>3. NumberOf(s, t, j) \in Int /\ Cardinality(Holders(s, t, j)) \in Nat
  BY <1>0, NumberFree, HoldersFinite
<1>4. CASE j = i
  <2>1. Holders(u, t, j) = Holders(s, t, j) \union {e}
    BY <1>4, HolderJoins
  <2>2. IsFiniteSet(Holders(s, t, j))
    BY HoldersFinite
  <2>3. Cardinality(Holders(u, t, j)) = Cardinality(Holders(s, t, j)) + 1
    BY <1>1, <2>1, <2>2, OneMore
  <2> QED
    BY <1>2, <1>3, <1>4, <2>3
<1>5. CASE j # i
  <2>1. Holders(u, t, j) = Holders(s, t, j) \ {e}
    BY <1>5, HolderLeaves
  <2>2. Holders(u, t, j) = Holders(s, t, j)
    BY <1>1, <2>1
  <2> QED
    BY <1>2, <1>5, <2>2
<1> QED
  BY <1>4, <1>5

\* The column in which e has left entry i
LEMMA CountsLeft ==
  ASSUME NEW s, NEW u, NEW e, NEW row, RowSet(s, u, e, row),
         NEW t \in Columns, NEW i \in Entries(t), Counts(s, t),
         Alive(s, e), s.exe[e][t] = i, row.state = "free",
         \/ NumberOf(u, t, i) = NumberOf(s, t, i) - 1
         \/ t = "page" /\ NumberOf(u, t, i) = NumberOf(s, t, i),
         \A j \in Entries(t) \ {i} : NumberOf(u, t, j) = NumberOf(s, t, j)
  PROVE  Counts(u, t)
<1>0. s \in KernelState /\ e \in Entries("exe")
  BY DEF RowSet
<1> SUFFICES ASSUME NEW j \in Entries(t)
             PROVE  IF t = "page" THEN NumberOf(u, t, j) >= Cardinality(Holders(u, t, j))
                                  ELSE NumberOf(u, t, j) = Cardinality(Holders(u, t, j))
  BY DEF Counts
<1>2. IF t = "page" THEN NumberOf(s, t, j) >= Cardinality(Holders(s, t, j))
                    ELSE NumberOf(s, t, j) = Cardinality(Holders(s, t, j))
  BY DEF Counts
<1>3. NumberOf(s, t, j) \in Int /\ Cardinality(Holders(s, t, j)) \in Nat
  BY <1>0, NumberFree, HoldersFinite
<1>6. Holders(u, t, j) = Holders(s, t, j) \ {e}
  BY HolderLeaves
<1>4. CASE j = i
  <2>1. e \in Holders(s, t, j)
    BY <1>0, <1>4 DEF Holders
  <2>2. IsFiniteSet(Holders(s, t, j))
    BY HoldersFinite
  <2>3. Cardinality(Holders(u, t, j)) = Cardinality(Holders(s, t, j)) - 1
    BY <1>6, <2>1, <2>2, OneLess
  <2> QED
    BY <1>2, <1>3, <1>4, <2>3
<1>5. CASE j # i
  <2>1. e \notin Holders(s, t, j)
    BY <1>5 DEF Holders
  <2>2. Holders(u, t, j) = Holders(s, t, j)
    BY <1>6, <2>1
  <2> QED
    BY <1>2, <1>5, <2>2
<1> QED
  BY <1>4, <1>5

\* A column in which e has what it had, or nothing
LEMMA CountsKept ==
  ASSUME NEW s, NEW u, NEW e, NEW row, RowSet(s, u, e, row),
         NEW t \in Columns, Counts(s, t),
         \/ Alive(s, e) /\ row.state # "free" /\ row[t] = s.exe[e][t]
         \/ (Alive(s, e) => s.exe[e][t] = Nil) /\ (row.state # "free" => row[t] = Nil),
         \A j \in Entries(t) : NumberOf(u, t, j) = NumberOf(s, t, j)
  PROVE  Counts(u, t)
<1>0. s \in KernelState /\ e \in Entries("exe")
  BY DEF RowSet
<1>1. ASSUME NEW i \in Entries(t) PROVE Holders(u, t, i) = Holders(s, t, i)
  <2>1. i # Nil
    BY NilIsNone DEF Tables, Columns
  <2>2. e \in Holders(s, t, i) <=> Alive(s, e) /\ s.exe[e][t] = i
    BY <1>0 DEF Holders
  <2>3. CASE row.state # "free" /\ row[t] = i
    <3>1. Holders(u, t, i) = Holders(s, t, i) \union {e}
      BY <2>3, HolderJoins
    <3> QED
      BY <2>1, <2>2, <2>3, <3>1
  <2>4. CASE ~(row.state # "free" /\ row[t] = i)
    <3>1. Holders(u, t, i) = Holders(s, t, i) \ {e}
      BY <2>4, HolderLeaves
    <3> QED
      BY <2>1, <2>2, <2>4, <3>1
  <2> QED
    BY <2>3, <2>4
<1> QED
  BY <1>1 DEF Counts

\* What is free, when one entry is taken or given back, or none
LEMMA FreeTaken ==
  ASSUME NEW s, NEW u, NEW t \in Tables, NEW i, CountsFree(s, t),
         i \in FreeIn(s, t), FreeIn(u, t) = FreeIn(s, t) \ {i},
         u.alloc[t].free = s.alloc[t].free - 1
  PROVE  CountsFree(u, t)
<1>1. IsFiniteSet(FreeIn(s, t))
  BY FreeFinite
<1>2. Cardinality(FreeIn(u, t)) = Cardinality(FreeIn(s, t)) - 1
  BY <1>1, OneLess
<1> QED
  BY <1>2 DEF CountsFree

LEMMA FreeGiven ==
  ASSUME NEW s, NEW u, NEW t \in Tables, NEW i, CountsFree(s, t),
         i \notin FreeIn(s, t), FreeIn(u, t) = FreeIn(s, t) \union {i},
         u.alloc[t].free = s.alloc[t].free + 1
  PROVE  CountsFree(u, t)
<1>1. IsFiniteSet(FreeIn(s, t))
  BY FreeFinite
<1>2. Cardinality(FreeIn(u, t)) = Cardinality(FreeIn(s, t)) + 1
  BY <1>1, OneMore
<1> QED
  BY <1>2 DEF CountsFree

LEMMA FreeKept ==
  ASSUME NEW s, NEW u, NEW t, CountsFree(s, t), FreeIn(u, t) = FreeIn(s, t),
         u.alloc[t].free = s.alloc[t].free
  PROVE  CountsFree(u, t)
BY DEF CountsFree

-----------------------------------------------------------------------------
(* Parts that an executable takes                                          *)

\* Executable e gets entry i of table t: it joins those that use it already, or it is
\* the first.
Takes(s, u, e, t, i) ==
  /\ s \in KernelState /\ u \in KernelState /\ Alive(s, e) /\ Alive(u, e)
  /\ e \in Entries("exe") /\ t \in Columns /\ i \in Entries(t)
  /\ u.exe = [s.exe EXCEPT ![e] = u.exe[e]]
  /\ s.exe[e][t] = Nil /\ u.exe[e][t] = i
  /\ \A t1 \in Columns \ {t} : u.exe[e][t1] = s.exe[e][t1]
  /\ NumberOf(u, t, i) = NumberOf(s, t, i) + 1
  /\ \A t1 \in Columns : \A j \in Entries(t1) :
       t1 # t \/ j # i => NumberOf(u, t1, j) = NumberOf(s, t1, j)
  /\ \A j \in Entries("rb") : u.rb[j].used = s.rb[j].used
  /\ \A t1 \in Tables \ {t} : u.alloc[t1].free = s.alloc[t1].free
  /\ \/ Holders(s, t, i) # {} /\ u.alloc[t].free = s.alloc[t].free
     \/ i \in FreeIn(s, t) /\ u.alloc[t].free = s.alloc[t].free - 1

LEMMA TakesAccounted ==
  ASSUME NEW s, NEW u, NEW e, NEW t, NEW i, Takes(s, u, e, t, i), AccountedIn(s)
  PROVE  AccountedIn(u)
<1>1. /\ s \in KernelState /\ u \in KernelState /\ e \in Entries("exe")
      /\ t \in Columns /\ t \in Tables /\ i \in Entries(t)
  BY DEF Takes, Columns, Tables
<1>2. PICK row : row = u.exe[e]
  OBVIOUS
<1>3. /\ RowSet(s, u, e, row) /\ u.exe = [s.exe EXCEPT ![e] = row]
      /\ row.state # "free" /\ row[t] = i
      /\ Alive(s, e) /\ s.exe[e][t] = Nil
      /\ \A t1 \in Columns \ {t} : row[t1] = s.exe[e][t1]
  BY <1>2 DEF Takes, Alive, RowSet
<1>4. Counts(u, t)
  <2>1. /\ Counts(s, t) /\ NumberOf(u, t, i) = NumberOf(s, t, i) + 1
        /\ \A j \in Entries(t) \ {i} : NumberOf(u, t, j) = NumberOf(s, t, j)
    BY <1>1 DEF AccountedIn, Takes
  <2> QED
    BY <1>1, <1>3, <2>1, CountsJoined
<1>5. ASSUME NEW t1 \in Columns, t1 # t PROVE Counts(u, t1)
  <2>1. /\ Counts(s, t1) /\ row[t1] = s.exe[e][t1]
        /\ \A j \in Entries(t1) : NumberOf(u, t1, j) = NumberOf(s, t1, j)
    BY <1>3, <1>5 DEF AccountedIn, Takes
  <2> QED
    BY <1>1, <1>3, <2>1, CountsKept
<1>6. \A i1 \in Entries("exe") : Alive(u, i1) <=> Alive(s, i1)
  BY <1>1, <1>3 DEF Alive, KernelState
<1>7. ASSUME NEW t1 \in Tables, t1 # t PROVE CountsFree(u, t1)
  <2>1. \/ t1 \in Columns /\ \A j \in Entries(t1) : NumberOf(u, t1, j) = NumberOf(s, t1, j)
        \/ t1 = "rb" /\ \A j \in Entries("rb") : u.rb[j].used = s.rb[j].used
        \/ t1 = "exe"
    BY <1>7 DEF Takes, Tables, Columns
  <2>2. FreeIn(u, t1) = FreeIn(s, t1)
    BY <1>1, <1>6, <2>1, SameFree
  <2>3. CountsFree(s, t1) /\ u.alloc[t1].free = s.alloc[t1].free
    BY <1>7 DEF AccountedIn, Takes
  <2> QED
    BY <2>2, <2>3, FreeKept
<1>8. CountsFree(u, t)
  <2>1. \A j \in Entries(t) : j # i => NumberOf(u, t, j) = NumberOf(s, t, j)
    BY <1>1 DEF Takes
  <2>2. /\ \A j \in Entries(t) : j \in FreeIn(s, t) <=> NumberOf(s, t, j) = 0
        /\ \A j \in Entries(t) : j \in FreeIn(u, t) <=> NumberOf(u, t, j) = 0
    BY <1>1, NumberFree
  <2>3. NumberOf(s, t, i) \in Int /\ NumberOf(u, t, i) = NumberOf(s, t, i) + 1
    BY <1>1, NumberFree DEF Takes
  <2>4. FreeIn(s, t) \subseteq Entries(t) /\ FreeIn(u, t) \subseteq Entries(t)
    BY DEF FreeIn
  <2>5. CountsFree(s, t)
    BY <1>1 DEF AccountedIn
  <2>6. CASE Holders(s, t, i) # {} /\ u.alloc[t].free = s.alloc[t].free
    <3>1. Cardinality(Holders(s, t, i)) # 0 /\ Cardinality(Holders(s, t, i)) \in Nat
      BY <2>6, HoldersFinite, NobodyCounted
    <3>2. NumberOf(s, t, i) >= Cardinality(Holders(s, t, i))
      BY <1>1, <2>3, <3>1 DEF AccountedIn, Counts
    <3>3. NumberOf(s, t, i) # 0 /\ NumberOf(u, t, i) # 0
      BY <2>3, <3>1, <3>2
    <3>4. FreeIn(u, t) = FreeIn(s, t)
      BY <1>1, <2>1, <2>2, <2>4, <3>3
    <3> QED
      BY <2>5, <2>6, <3>4, FreeKept
  <2>7. CASE i \in FreeIn(s, t) /\ u.alloc[t].free = s.alloc[t].free - 1
    <3>1. NumberOf(u, t, i) # 0
      BY <1>1, <2>2, <2>3, <2>7
    <3>2. FreeIn(u, t) = FreeIn(s, t) \ {i}
      BY <1>1, <2>1, <2>2, <2>4, <3>1
    <3> QED
      BY <1>1, <2>5, <2>7, <3>2, FreeTaken
  <2> QED
    BY <2>6, <2>7 DEF Takes
<1> QED
  BY <1>4, <1>5, <1>7, <1>8 DEF AccountedIn

LEMMA FoundOrFull ==
  ASSUME NEW s \in KernelState, NEW t \in Tables, AccountedIn(s)
  PROVE  \/ Found(s, t) = Nil /\ s.alloc[t].free <= 0
         \/ Found(s, t) \in FreeIn(s, t) /\ Found(s, t) \in Entries(t) /\ Found(s, t) # Nil
<1>1. FreeIn(s, t) = {} => s.alloc[t].free = 0
  BY FS_EmptySet DEF AccountedIn, CountsFree
<1>2. FreeIn(s, t) \subseteq Entries(t) /\ Nil \notin Entries(t)
  BY NilIsNone DEF FreeIn
<1>3. \/ Found(s, t) = Nil /\ (s.alloc[t].free <= 0 \/ FreeIn(s, t) = {})
      \/ Found(s, t) \in FreeIn(s, t)
  BY FoundIsFree
<1> QED
  BY <1>1, <1>2, <1>3

\* Whoever can block has registers and a stack of its own.
Blocks(s, e) == Alive(s, e) /\ "blocking" \in s.exe[e].flags

ApartIn(s) ==
  \A e \in Entries("exe") : Blocks(s, e) =>
    \A t \in {"reg", "page"} : Holders(s, t, s.exe[e][t]) = {e}

LEMMA ApartIsIn ==
  ASSUME ApartIn(k)
  PROVE  BlockingIsApart
<1>1. Live = {e \in Entries("exe") : Alive(k, e)}
  BY DEF Live, Alive
<1>2. \A t, i : UsersOf(t, i) = Holders(k, t, i)
  BY <1>1 DEF UsersOf, Holders
<1>3. ASSUME NEW e \in Live, "blocking" \in k.exe[e].flags
      PROVE  UsersOf("reg", k.exe[e].reg) = {e} /\ UsersOf("page", k.exe[e].page) = {e}
  <2>1. \A t \in {"reg", "page"} : Holders(k, t, k.exe[e][t]) = {e}
    BY <1>1, <1>3 DEF ApartIn, Blocks
  <2>2. Holders(k, "reg", k.exe[e].reg) = {e} /\ Holders(k, "page", k.exe[e].page) = {e}
    BY <2>1
  <2> QED
    BY <1>2, <2>2
<1> QED
  BY <1>3 DEF BlockingIsApart

\* Nobody has changed registers or stack, or become one who blocks.
LEMMA ApartKept ==
  ASSUME NEW s, NEW u, ApartIn(s),
         \A e \in Entries("exe") :
           /\ Alive(u, e) <=> Alive(s, e)
           /\ Alive(s, e) => /\ u.exe[e].flags = s.exe[e].flags
                             /\ \A t \in {"reg", "page"} : u.exe[e][t] = s.exe[e][t]
  PROVE  ApartIn(u)
<1>1. ASSUME NEW t \in {"reg", "page"}, NEW i PROVE Holders(u, t, i) = Holders(s, t, i)
  BY DEF Holders
<1>2. \A e \in Entries("exe") : Blocks(u, e) <=> Blocks(s, e)
  BY DEF Blocks
<1>3. ASSUME NEW e \in Entries("exe"), Blocks(u, e), NEW t \in {"reg", "page"}
      PROVE  Holders(u, t, u.exe[e][t]) = {e}
  <2>1. Blocks(s, e) /\ u.exe[e][t] = s.exe[e][t]
    BY <1>2, <1>3 DEF Blocks
  <2>2. Holders(s, t, s.exe[e][t]) = {e}
    BY <2>1 DEF ApartIn
  <2> QED
    BY <1>1, <2>1, <2>2
<1> QED
  BY <1>3 DEF ApartIn

\* Entry i of table t is nobody's, or e may join those who have it.
Harmless(s, e, t, i) ==
  i \in FreeIn(s, t) \/ (~Blocks(s, e) /\ \E w \in Holders(s, t, i) : ~Blocks(s, w))

\* The registers or the stack that e takes are those of nobody who blocks.
LEMMA ApartTaken ==
  ASSUME NEW s, NEW u, NEW e, NEW t \in {"reg", "page"}, NEW i, Takes(s, u, e, t, i),
         AccountedIn(s), ApartIn(s), u.exe[e].flags = s.exe[e].flags,
         Harmless(s, e, t, i)
  PROVE  ApartIn(u)
<1>1. /\ s \in KernelState /\ u \in KernelState /\ e \in Entries("exe")
      /\ t \in Columns /\ t \in Tables /\ i \in Entries(t) /\ i # Nil
  BY NilIsNone DEF Takes, Columns, Tables
<1>2. PICK row : row = u.exe[e]
  OBVIOUS
<1>3. /\ RowSet(s, u, e, row) /\ u.exe = [s.exe EXCEPT ![e] = row]
      /\ row.state # "free" /\ row[t] = i
      /\ Alive(s, e) /\ s.exe[e][t] = Nil /\ row.flags = s.exe[e].flags
      /\ \A t1 \in Columns \ {t} : row[t1] = s.exe[e][t1]
  BY <1>2 DEF Takes, Alive, RowSet
<1>4. \A j \in Entries("exe") \ {e} : u.exe[j] = s.exe[j]
  BY <1>1, <1>3 DEF KernelState
<1>5. \A j \in Entries("exe") : Blocks(u, j) <=> Blocks(s, j)
  BY <1>1, <1>2, <1>3, <1>4 DEF Blocks, Alive
<1>6. ASSUME i \in FreeIn(s, t) PROVE Holders(s, t, i) = {}
  <2>1. NumberOf(s, t, i) = 0
    BY <1>1, <1>6, NumberFree
  <2>2. Counts(s, t)
    BY <1>1 DEF AccountedIn
  <2>3. Cardinality(Holders(s, t, i)) \in Nat /\ IsFiniteSet(Holders(s, t, i))
    BY HoldersFinite
  <2>4. NumberOf(s, t, i) >= Cardinality(Holders(s, t, i))
    BY <1>1, <2>2, <2>3 DEF Counts
  <2>5. Cardinality(Holders(s, t, i)) = 0
    BY <2>1, <2>3, <2>4
  <2> QED
    BY <2>3, <2>5, NobodyCounted
<1>7. Holders(u, t, i) = Holders(s, t, i) \union {e}
  BY <1>1, <1>3, HolderJoins
<1>8. ASSUME NEW j \in Entries("exe"), Blocks(u, j)
      PROVE  Holders(u, t, u.exe[j][t]) = {j}
  <2>1. CASE j = e
    <3>1. Holders(s, t, i) = {}
      BY <1>5, <1>6, <1>8, <2>1 DEF Harmless
    <3> QED
      BY <1>2, <1>3, <1>7, <2>1, <3>1
  <2>2. CASE j # e
    <3>1. Blocks(s, j) /\ u.exe[j] = s.exe[j]
      BY <1>4, <1>5, <1>8, <2>2
    <3>2. Holders(s, t, s.exe[j][t]) = {j}
      BY <3>1 DEF ApartIn
    <3>3. s.exe[j][t] # i
      BY <1>6, <3>1, <3>2 DEF Harmless
    <3>4. Holders(u, t, s.exe[j][t]) = Holders(s, t, s.exe[j][t]) \ {e}
      BY <1>1, <1>3, <3>3, HolderLeaves
    <3> QED
      BY <2>2, <3>1, <3>2, <3>4
  <2> QED
    BY <2>1, <2>2
<1>9. ASSUME NEW j \in Entries("exe"), Blocks(u, j), NEW t1 \in {"reg", "page"}, t1 # t
      PROVE  Holders(u, t1, u.exe[j][t1]) = {j}
  <2>1. row[t1] = s.exe[e][t1]
    BY <1>3, <1>9 DEF Columns
  <2>2. \A n \in Entries("exe") : u.exe[n][t1] = s.exe[n][t1] /\ (Alive(u, n) <=> Alive(s, n))
    BY <1>1, <1>2, <1>3, <1>4, <2>1 DEF Alive
  <2>3. \A x : Holders(u, t1, x) = Holders(s, t1, x)
    BY <2>2 DEF Holders
  <2>4. Blocks(s, j)
    BY <1>5, <1>9
  <2> QED
    BY <2>2, <2>3, <2>4 DEF ApartIn
<1>10. ASSUME NEW j \in Entries("exe"), Blocks(u, j), NEW t1 \in {"reg", "page"}
       PROVE  Holders(u, t1, u.exe[j][t1]) = {j}
  BY <1>8, <1>9, <1>10
<1> QED
  BY <1>10 DEF ApartIn

-----------------------------------------------------------------------------
(* The creation of an executable, part by part                             *)

\* Executables that share a thread have the same priority.
Mates(s) ==
  \A e, j \in Entries("exe") :
    Alive(s, e) /\ Alive(s, j) /\ s.exe[e].thr = s.exe[j].thr /\ s.exe[e].thr # Nil =>
      s.exe[e].prio = s.exe[j].prio

\* A part is found, and nothing else happens, but that events bring the flag for
\* blocking and that a new thread forgets its job queue.
Obtains(s, u, e, t, i) ==
  /\ Takes(s, u, e, t, i)
  /\ u.panic = s.panic /\ u.queue = s.queue /\ u.rb = s.rb
  /\ u.exe[e].state = s.exe[e].state /\ u.exe[e].prio = s.exe[e].prio
  /\ \/ u.exe[e].flags = s.exe[e].flags
     \/ /\ t = "evs" /\ "events" \in s.exe[e].flags
        /\ u.exe[e].flags = s.exe[e].flags \union {"blocking"}
  /\ \A x \in Entries("thr") :
       /\ u.thr[x].exe = s.thr[x].exe
       /\ u.thr[x].jobs = s.thr[x].jobs \/ (u.thr[x].jobs = Nil /\ s.thr[x].n = 0)
  /\ t # "thr" => u.thr = s.thr
  /\ t \in {"reg", "page"} => Harmless(s, e, t, i)
  /\ t = "thr" =>
       \A j \in Entries("exe") :
         Alive(s, j) /\ s.exe[j].thr = i => s.exe[j].prio = s.exe[e].prio

\* There is none left.
Misses(s, u, t) ==
  /\ s.alloc[t].free <= 0
  /\ \E why \in Failures : u = [s EXCEPT !.panic = why]

Needed == {"thr", "reg", "page"}

\* Whether c needs a part of table t, and whether one that it needs is missing
Asks(c, t) ==
  /\ t = "evs" => "events" \in c.flags
  /\ t = "dll" => c.flags \intersect {"events", "blocking"} # {}
Lacks(s, c, T) == \E t \in T : s.alloc[t].free <= 0 /\ Asks(c, t)

\* u is s with executable e on top, created from c as far as the parts of T.
Creating(s, u, e, c, T) ==
  /\ s \in KernelState /\ u \in KernelState /\ AccountedIn(u) /\ Mates(u)
  /\ e \in Entries("exe") /\ ~Alive(s, e)
  /\ u.exe = [s.exe EXCEPT ![e] = u.exe[e]]
  /\ u.exe[e].state = "disabled" /\ u.exe[e].prio = c.prio
  /\ \/ u.exe[e].flags = c.flags
     \/ "events" \in c.flags /\ u.exe[e].flags = c.flags \union {"blocking"}
  /\ ("events" \in c.flags => "blocking" \in c.flags) /\ ApartIn(s) => ApartIn(u)
  /\ \A t \in Columns \ T : u.exe[e][t] = Nil
  /\ u.panic = "none" => \A t \in T \intersect Needed : u.exe[e][t] # Nil
  /\ u.panic # "none" => Lacks(s, c, T)
  /\ \A t \in Tables : u.alloc[t].free >= s.alloc[t].free - 1
  /\ \A t \in Columns \ T : u.alloc[t].free = s.alloc[t].free
  /\ u.queue = s.queue /\ u.rb = s.rb
  /\ \A x \in Entries("thr") :
       /\ u.thr[x].exe = s.thr[x].exe
       /\ u.thr[x].jobs = s.thr[x].jobs \/ (u.thr[x].jobs = Nil /\ s.thr[x].n = 0)
  /\ "thr" \notin T => u.thr = s.thr

\* Nothing but dv_panic()
LEMMA PanicAccounted ==
  ASSUME NEW s \in KernelState, NEW why \in Failures, AccountedIn(s)
  PROVE  LET u == [s EXCEPT !.panic = why]
         IN /\ u \in KernelState /\ AccountedIn(u) /\ (ApartIn(s) => ApartIn(u))
            /\ (Mates(s) => Mates(u)) /\ u.panic = why
<1>1. PICK u : u = [s EXCEPT !.panic = why]
  OBVIOUS
<1>2. /\ u \in KernelState /\ u.exe = s.exe /\ u.thr = s.thr /\ u.reg = s.reg
      /\ u.page = s.page /\ u.evs = s.evs /\ u.dll = s.dll /\ u.rb = s.rb
      /\ u.alloc = s.alloc /\ u.panic = why
  BY <1>1 DEF KernelState
<1>3. \A t \in Columns : \A i : NumberOf(u, t, i) = NumberOf(s, t, i)
  BY <1>2 DEF NumberOf, Columns, KernelState
<1>4. \A t, i : Holders(u, t, i) = Holders(s, t, i)
  BY <1>2 DEF Holders, Alive
<1>5. \A t \in Tables : FreeIn(u, t) = FreeIn(s, t)
  <2>1. TAKE t \in Tables
  <2>2. \/ t \in Columns /\ \A i \in Entries(t) : NumberOf(u, t, i) = NumberOf(s, t, i)
        \/ t = "rb" /\ \A i \in Entries("rb") : u.rb[i].used = s.rb[i].used
        \/ t = "exe" /\ \A i \in Entries("exe") : Alive(u, i) <=> Alive(s, i)
    BY <1>2, <1>3 DEF Tables, Columns, Alive
  <2> QED
    BY <1>2, <2>2, SameFree
<1>6. AccountedIn(u)
  BY <1>2, <1>3, <1>4, <1>5 DEF AccountedIn, Counts, CountsFree
<1>7. ApartIn(s) => ApartIn(u)
  BY <1>2, <1>4 DEF ApartIn, Blocks, Alive
<1>8. Mates(s) => Mates(u)
  BY <1>2 DEF Mates, Alive
<1> QED
  BY <1>1, <1>2, <1>6, <1>7, <1>8

LEMMA MissesCreates ==
  ASSUME NEW s0, NEW s, NEW u, NEW e, NEW c, NEW T, NEW t \in Columns \ T,
         Creating(s0, s, e, c, T), Misses(s, u, t), s.panic = "none", Asks(c, t)
  PROVE  Creating(s0, u, e, c, T \union {t})
<1>1. PICK why \in Failures : u = [s EXCEPT !.panic = why] /\ why # "none"
  BY DEF Misses, Failures
<1>2. s \in KernelState /\ AccountedIn(s) /\ Mates(s)
  BY DEF Creating
<1>3. /\ u \in KernelState /\ AccountedIn(u) /\ (ApartIn(s) => ApartIn(u)) /\ Mates(u)
      /\ u.panic = why
  BY <1>1, <1>2, PanicAccounted
<1>4. /\ u.exe = s.exe /\ u.thr = s.thr /\ u.rb = s.rb /\ u.alloc = s.alloc /\ u.queue = s.queue
  BY <1>1, <1>2 DEF KernelState
<1>5. s0.alloc[t].free <= 0
  <2>1. s.alloc[t].free <= 0 /\ s.alloc[t].free = s0.alloc[t].free
    BY DEF Misses, Creating
  <2> QED
    BY <2>1
<1>6. u.panic # "none"
  BY <1>1, <1>3
<1>7. Lacks(s0, c, T \union {t})
  BY <1>5 DEF Lacks
<1> QED
  BY <1>3, <1>4, <1>6, <1>7 DEF Creating

\* Nothing happens any more, or the executable does not need the part.
LEMMA SkipsCreates ==
  ASSUME NEW s0, NEW s, NEW e, NEW c, NEW T, NEW t, Creating(s0, s, e, c, T),
         t \in Needed => s.panic # "none"
  PROVE  Creating(s0, s, e, c, T \union {t})
<1>1. \A x \in Columns \ (T \union {t}) : x \in Columns \ T
  OBVIOUS
<1>2. s.panic = "none" => \A x \in (T \union {t}) \intersect Needed : x \in T \intersect Needed
  OBVIOUS
<1>3. Lacks(s0, c, T) => Lacks(s0, c, T \union {t})
  BY DEF Lacks
<1> QED
  BY <1>1, <1>2, <1>3 DEF Creating

LEMMA ObtainsCreates ==
  ASSUME NEW s0, NEW s, NEW u, NEW e, NEW c, NEW T, NEW t \in Columns \ T, NEW i,
         Creating(s0, s, e, c, T), Obtains(s, u, e, t, i), s.panic = "none"
  PROVE  Creating(s0, u, e, c, T \union {t})
<1>1. /\ s0 \in KernelState /\ s \in KernelState /\ AccountedIn(s) /\ Mates(s)
      /\ e \in Entries("exe") /\ ~Alive(s0, e) /\ s.exe = [s0.exe EXCEPT ![e] = s.exe[e]]
      /\ s.exe[e].state = "disabled" /\ s.exe[e].prio = c.prio
  BY DEF Creating
<1>2. /\ u \in KernelState /\ u.exe = [s.exe EXCEPT ![e] = u.exe[e]]
      /\ i \in Entries(t) /\ t \in Columns /\ t \in Tables /\ Takes(s, u, e, t, i)
      /\ u.exe[e].state = s.exe[e].state /\ u.exe[e].prio = s.exe[e].prio
      /\ u.exe[e][t] = i /\ i # Nil
  BY NilIsNone DEF Obtains, Takes, Columns, Tables
<1>3. AccountedIn(u)
  BY <1>1, <1>2, TakesAccounted
<1>4. u.exe = [s0.exe EXCEPT ![e] = u.exe[e]]
  BY <1>1, <1>2 DEF KernelState
<1>5. \A j \in Entries("exe") : j # e => u.exe[j] = s.exe[j]
  BY <1>1, <1>2 DEF KernelState
<1>6. \A x \in Columns \ {t} : u.exe[e][x] = s.exe[e][x]
  BY DEF Obtains, Takes
<1>7. Mates(u)
  <2>1. CASE t = "thr"
    <3>1. u.exe[e].thr = i
      BY <1>2, <2>1
    <3>2. \A j \in Entries("exe") :
            Alive(s, j) /\ s.exe[j].thr = i => s.exe[j].prio = s.exe[e].prio
      BY <2>1 DEF Obtains
    <3> QED
      BY <1>1, <1>2, <1>5, <3>1, <3>2 DEF Mates, Alive
  <2>2. CASE t # "thr"
    <3>1. u.exe[e].thr = s.exe[e].thr
      BY <1>6, <2>2 DEF Columns
    <3> QED
      BY <1>1, <1>2, <1>5, <3>1 DEF Mates, Alive
  <2> QED
    BY <2>1, <2>2
<1>8. \/ u.exe[e].flags = c.flags
      \/ "events" \in c.flags /\ u.exe[e].flags = c.flags \union {"blocking"}
  <2>1. \/ s.exe[e].flags = c.flags
        \/ "events" \in c.flags /\ s.exe[e].flags = c.flags \union {"blocking"}
    BY DEF Creating
  <2>2. \/ u.exe[e].flags = s.exe[e].flags
        \/ /\ "events" \in s.exe[e].flags
           /\ u.exe[e].flags = s.exe[e].flags \union {"blocking"}
    BY DEF Obtains
  <2>3. "events" \in s.exe[e].flags => "events" \in c.flags
    BY <2>1
  <2> QED
    BY <2>1, <2>2, <2>3
<1>9. ASSUME "events" \in c.flags => "blocking" \in c.flags, ApartIn(s0)
      PROVE  ApartIn(u)
  <2>1. ApartIn(s)
    BY <1>9 DEF Creating
  <2>2. c.flags \union {"blocking"} = c.flags \/ "events" \notin c.flags
    BY <1>9
  <2>3. u.exe[e].flags = c.flags /\ s.exe[e].flags = c.flags
    BY <1>8, <2>2 DEF Creating
  <2>4. CASE t \in {"reg", "page"}
    <3>1. Harmless(s, e, t, i)
      BY <2>4 DEF Obtains
    <3>2. /\ Takes(s, u, e, t, i) /\ AccountedIn(s) /\ ApartIn(s)
          /\ u.exe[e].flags = s.exe[e].flags
      BY <1>1, <1>2, <2>1, <2>3
    <3> QED
      BY <2>4, <3>1, <3>2, ApartTaken
  <2>5. CASE t \notin {"reg", "page"}
    <3>1. \A x \in {"reg", "page"} : u.exe[e][x] = s.exe[e][x]
      BY <1>6, <2>5 DEF Columns
    <3>2. \A j \in Entries("exe") :
            /\ Alive(u, j) <=> Alive(s, j)
            /\ Alive(s, j) => /\ u.exe[j].flags = s.exe[j].flags
                              /\ \A x \in {"reg", "page"} : u.exe[j][x] = s.exe[j][x]
      BY <1>1, <1>2, <1>5, <2>3, <3>1 DEF Alive
    <3> QED
      BY <2>1, <3>2, ApartKept
  <2> QED
    BY <2>4, <2>5
<1>10. \A x \in Columns \ (T \union {t}) : u.exe[e][x] = Nil
  BY <1>6 DEF Creating
<1>11. u.panic = "none" /\ \A x \in (T \union {t}) \intersect Needed : u.exe[e][x] # Nil
  <2>1. u.panic = "none"
    BY DEF Obtains
  <2>2. ASSUME NEW x \in T \intersect Needed PROVE u.exe[e][x] # Nil
    <3>1. s.exe[e][x] # Nil /\ x \in Columns \ {t}
      BY DEF Creating, Needed, Columns
    <3> QED
      BY <1>6, <3>1
  <2> QED
    BY <1>2, <2>1, <2>2
<1>12. \A x \in Tables : u.alloc[x].free >= s0.alloc[x].free - 1
  <2>1. ASSUME NEW x \in Tables, x # t PROVE u.alloc[x].free = s.alloc[x].free
    BY <2>1 DEF Obtains, Takes
  <2>2. s.alloc[t].free = s0.alloc[t].free
    BY DEF Creating
  <2>3. u.alloc[t].free = s.alloc[t].free \/ u.alloc[t].free = s.alloc[t].free - 1
    BY DEF Obtains, Takes
  <2>4. s0.alloc[t].free \in Int
    BY <1>1, <1>2 DEF KernelState, AllocRow
  <2>5. \A x \in Tables : s.alloc[x].free >= s0.alloc[x].free - 1
    BY DEF Creating
  <2> QED
    BY <2>1, <2>2, <2>3, <2>4, <2>5
<1>13. \A x \in Columns \ (T \union {t}) : u.alloc[x].free = s0.alloc[x].free
  BY DEF Obtains, Takes, Creating, Columns, Tables
<1>14. u.queue = s0.queue /\ u.rb = s0.rb
  BY DEF Obtains, Creating
<1>15. \A x \in Entries("thr") :
         /\ u.thr[x].exe = s0.thr[x].exe
         /\ u.thr[x].jobs = s0.thr[x].jobs \/ (u.thr[x].jobs = Nil /\ s0.thr[x].n = 0)
  <2>1. \A x \in Entries("thr") :
         /\ s.thr[x].exe = s0.thr[x].exe
         /\ s.thr[x].jobs = s0.thr[x].jobs \/ (s.thr[x].jobs = Nil /\ s0.thr[x].n = 0)
    BY DEF Creating
  <2>2. \A x \in Entries("thr") :
         /\ u.thr[x].exe = s.thr[x].exe
         /\ u.thr[x].jobs = s.thr[x].jobs \/ (u.thr[x].jobs = Nil /\ s.thr[x].n = 0)
    BY DEF Obtains
  <2>3. t = "thr" => s.thr = s0.thr
    BY DEF Creating
  <2>4. t # "thr" => u.thr = s.thr
    BY DEF Obtains
  <2> QED
    BY <2>1, <2>2, <2>3, <2>4
<1>16. "thr" \notin T \union {t} => u.thr = s0.thr
  BY DEF Obtains, Creating
<1> QED
  BY <1>1, <1>2, <1>3, <1>4, <1>7, <1>8, <1>9, <1>10, <1>11, <1>12, <1>13, <1>14, <1>15, <1>16
     DEF Creating

LEMMA RowsOf ==
  ASSUME NEW s \in KernelState
  PROVE  /\ \A e \in Entries("exe") : s.exe[e] \in ExeRow
         /\ \A t \in Entries("thr") : s.thr[t] \in ThrRow
         /\ \A b \in Entries("rb") : s.rb[b] \in RingRow
BY DEF KernelState

\* A row with one more part
PartSet(row0, row, t, i) ==
  /\ row \in ExeRow /\ row[t] = i /\ \A t1 \in Columns \ {t} : row[t1] = row0[t1]
  /\ row.state = row0.state /\ row.prio = row0.prio /\ row.flags = row0.flags

LEMMA PartSetIs ==
  ASSUME NEW row0 \in ExeRow, NEW t \in Columns, NEW i \in Ref(t)
  PROVE  PartSet(row0, [row0 EXCEPT ![t] = i], t, i)
<1>1. PICK row : row = [row0 EXCEPT ![t] = i]
  OBVIOUS
<1>2. /\ row.state = row0.state /\ row.prio = row0.prio /\ row.flags = row0.flags
      /\ row[t] = i
  BY <1>1 DEF ExeRow, Columns
<1>3. \A t1 \in Columns \ {t} : row[t1] = row0[t1]
  BY <1>1 DEF ExeRow, Columns
<1>4. row \in ExeRow
  <2>1. CASE t = "thr"
    BY <1>1, <2>1 DEF ExeRow
  <2>2. CASE t = "reg"
    BY <1>1, <2>2 DEF ExeRow
  <2>3. CASE t = "page"
    BY <1>1, <2>3 DEF ExeRow
  <2>4. CASE t = "evs"
    BY <1>1, <2>4 DEF ExeRow
  <2>5. CASE t = "dll"
    BY <1>1, <2>5 DEF ExeRow
  <2> QED
    BY <2>1, <2>2, <2>3, <2>4, <2>5 DEF Columns
<1> QED
  BY <1>1, <1>2, <1>3, <1>4 DEF PartSet

\* What dv_allocate_thread() does
LEMMA ThreadObtained ==
  ASSUME NEW s \in KernelState, AccountedIn(s), Mates(s), NEW e \in Entries("exe"),
         Alive(s, e), s.exe[e].thr = Nil
  PROVE  \/ Misses(s, AllocateThread(s, e), "thr")
         \/ \E i : Obtains(s, AllocateThread(s, e), e, "thr", i)
<1>1. PICK with : with = Sharing(s, e, "thr")
  OBVIOUS
<1>2. PICK found : found = Found(s, "thr")
  OBVIOUS
<1>3. PICK u : u = AllocateThread(s, e)
  OBVIOUS
<1>4. "thr" \in Tables /\ "thr" \in Columns /\ "exe" \in Tables
  BY DEF Tables, Columns
<1>5. CASE with # {}
  <2>1. PICK w : w = Min(with)
    OBVIOUS
  <2>2. with \subseteq Entries("exe") /\ with \subseteq Nat
    BY <1>1, <1>4, TablesFinite DEF Sharing
  <2>3. w \in with
    BY <1>5, <2>1, <2>2, MinIsOne
  <2>4. PICK i : i = s.exe[w].thr
    OBVIOUS
  <2>5. /\ w \in Entries("exe") /\ Alive(s, w) /\ s.exe[w].prio = s.exe[e].prio
        /\ i # Nil /\ i \in Entries("thr")
    BY <1>1, <2>3, <2>4 DEF Sharing, Alive, KernelState, ExeRow, Ref
  <2>6. PICK row : row = [s.exe[e] EXCEPT !.thr = i]
    OBVIOUS
  <2>7. PICK trow : trow = [s.thr[i] EXCEPT !.n = @ + 1]
    OBVIOUS
  <2>8. u = [s EXCEPT !.exe[e] = row, !.thr[i] = trow]
    BY <1>1, <1>3, <1>5, <2>1, <2>4, <2>5, <2>6, <2>7 DEF AllocateThread, KernelState
  <2>9. /\ row \in ExeRow /\ row.state = s.exe[e].state
        /\ row.prio = s.exe[e].prio /\ row.flags = s.exe[e].flags
        /\ row["thr"] = i /\ \A t \in Columns \ {"thr"} : row[t] = s.exe[e][t]
    <3>1. s.exe[e] \in ExeRow /\ i \in Ref("thr")
      BY <2>5, RowsOf DEF Ref
    <3>2. PartSet(s.exe[e], [s.exe[e] EXCEPT !["thr"] = i], "thr", i)
      BY <1>4, <3>1, PartSetIs
    <3> QED
      BY <2>6, <3>2 DEF PartSet
  <2>10. /\ trow \in ThrRow /\ trow.n = s.thr[i].n + 1 /\ trow.jobs = s.thr[i].jobs
         /\ trow.exe = s.thr[i].exe
    <3>1. PICK trow0 \in ThrRow : trow0 = s.thr[i]
      BY <2>5, RowsOf
    <3>2. trow = [trow0 EXCEPT !.n = @ + 1]
      BY <2>7, <3>1
    <3> QED
      BY <3>1, <3>2 DEF ThrRow
  <2>11. /\ u \in KernelState /\ u.exe = [s.exe EXCEPT ![e] = row] /\ u.exe[e] = row
         /\ u.thr = [s.thr EXCEPT ![i] = trow] /\ u.reg = s.reg /\ u.page = s.page
         /\ u.evs = s.evs /\ u.dll = s.dll /\ u.rb = s.rb /\ u.alloc = s.alloc
         /\ u.queue = s.queue /\ u.panic = s.panic
    BY <2>5, <2>8, <2>9, <2>10 DEF KernelState
  <2>12. /\ NumberOf(u, "thr", i) = NumberOf(s, "thr", i) + 1
         /\ \A t \in Columns : \A j \in Entries(t) :
              t # "thr" \/ j # i => NumberOf(u, t, j) = NumberOf(s, t, j)
    BY <2>5, <2>10, <2>11 DEF NumberOf, Columns, KernelState
  <2>13. Holders(s, "thr", i) # {}
    BY <2>4, <2>5 DEF Holders
  <2>14. Takes(s, u, e, "thr", i)
    BY <1>4, <2>5, <2>9, <2>11, <2>12, <2>13 DEF Takes, Alive
  <2>15. \A x \in Entries("thr") : u.thr[x].exe = s.thr[x].exe /\ u.thr[x].jobs = s.thr[x].jobs
    BY <2>5, <2>10, <2>11 DEF KernelState
  <2>16. \A j \in Entries("exe") :
           Alive(s, j) /\ s.exe[j].thr = i => s.exe[j].prio = s.exe[e].prio
    BY <2>4, <2>5 DEF Mates
  <2>17. Obtains(s, u, e, "thr", i)
    BY <2>9, <2>11, <2>14, <2>15, <2>16 DEF Obtains
  <2> QED
    BY <1>3, <2>17
<1>6. CASE with = {} /\ found = Nil
  <2>1. s.alloc["thr"].free <= 0
    BY <1>2, <1>4, <1>6, FoundOrFull
  <2>2. u = [s EXCEPT !.panic = "no thread available"]
    BY <1>1, <1>2, <1>3, <1>6 DEF AllocateThread, Panicked
  <2>3. "no thread available" \in Failures
    BY DEF Failures
  <2>4. Misses(s, u, "thr")
    BY <2>1, <2>2, <2>3 DEF Misses
  <2> QED
    BY <1>3, <2>4
<1>7. CASE with = {} /\ found # Nil
  <2>1. PICK i : i = found
    OBVIOUS
  <2>2. i \in FreeIn(s, "thr") /\ i \in Entries("thr") /\ i # Nil /\ i \in Nat
    BY <1>2, <1>4, <1>7, <2>1, FoundOrFull, TablesFinite
  <2>3. PICK row : row = [s.exe[e] EXCEPT !.thr = i]
    OBVIOUS
  <2>4. PICK trow : trow = [s.thr[i] EXCEPT !.n = 1, !.jobs = Nil]
    OBVIOUS
  <2>50. PICK g : g = [s EXCEPT !.exe[e].thr = i]
    OBVIOUS
  <2>51. PICK v : v = [g EXCEPT !.thr[i].n = 1, !.thr[i].jobs = Nil]
    OBVIOUS
  <2>6. u = Counted(v, "thr", i)
    BY <1>1, <1>2, <1>3, <1>7, <2>1, <2>50, <2>51 DEF AllocateThread
  <2>5. v = [s EXCEPT !.exe[e] = row, !.thr[i] = trow]
    <3>1. g = [s EXCEPT !.exe[e] = row]
      BY <2>3, <2>50 DEF KernelState
    <3>2. v = [g EXCEPT !.thr[i] = trow]
      BY <2>2, <2>4, <2>51, <3>1 DEF KernelState
    <3> QED
      BY <3>1, <3>2 DEF KernelState
  <2>7. /\ row \in ExeRow /\ row.state = s.exe[e].state
        /\ row.prio = s.exe[e].prio /\ row.flags = s.exe[e].flags
        /\ row["thr"] = i /\ \A t \in Columns \ {"thr"} : row[t] = s.exe[e][t]
    <3>1. s.exe[e] \in ExeRow /\ i \in Ref("thr")
      BY <2>2, RowsOf DEF Ref
    <3>2. PartSet(s.exe[e], [s.exe[e] EXCEPT !["thr"] = i], "thr", i)
      BY <1>4, <3>1, PartSetIs
    <3> QED
      BY <2>3, <3>2 DEF PartSet
  <2>8. trow \in ThrRow /\ trow.n = 1 /\ trow.jobs = Nil /\ trow.exe = s.thr[i].exe
    <3>1. PICK trow0 \in ThrRow : trow0 = s.thr[i]
      BY <2>2, RowsOf
    <3>2. trow = [trow0 EXCEPT !.n = 1, !.jobs = Nil]
      BY <2>4, <3>1
    <3>3. Nil \in Ref("rb")
      BY DEF Ref
    <3>4. trow = [n |-> 1, jobs |-> Nil, exe |-> trow0.exe]
      BY <3>1, <3>2 DEF ThrRow
    <3> QED
      BY <3>1, <3>3, <3>4 DEF ThrRow
  <2>9. /\ v \in KernelState /\ v.exe = [s.exe EXCEPT ![e] = row]
        /\ v.thr = [s.thr EXCEPT ![i] = trow] /\ v.reg = s.reg /\ v.page = s.page
        /\ v.evs = s.evs /\ v.dll = s.dll /\ v.rb = s.rb /\ v.alloc = s.alloc
        /\ v.queue = s.queue /\ v.panic = s.panic
    BY <2>2, <2>5, <2>7, <2>8 DEF KernelState
  <2>10. Allots(v, Counted(v, "thr", i), "thr", -1)
    BY <1>4, <2>2, <2>9, CountedAllots
  <2>11. /\ u \in KernelState /\ u.exe = [s.exe EXCEPT ![e] = row]
         /\ u.thr = [s.thr EXCEPT ![i] = trow] /\ u.reg = s.reg /\ u.page = s.page
         /\ u.evs = s.evs /\ u.dll = s.dll /\ u.rb = s.rb
         /\ u.queue = s.queue /\ u.panic = s.panic
         /\ u.alloc["thr"].free = s.alloc["thr"].free - 1
         /\ \A t \in Tables \ {"thr"} : u.alloc[t].free = s.alloc[t].free
    BY <2>6, <2>9, <2>10 DEF Allots
  <2>12. u.exe[e] = row
    BY <2>11 DEF KernelState
  <2>13. s.thr[i].n = 0
    BY <2>2, FreeInIs
  <2>14. /\ NumberOf(u, "thr", i) = NumberOf(s, "thr", i) + 1
         /\ \A t \in Columns : \A j \in Entries(t) :
              t # "thr" \/ j # i => NumberOf(u, t, j) = NumberOf(s, t, j)
    BY <2>2, <2>8, <2>11, <2>13 DEF NumberOf, Columns, KernelState
  <2>15. Takes(s, u, e, "thr", i)
    BY <1>4, <2>2, <2>7, <2>11, <2>12, <2>14 DEF Takes, Alive
  <2>16. \A x \in Entries("thr") :
           /\ u.thr[x].exe = s.thr[x].exe
           /\ u.thr[x].jobs = s.thr[x].jobs \/ (u.thr[x].jobs = Nil /\ s.thr[x].n = 0)
    BY <2>2, <2>8, <2>11, <2>13 DEF KernelState
  <2>17. \A j \in Entries("exe") : ~(Alive(s, j) /\ s.exe[j].thr = i)
    <3>1. Cardinality(Holders(s, "thr", i)) = 0
      BY <1>4, <2>2, <2>13 DEF AccountedIn, Counts, NumberOf
    <3>2. Holders(s, "thr", i) = {}
      BY <3>1, HoldersFinite, NobodyCounted
    <3> QED
      BY <3>2 DEF Holders
  <2>18. Obtains(s, u, e, "thr", i)
    BY <2>7, <2>11, <2>12, <2>15, <2>16, <2>17 DEF Obtains
  <2> QED
    BY <1>3, <2>18
<1> QED
  BY <1>5, <1>6, <1>7

\* Registers or pages of which one counts n users now, and one more executable
SharedBy(s, u, e, row, t, j, n) ==
  /\ u \in KernelState /\ u.exe = [s.exe EXCEPT ![e] = row] /\ u.exe[e] = row
  /\ u.thr = s.thr /\ u.evs = s.evs /\ u.dll = s.dll /\ u.rb = s.rb
  /\ u.queue = s.queue /\ u.panic = s.panic /\ u.alloc = s.alloc
  /\ NumberOf(u, t, j) = n
  /\ \A t1 \in Columns : \A j1 \in Entries(t1) :
       t1 # t \/ j1 # j => NumberOf(u, t1, j1) = NumberOf(s, t1, j1)

WithShare(s, e, row, t, j, n) == [[s EXCEPT !.exe[e] = row] EXCEPT ![t][j] = n]

LEMMA SharedSet ==
  ASSUME NEW s \in KernelState, NEW e \in Entries("exe"), NEW row \in ExeRow,
         NEW t \in {"reg", "page"}, NEW j \in Entries(t), NEW n \in Int
  PROVE  SharedBy(s, WithShare(s, e, row, t, j, n), e, row, t, j, n)
<1>0. PICK u : u = WithShare(s, e, row, t, j, n)
  OBVIOUS
<1>1. u = [[s EXCEPT !.exe[e] = row] EXCEPT ![t][j] = n]
  BY <1>0 DEF WithShare
<1>2. CASE t = "reg"
  <2>1. u = [[s EXCEPT !.exe[e] = row] EXCEPT !.reg = [s.reg EXCEPT ![j] = n]]
    BY <1>1, <1>2 DEF KernelState
  <2>2. /\ u \in KernelState /\ u.exe = [s.exe EXCEPT ![e] = row] /\ u.exe[e] = row
        /\ u.thr = s.thr /\ u.evs = s.evs /\ u.dll = s.dll /\ u.rb = s.rb
        /\ u.queue = s.queue /\ u.panic = s.panic /\ u.alloc = s.alloc
        /\ u.page = s.page /\ u.reg = [s.reg EXCEPT ![j] = n]
    BY <1>2, <2>1 DEF KernelState
  <2>3. NumberOf(u, t, j) = n
    BY <1>2, <2>2 DEF NumberOf, KernelState
  <2>4. \A t1 \in Columns : \A j1 \in Entries(t1) :
          t1 # t \/ j1 # j => NumberOf(u, t1, j1) = NumberOf(s, t1, j1)
    BY <1>2, <2>2 DEF NumberOf, KernelState, Columns
  <2> QED
    BY <1>0, <2>2, <2>3, <2>4 DEF SharedBy
<1>3. CASE t = "page"
  <2>1. u = [[s EXCEPT !.exe[e] = row] EXCEPT !.page = [s.page EXCEPT ![j] = n]]
    BY <1>1, <1>3 DEF KernelState
  <2>2. /\ u \in KernelState /\ u.exe = [s.exe EXCEPT ![e] = row] /\ u.exe[e] = row
        /\ u.thr = s.thr /\ u.evs = s.evs /\ u.dll = s.dll /\ u.rb = s.rb
        /\ u.queue = s.queue /\ u.panic = s.panic /\ u.alloc = s.alloc
        /\ u.reg = s.reg /\ u.page = [s.page EXCEPT ![j] = n]
    BY <1>3, <2>1 DEF KernelState
  <2>3. NumberOf(u, t, j) = n
    BY <1>3, <2>2 DEF NumberOf, KernelState
  <2>4. \A t1 \in Columns : \A j1 \in Entries(t1) :
          t1 # t \/ j1 # j => NumberOf(u, t1, j1) = NumberOf(s, t1, j1)
    BY <1>3, <2>2 DEF NumberOf, KernelState, Columns
  <2> QED
    BY <1>0, <2>2, <2>3, <2>4 DEF SharedBy
<1> QED
  BY <1>2, <1>3

\* What dv_allocate_registers() and dv_allocate_stack() do when there is something left
LEMMA SharedObtained ==
  ASSUME NEW s \in KernelState, AccountedIn(s), NEW e \in Entries("exe"), Alive(s, e),
         NEW t \in {"reg", "page"}, s.exe[e][t] = Nil,
         ~(Found(s, t) = Nil /\ SharingNonBlocking(s, e, t) = {})
  PROVE  \E j : Obtains(s, AllocateShared(s, e, t, Found(s, t)), e, t, j)
<1>1. PICK with : with = SharingNonBlocking(s, e, t)
  OBVIOUS
<1>2. PICK i : i = Found(s, t)
  OBVIOUS
<1>3. PICK u : u = AllocateShared(s, e, t, i)
  OBVIOUS
<1>4. t \in Tables /\ t \in Columns /\ "exe" \in Tables
  BY DEF Tables, Columns
<1>5. s.exe[e] \in ExeRow
  BY RowsOf
<1>6. CASE with # {}
  <2>1. PICK w : w = Min(with)
    OBVIOUS
  <2>2. with \subseteq Entries("exe") /\ with \subseteq Nat
    BY <1>1, <1>4, TablesFinite DEF Sharing, SharingNonBlocking
  <2>3. w \in with
    BY <1>6, <2>1, <2>2, MinIsOne
  <2>4. PICK j : j = s.exe[w][t]
    OBVIOUS
  <2>5. /\ w \in Entries("exe") /\ Alive(s, w) /\ j # Nil /\ j \in Entries(t)
        /\ "blocking" \notin s.exe[e].flags /\ s.exe[w].flags = {}
    <3>1. /\ w \in Sharing(s, e, t) /\ "blocking" \notin s.exe[e].flags
          /\ s.exe[w].flags = {}
      BY <1>1, <2>3 DEF SharingNonBlocking
    <3>2. w \in Entries("exe") /\ Alive(s, w) /\ j # Nil
      BY <2>4, <3>1 DEF Sharing, Alive
    <3>3. s.exe[w] \in ExeRow
      BY <3>2, RowsOf
    <3>4. j \in Ref(t)
      BY <2>4, <3>3 DEF ExeRow
    <3> QED
      BY <3>1, <3>2, <3>4 DEF Ref
  <2>6. PICK row : row = [s.exe[e] EXCEPT ![t] = j]
    OBVIOUS
  <2>7. PartSet(s.exe[e], row, t, j)
    <3>1. j \in Ref(t)
      BY <2>5 DEF Ref
    <3> QED
      BY <1>4, <1>5, <2>6, <3>1, PartSetIs
  <2>8. PICK n : n = NumberOf(s, t, j) + 1
    OBVIOUS
  <2>9. n \in Int /\ n = s[t][j] + 1
    BY <1>4, <2>5, <2>8, NumberFree DEF NumberOf
  <2>10. PICK g : g = [s EXCEPT !.exe[e] = row]
    OBVIOUS
  <2>11. g = [s EXCEPT !.exe[e][t] = j] /\ g[t] = s[t]
    BY <2>6, <2>10 DEF KernelState
  <2>12. u = [g EXCEPT ![t][j] = n]
    BY <1>1, <1>3, <1>6, <2>1, <2>4, <2>9, <2>11 DEF AllocateShared
  <2>13. SharedBy(s, u, e, row, t, j, n)
    <3>1. row \in ExeRow
      BY <2>7 DEF PartSet
    <3>2. SharedBy(s, WithShare(s, e, row, t, j, n), e, row, t, j, n)
      BY <2>5, <2>9, <3>1, SharedSet
    <3>3. u = WithShare(s, e, row, t, j, n)
      BY <2>10, <2>12 DEF WithShare
    <3> QED
      BY <3>2, <3>3
  <2>14. Holders(s, t, j) # {} /\ w \in Holders(s, t, j)
    BY <2>4, <2>5 DEF Holders
  <2>15. Takes(s, u, e, t, j)
    BY <1>4, <2>5, <2>7, <2>8, <2>13, <2>14 DEF Takes, Alive, SharedBy, PartSet
  <2>16. Harmless(s, e, t, j)
    BY <2>5, <2>14 DEF Harmless, Blocks
  <2>17. Obtains(s, u, e, t, j)
    BY <2>7, <2>13, <2>15, <2>16 DEF Obtains, SharedBy, PartSet
  <2> QED
    BY <1>2, <1>3, <2>17
<1>7. CASE with = {}
  <2>1. i \in FreeIn(s, t) /\ i \in Entries(t) /\ i # Nil /\ i \in Nat
    BY <1>1, <1>2, <1>4, <1>7, FoundOrFull, TablesFinite
  <2>2. PICK row : row = [s.exe[e] EXCEPT ![t] = i]
    OBVIOUS
  <2>3. PartSet(s.exe[e], row, t, i)
    <3>1. i \in Ref(t)
      BY <2>1 DEF Ref
    <3> QED
      BY <1>4, <1>5, <2>2, <3>1, PartSetIs
  <2>4. PICK g : g = [s EXCEPT !.exe[e] = row]
    OBVIOUS
  <2>5. g = [s EXCEPT !.exe[e][t] = i]
    BY <2>2, <2>4 DEF KernelState
  <2>6. PICK v : v = [g EXCEPT ![t][i] = 1]
    OBVIOUS
  <2>7. u = Counted(v, t, i)
    BY <1>1, <1>3, <1>7, <2>5, <2>6 DEF AllocateShared
  <2>8. SharedBy(s, v, e, row, t, i, 1)
    <3>1. row \in ExeRow
      BY <2>3 DEF PartSet
    <3>2. SharedBy(s, WithShare(s, e, row, t, i, 1), e, row, t, i, 1)
      BY <2>1, <3>1, SharedSet
    <3>3. v = WithShare(s, e, row, t, i, 1)
      BY <2>4, <2>6 DEF WithShare
    <3> QED
      BY <3>2, <3>3
  <2>9. v \in KernelState
    BY <2>8 DEF SharedBy
  <2>10. Allots(v, u, t, -1)
    BY <1>4, <2>1, <2>7, <2>9, CountedAllots
  <2>11. NumberOf(s, t, i) = 0
    BY <1>4, <2>1, NumberFree
  <2>12. /\ u \in KernelState /\ u.exe = [s.exe EXCEPT ![e] = row] /\ u.exe[e] = row
         /\ u.thr = s.thr /\ u.rb = s.rb /\ u.queue = s.queue /\ u.panic = s.panic
         /\ u.alloc[t].free = s.alloc[t].free - 1
         /\ \A t1 \in Tables \ {t} : u.alloc[t1].free = s.alloc[t1].free
    BY <2>8, <2>10 DEF SharedBy, Allots
  <2>13. /\ NumberOf(u, t, i) = NumberOf(s, t, i) + 1
         /\ \A t1 \in Columns : \A j1 \in Entries(t1) :
              t1 # t \/ j1 # i => NumberOf(u, t1, j1) = NumberOf(s, t1, j1)
    <3>1. \A t1 \in Columns : \A j1 : NumberOf(u, t1, j1) = NumberOf(v, t1, j1)
      BY <2>9, <2>10, AllotsSame
    <3> QED
      BY <1>4, <2>8, <2>11, <3>1 DEF SharedBy
  <2>14. Takes(s, u, e, t, i)
    BY <1>4, <2>1, <2>3, <2>12, <2>13 DEF Takes, Alive, PartSet
  <2>15. Obtains(s, u, e, t, i)
    BY <2>1, <2>3, <2>12, <2>14 DEF Obtains, PartSet, Harmless
  <2> QED
    BY <1>2, <1>3, <2>15
<1> QED
  BY <1>6, <1>7

\* An event state or a list element that somebody has now, and one more executable
OwnedBy(s, u, e, row, t, i) ==
  /\ u \in KernelState /\ u.exe = [s.exe EXCEPT ![e] = row] /\ u.exe[e] = row
  /\ u.thr = s.thr /\ u.rb = s.rb /\ u.queue = s.queue /\ u.panic = s.panic
  /\ u.alloc[t].free = s.alloc[t].free - 1
  /\ \A t1 \in Tables \ {t} : u.alloc[t1].free = s.alloc[t1].free
  /\ NumberOf(u, t, i) = NumberOf(s, t, i) + 1
  /\ \A t1 \in Columns : \A j1 \in Entries(t1) :
       t1 # t \/ j1 # i => NumberOf(u, t1, j1) = NumberOf(s, t1, j1)

WithEvents(s, e, row, i) ==
  Counted([s EXCEPT !.exe = [@ EXCEPT ![e] = row], !.evs = [@ EXCEPT ![i] = TRUE]], "evs", i)

WithElement(s, e, row, i) ==
  Counted([s EXCEPT !.exe = [@ EXCEPT ![e] = row], !.dll = [@ EXCEPT ![i] = TRUE]], "dll", i)

LEMMA EventsSet ==
  ASSUME NEW s \in KernelState, NEW e \in Entries("exe"), NEW row \in ExeRow,
         NEW i \in Entries("evs"), i \in FreeIn(s, "evs")
  PROVE  OwnedBy(s, WithEvents(s, e, row, i), e, row, "evs", i)
<1>1. PICK v : v = [s EXCEPT !.exe = [@ EXCEPT ![e] = row], !.evs = [@ EXCEPT ![i] = TRUE]]
  OBVIOUS
<1>2. PICK u : u = Counted(v, "evs", i)
  OBVIOUS
<1>3. "evs" \in Tables /\ i \in Nat
  BY TablesFinite DEF Tables
<1>4. /\ v \in KernelState /\ v.exe = [s.exe EXCEPT ![e] = row]
      /\ v.thr = s.thr /\ v.rb = s.rb /\ v.queue = s.queue /\ v.panic = s.panic
      /\ v.reg = s.reg /\ v.page = s.page /\ v.dll = s.dll /\ v.alloc = s.alloc
      /\ v.evs = [s.evs EXCEPT ![i] = TRUE]
  BY <1>1 DEF KernelState
<1>5. Allots(v, u, "evs", -1)
  BY <1>2, <1>3, <1>4, CountedAllots
<1>6. ~s.evs[i]
  BY FreeInIs
<1>7. NumberOf(v, "evs", i) = NumberOf(s, "evs", i) + 1
  BY <1>4, <1>6 DEF NumberOf, KernelState
<1>8. \A t1 \in Columns : \A j1 \in Entries(t1) :
        t1 # "evs" \/ j1 # i => NumberOf(v, t1, j1) = NumberOf(s, t1, j1)
  BY <1>4 DEF NumberOf, KernelState, Columns
<1>9. \A t1 \in Columns : \A j1 : NumberOf(u, t1, j1) = NumberOf(v, t1, j1)
  BY <1>4, <1>5, AllotsSame
<1>10. /\ u \in KernelState /\ u.exe = [s.exe EXCEPT ![e] = row] /\ u.exe[e] = row
       /\ u.thr = s.thr /\ u.rb = s.rb /\ u.queue = s.queue /\ u.panic = s.panic
       /\ u.alloc["evs"].free = s.alloc["evs"].free - 1
       /\ \A t1 \in Tables \ {"evs"} : u.alloc[t1].free = s.alloc[t1].free
  <2>1. [s.exe EXCEPT ![e] = row][e] = row
    BY DEF KernelState
  <2> QED
    BY <1>4, <1>5, <2>1 DEF Allots
<1>11. "evs" \in Columns
  BY DEF Columns
<1>12. OwnedBy(s, u, e, row, "evs", i)
  BY <1>7, <1>8, <1>9, <1>10, <1>11 DEF OwnedBy
<1> QED
  BY <1>1, <1>2, <1>12 DEF WithEvents

LEMMA ElementSet ==
  ASSUME NEW s \in KernelState, NEW e \in Entries("exe"), NEW row \in ExeRow,
         NEW i \in Entries("dll"), i \in FreeIn(s, "dll")
  PROVE  OwnedBy(s, WithElement(s, e, row, i), e, row, "dll", i)
<1>1. PICK v : v = [s EXCEPT !.exe = [@ EXCEPT ![e] = row], !.dll = [@ EXCEPT ![i] = TRUE]]
  OBVIOUS
<1>2. PICK u : u = Counted(v, "dll", i)
  OBVIOUS
<1>3. "dll" \in Tables /\ i \in Nat
  BY TablesFinite DEF Tables
<1>4. /\ v \in KernelState /\ v.exe = [s.exe EXCEPT ![e] = row]
      /\ v.thr = s.thr /\ v.rb = s.rb /\ v.queue = s.queue /\ v.panic = s.panic
      /\ v.reg = s.reg /\ v.page = s.page /\ v.evs = s.evs /\ v.alloc = s.alloc
      /\ v.dll = [s.dll EXCEPT ![i] = TRUE]
  BY <1>1 DEF KernelState
<1>5. Allots(v, u, "dll", -1)
  BY <1>2, <1>3, <1>4, CountedAllots
<1>6. ~s.dll[i]
  BY FreeInIs
<1>7. NumberOf(v, "dll", i) = NumberOf(s, "dll", i) + 1
  BY <1>4, <1>6 DEF NumberOf, KernelState
<1>8. \A t1 \in Columns : \A j1 \in Entries(t1) :
        t1 # "dll" \/ j1 # i => NumberOf(v, t1, j1) = NumberOf(s, t1, j1)
  BY <1>4 DEF NumberOf, KernelState, Columns
<1>9. \A t1 \in Columns : \A j1 : NumberOf(u, t1, j1) = NumberOf(v, t1, j1)
  BY <1>4, <1>5, AllotsSame
<1>10. /\ u \in KernelState /\ u.exe = [s.exe EXCEPT ![e] = row] /\ u.exe[e] = row
       /\ u.thr = s.thr /\ u.rb = s.rb /\ u.queue = s.queue /\ u.panic = s.panic
       /\ u.alloc["dll"].free = s.alloc["dll"].free - 1
       /\ \A t1 \in Tables \ {"dll"} : u.alloc[t1].free = s.alloc[t1].free
  <2>1. [s.exe EXCEPT ![e] = row][e] = row
    BY DEF KernelState
  <2> QED
    BY <1>4, <1>5, <2>1 DEF Allots
<1>11. "dll" \in Columns
  BY DEF Columns
<1>12. OwnedBy(s, u, e, row, "dll", i)
  BY <1>7, <1>8, <1>9, <1>10, <1>11 DEF OwnedBy
<1> QED
  BY <1>1, <1>2, <1>12 DEF WithElement

\* What dv_allocate_eventstatus() and dv_allocate_dllelement() bring to those who ask
LEMMA OwnedObtained ==
  ASSUME NEW s \in KernelState, NEW u, NEW e \in Entries("exe"), Alive(s, e),
         NEW t \in {"evs", "dll"}, s.exe[e][t] = Nil, NEW i \in Entries(t),
         i \in FreeIn(s, t), NEW row \in ExeRow, OwnedBy(s, u, e, row, t, i),
         row[t] = i, \A t1 \in Columns \ {t} : row[t1] = s.exe[e][t1],
         row.state = s.exe[e].state, row.prio = s.exe[e].prio,
         \/ row.flags = s.exe[e].flags
         \/ /\ t = "evs" /\ "events" \in s.exe[e].flags
            /\ row.flags = s.exe[e].flags \union {"blocking"}
  PROVE  Obtains(s, u, e, t, i)
<1>1. t \in Tables /\ t \in Columns
  BY DEF Tables, Columns
<1>2. Takes(s, u, e, t, i)
  BY <1>1 DEF OwnedBy, Takes, Alive
<1> QED
  BY <1>2 DEF OwnedBy, Obtains

LEMMA EventsObtained ==
  ASSUME NEW s \in KernelState, AccountedIn(s), NEW e \in Entries("exe"), Alive(s, e),
         s.exe[e].evs = Nil, "events" \in s.exe[e].flags
  PROVE  \/ Misses(s, AllocateEvents(s, e), "evs")
         \/ \E i : Obtains(s, AllocateEvents(s, e), e, "evs", i)
<1>1. PICK u : u = AllocateEvents(s, e)
  OBVIOUS
<1>2. PICK i : i = Found(s, "evs")
  OBVIOUS
<1>3. "evs" \in Tables /\ "evs" \in Columns
  BY DEF Tables, Columns
<1>4. CASE i = Nil
  <2>1. s.alloc["evs"].free <= 0
    BY <1>2, <1>3, <1>4, FoundOrFull
  <2>2. u = [s EXCEPT !.panic = "no eventstatus available"]
    BY <1>1, <1>2, <1>4 DEF AllocateEvents, Panicked
  <2>3. "no eventstatus available" \in Failures
    BY DEF Failures
  <2>4. Misses(s, u, "evs")
    BY <2>1, <2>2, <2>3 DEF Misses
  <2> QED
    BY <1>1, <2>4
<1>5. CASE i # Nil
  <2>1. i \in FreeIn(s, "evs") /\ i \in Entries("evs")
    BY <1>2, <1>3, <1>5, FoundOrFull
  <2>2. PICK row0 \in ExeRow : row0 = s.exe[e]
    BY RowsOf
  <2>3. PICK row1 : row1 = [row0 EXCEPT !["evs"] = i]
    OBVIOUS
  <2>4. PartSet(row0, row1, "evs", i)
    <3>1. i \in Ref("evs")
      BY <2>1 DEF Ref
    <3> QED
      BY <1>3, <2>2, <2>3, <3>1, PartSetIs
  <2>5. PICK flags : flags = row0.flags \union {"blocking"}
    OBVIOUS
  <2>6. PICK row : row = [row1 EXCEPT !.flags = flags]
    OBVIOUS
  <2>7. flags \in SUBSET Flags
    BY <2>2, <2>5 DEF ExeRow, Flags
  <2>8. /\ row \in ExeRow /\ row["evs"] = i /\ row.flags = flags
        /\ row.state = row0.state /\ row.prio = row0.prio
    BY <2>4, <2>6, <2>7 DEF PartSet, ExeRow
  <2>9. \A t1 \in Columns \ {"evs"} : row[t1] = row0[t1]
    BY <2>4, <2>6 DEF PartSet, ExeRow, Columns
  <2>10. u = WithEvents(s, e, row, i)
    <3>1. row = [row0 EXCEPT !.flags = @ \union {"blocking"}, !.evs = i]
      BY <2>2, <2>3, <2>5, <2>6 DEF ExeRow
    <3>2. [s EXCEPT !.exe[e].flags = @ \union {"blocking"}, !.exe[e].evs = i, !.evs[i] = TRUE]
            = [s EXCEPT !.exe = [@ EXCEPT ![e] = row], !.evs = [@ EXCEPT ![i] = TRUE]]
      BY <2>2, <3>1 DEF KernelState
    <3> QED
      BY <1>1, <1>2, <1>5, <3>2 DEF AllocateEvents, WithEvents
  <2>11. OwnedBy(s, u, e, row, "evs", i)
    BY <2>1, <2>8, <2>10, EventsSet
  <2>12. Obtains(s, u, e, "evs", i)
    BY <2>1, <2>2, <2>5, <2>8, <2>9, <2>11, OwnedObtained
  <2> QED
    BY <1>1, <2>12
<1> QED
  BY <1>4, <1>5

LEMMA ElementObtained ==
  ASSUME NEW s \in KernelState, AccountedIn(s), NEW e \in Entries("exe"), Alive(s, e),
         s.exe[e].dll = Nil, "blocking" \in s.exe[e].flags
  PROVE  \/ Misses(s, AllocateElement(s, e), "dll")
         \/ \E i : Obtains(s, AllocateElement(s, e), e, "dll", i)
<1>1. PICK u : u = AllocateElement(s, e)
  OBVIOUS
<1>2. PICK i : i = Found(s, "dll")
  OBVIOUS
<1>3. "dll" \in Tables /\ "dll" \in Columns
  BY DEF Tables, Columns
<1>4. CASE i = Nil
  <2>1. s.alloc["dll"].free <= 0
    BY <1>2, <1>3, <1>4, FoundOrFull
  <2>2. u = [s EXCEPT !.panic = "no dll_element available"]
    BY <1>1, <1>2, <1>4 DEF AllocateElement, Panicked
  <2>3. "no dll_element available" \in Failures
    BY DEF Failures
  <2>4. Misses(s, u, "dll")
    BY <2>1, <2>2, <2>3 DEF Misses
  <2> QED
    BY <1>1, <2>4
<1>5. CASE i # Nil
  <2>1. i \in FreeIn(s, "dll") /\ i \in Entries("dll")
    BY <1>2, <1>3, <1>5, FoundOrFull
  <2>2. PICK row0 \in ExeRow : row0 = s.exe[e]
    BY RowsOf
  <2>3. PICK row : row = [row0 EXCEPT !["dll"] = i]
    OBVIOUS
  <2>4. PartSet(row0, row, "dll", i)
    <3>1. i \in Ref("dll")
      BY <2>1 DEF Ref
    <3> QED
      BY <1>3, <2>2, <2>3, <3>1, PartSetIs
  <2>5. u = WithElement(s, e, row, i)
    <3>1. [s EXCEPT !.exe[e].dll = i, !.dll[i] = TRUE]
            = [s EXCEPT !.exe = [@ EXCEPT ![e] = row], !.dll = [@ EXCEPT ![i] = TRUE]]
      BY <2>2, <2>3 DEF KernelState
    <3> QED
      BY <1>1, <1>2, <1>5, <3>1 DEF AllocateElement, WithElement
  <2>6. OwnedBy(s, u, e, row, "dll", i)
    BY <2>1, <2>4, <2>5, ElementSet DEF PartSet
  <2>7. Obtains(s, u, e, "dll", i)
    BY <2>1, <2>2, <2>4, <2>6, OwnedObtained DEF PartSet
  <2> QED
    BY <1>1, <2>7
<1> QED
  BY <1>4, <1>5

\* One part after the other
LEMMA ThreadCreates ==
  ASSUME NEW s0, NEW s, NEW e, NEW c, Creating(s0, s, e, c, {}), s.panic = "none"
  PROVE  Creating(s0, AllocateThread(s, e), e, c, {"thr"})
<1>1. /\ s \in KernelState /\ AccountedIn(s) /\ Mates(s) /\ e \in Entries("exe")
      /\ Alive(s, e) /\ s.exe[e].thr = Nil
  BY DEF Creating, Alive, Columns
<1>2. PICK u : u = AllocateThread(s, e)
  OBVIOUS
<1>3. "thr" \in Columns \ {}
  BY DEF Columns
<1>4. Creating(s0, u, e, c, {} \union {"thr"})
  <2>1. \/ Misses(s, u, "thr") \/ \E i : Obtains(s, u, e, "thr", i)
    BY <1>1, <1>2, ThreadObtained
  <2>2. Asks(c, "thr")
    BY DEF Asks
  <2> QED
    BY <1>3, <2>1, <2>2, MissesCreates, ObtainsCreates
<1> QED
  BY <1>2, <1>4

LEMMA RegistersCreates ==
  ASSUME NEW s0, NEW s, NEW e, NEW c, Creating(s0, s, e, c, {"thr"})
  PROVE  Creating(s0, Then(s, AllocateRegisters, e), e, c, {"thr", "reg"})
<1>1. /\ s \in KernelState /\ AccountedIn(s) /\ e \in Entries("exe")
      /\ Alive(s, e) /\ s.exe[e]["reg"] = Nil
  BY DEF Creating, Alive, Columns
<1>2. PICK u : u = Then(s, AllocateRegisters, e)
  OBVIOUS
<1>3. "reg" \in Columns \ {"thr"} /\ "reg" \in Tables /\ Asks(c, "reg")
  BY DEF Columns, Tables, Asks
<1>4. Creating(s0, u, e, c, {"thr"} \union {"reg"})
  <2>1. CASE s.panic # "none"
    <3>1. u = s
      BY <1>2, <2>1 DEF Then
    <3> QED
      BY <2>1, <3>1, SkipsCreates
  <2>2. CASE s.panic = "none" /\ Found(s, "reg") = Nil /\ SharingNonBlocking(s, e, "reg") = {}
    <3>1. u = [s EXCEPT !.panic = "no registers available"]
      BY <1>2, <2>2 DEF Then, AllocateRegisters, Panicked
    <3>2. s.alloc["reg"].free <= 0
      BY <1>1, <1>3, <2>2, FoundOrFull
    <3>3. Misses(s, u, "reg")
      BY <3>1, <3>2 DEF Misses, Failures
    <3> QED
      BY <1>3, <2>2, <3>3, MissesCreates
  <2>3. CASE s.panic = "none" /\ ~(Found(s, "reg") = Nil /\ SharingNonBlocking(s, e, "reg") = {})
    <3>1. u = AllocateShared(s, e, "reg", Found(s, "reg"))
      BY <1>2, <2>3 DEF Then, AllocateRegisters
    <3>2. \E i : Obtains(s, u, e, "reg", i)
      BY <1>1, <2>3, <3>1, SharedObtained
    <3> QED
      BY <1>3, <2>3, <3>2, ObtainsCreates
  <2> QED
    BY <2>1, <2>2, <2>3
<1>5. {"thr"} \union {"reg"} = {"thr", "reg"}
  OBVIOUS
<1> QED
  BY <1>2, <1>4, <1>5

LEMMA EventsCreates ==
  ASSUME NEW s0, NEW s, NEW e, NEW c, Creating(s0, s, e, c, {"thr", "reg"})
  PROVE  Creating(s0, Then(s, AllocateEvents, e), e, c, {"thr", "reg", "evs"})
<1>1. /\ s \in KernelState /\ AccountedIn(s) /\ e \in Entries("exe")
      /\ Alive(s, e) /\ s.exe[e].evs = Nil
  BY DEF Creating, Alive, Columns
<1>2. PICK u : u = Then(s, AllocateEvents, e)
  OBVIOUS
<1>3. "evs" \in Columns \ {"thr", "reg"} /\ "evs" \notin Needed
  BY DEF Columns, Needed
<1>4. Creating(s0, u, e, c, {"thr", "reg"} \union {"evs"})
  <2>1. CASE s.panic # "none" \/ "events" \notin s.exe[e].flags
    <3>1. u = s
      BY <1>2, <2>1 DEF Then, AllocateEvents
    <3> QED
      BY <1>3, <3>1, SkipsCreates
  <2>2. CASE s.panic = "none" /\ "events" \in s.exe[e].flags
    <3>1. u = AllocateEvents(s, e)
      BY <1>2, <2>2 DEF Then
    <3>2. Misses(s, u, "evs") \/ \E i : Obtains(s, u, e, "evs", i)
      BY <1>1, <2>2, <3>1, EventsObtained
    <3>3. Asks(c, "evs")
      BY <2>2 DEF Creating, Asks
    <3> QED
      BY <1>3, <2>2, <3>2, <3>3, MissesCreates, ObtainsCreates
  <2> QED
    BY <2>1, <2>2
<1>5. {"thr", "reg"} \union {"evs"} = {"thr", "reg", "evs"}
  OBVIOUS
<1> QED
  BY <1>2, <1>4, <1>5

LEMMA ElementCreates ==
  ASSUME NEW s0, NEW s, NEW e, NEW c, Creating(s0, s, e, c, {"thr", "reg", "evs"})
  PROVE  Creating(s0, Then(s, AllocateElement, e), e, c, {"thr", "reg", "evs", "dll"})
<1>1. /\ s \in KernelState /\ AccountedIn(s) /\ e \in Entries("exe")
      /\ Alive(s, e) /\ s.exe[e].dll = Nil
  BY DEF Creating, Alive, Columns
<1>2. PICK u : u = Then(s, AllocateElement, e)
  OBVIOUS
<1>3. "dll" \in Columns \ {"thr", "reg", "evs"} /\ "dll" \notin Needed
  BY DEF Columns, Needed
<1>4. Creating(s0, u, e, c, {"thr", "reg", "evs"} \union {"dll"})
  <2>1. CASE s.panic # "none" \/ "blocking" \notin s.exe[e].flags
    <3>1. u = s
      BY <1>2, <2>1 DEF Then, AllocateElement
    <3> QED
      BY <1>3, <3>1, SkipsCreates
  <2>2. CASE s.panic = "none" /\ "blocking" \in s.exe[e].flags
    <3>1. u = AllocateElement(s, e)
      BY <1>2, <2>2 DEF Then
    <3>2. Misses(s, u, "dll") \/ \E i : Obtains(s, u, e, "dll", i)
      BY <1>1, <2>2, <3>1, ElementObtained
    <3>3. Asks(c, "dll")
      <4>1. "events" \in c.flags \/ "blocking" \in c.flags
        BY <2>2 DEF Creating
      <4>2. c.flags \intersect {"events", "blocking"} # {}
        BY <4>1
      <4> QED
        BY <4>2 DEF Asks
    <3> QED
      BY <1>3, <2>2, <3>2, <3>3, MissesCreates, ObtainsCreates
  <2> QED
    BY <2>1, <2>2
<1>5. {"thr", "reg", "evs"} \union {"dll"} = {"thr", "reg", "evs", "dll"}
  OBVIOUS
<1> QED
  BY <1>2, <1>4, <1>5

LEMMA StackCreates ==
  ASSUME NEW s0, NEW s, NEW e, NEW c, Creating(s0, s, e, c, {"thr", "reg", "evs", "dll"})
  PROVE  Creating(s0, Then(s, AllocateStack, e), e, c, Columns)
<1>1. /\ s \in KernelState /\ AccountedIn(s) /\ e \in Entries("exe")
      /\ Alive(s, e) /\ s.exe[e]["page"] = Nil
  BY DEF Creating, Alive, Columns
<1>2. PICK u : u = Then(s, AllocateStack, e)
  OBVIOUS
<1>3. /\ "page" \in Columns \ {"thr", "reg", "evs", "dll"} /\ "page" \in Tables
      /\ Asks(c, "page")
  BY DEF Columns, Tables, Asks
<1>4. Creating(s0, u, e, c, {"thr", "reg", "evs", "dll"} \union {"page"})
  <2>1. CASE s.panic # "none"
    <3>1. u = s
      BY <1>2, <2>1 DEF Then
    <3> QED
      BY <2>1, <3>1, SkipsCreates
  <2>2. CASE s.panic = "none" /\ Found(s, "page") = Nil /\ SharingNonBlocking(s, e, "page") = {}
    <3>1. u = [s EXCEPT !.panic = "no stack available"]
      BY <1>2, <2>2 DEF Then, AllocateStack, Panicked, FreePage
    <3>2. s.alloc["page"].free <= 0
      BY <1>1, <1>3, <2>2, FoundOrFull
    <3>3. Misses(s, u, "page")
      BY <3>1, <3>2 DEF Misses, Failures
    <3> QED
      BY <1>3, <2>2, <3>3, MissesCreates
  <2>3. CASE s.panic = "none" /\ ~(Found(s, "page") = Nil /\ SharingNonBlocking(s, e, "page") = {})
    <3>1. u = AllocateShared(s, e, "page", Found(s, "page"))
      BY <1>2, <2>3 DEF Then, AllocateStack, FreePage
    <3>2. \E i : Obtains(s, u, e, "page", i)
      BY <1>1, <2>3, <3>1, SharedObtained
    <3> QED
      BY <1>3, <2>3, <3>2, ObtainsCreates
  <2> QED
    BY <2>1, <2>2, <2>3
<1>5. {"thr", "reg", "evs", "dll"} \union {"page"} = Columns
  BY DEF Columns
<1> QED
  BY <1>2, <1>4, <1>5

\* All executables have what each needs.
Completed(s) ==
  \A e \in Entries("exe") : Alive(s, e) => \A t \in Needed : s.exe[e][t] # Nil

\* Nothing is created or destroyed, and nobody gets or gives back a part.
Alike(s, u) ==
  /\ s \in KernelState /\ u \in KernelState
  /\ \A e \in Entries("exe") :
       /\ Alive(u, e) <=> Alive(s, e)
       /\ u.exe[e].flags = s.exe[e].flags /\ u.exe[e].prio = s.exe[e].prio
       /\ \A t \in Columns : u.exe[e][t] = s.exe[e][t]
  /\ \A t \in Entries("thr") : u.thr[t].n = s.thr[t].n
  /\ u.reg = s.reg /\ u.page = s.page /\ u.evs = s.evs /\ u.dll = s.dll
  /\ \A b \in Entries("rb") : u.rb[b].used = s.rb[b].used
  /\ u.alloc = s.alloc

LEMMA AlikeKept ==
  ASSUME NEW s, NEW u, Alike(s, u)
  PROVE  /\ AccountedIn(s) => AccountedIn(u)
         /\ ApartIn(s) => ApartIn(u)
         /\ Mates(s) => Mates(u)
         /\ Completed(s) => Completed(u)
<1>1. /\ s \in KernelState /\ u \in KernelState
      /\ \A t \in Entries("thr") : u.thr[t].n = s.thr[t].n
      /\ u.reg = s.reg /\ u.page = s.page /\ u.evs = s.evs /\ u.dll = s.dll
      /\ \A b \in Entries("rb") : u.rb[b].used = s.rb[b].used
      /\ u.alloc = s.alloc
  BY DEF Alike
<1>2. \A e \in Entries("exe") :
       /\ Alive(u, e) <=> Alive(s, e)
       /\ u.exe[e].flags = s.exe[e].flags /\ u.exe[e].prio = s.exe[e].prio
       /\ \A t \in Columns : u.exe[e][t] = s.exe[e][t]
  BY DEF Alike
<1>3. \A t \in Columns : \A i \in Entries(t) : NumberOf(u, t, i) = NumberOf(s, t, i)
  BY <1>1 DEF NumberOf, Columns, KernelState
<1>4. \A t \in Columns : \A i : Holders(u, t, i) = Holders(s, t, i)
  BY <1>2 DEF Holders
<1>5. ASSUME NEW t \in Tables PROVE FreeIn(u, t) = FreeIn(s, t)
  <2>1. \/ t \in Columns /\ \A i \in Entries(t) : NumberOf(u, t, i) = NumberOf(s, t, i)
        \/ t = "rb" /\ \A i \in Entries("rb") : u.rb[i].used = s.rb[i].used
        \/ t = "exe" /\ \A i \in Entries("exe") : Alive(u, i) <=> Alive(s, i)
    BY <1>1, <1>2, <1>3 DEF Tables, Columns
  <2> QED
    BY <1>1, <2>1, SameFree
<1>6. AccountedIn(s) => AccountedIn(u)
  BY <1>1, <1>3, <1>4, <1>5 DEF AccountedIn, Counts, CountsFree
<1>7. ApartIn(s) => ApartIn(u)
  <2>1. \A e \in Entries("exe") :
          /\ Alive(u, e) <=> Alive(s, e)
          /\ Alive(s, e) => /\ u.exe[e].flags = s.exe[e].flags
                            /\ \A t \in {"reg", "page"} : u.exe[e][t] = s.exe[e][t]
    BY <1>2 DEF Columns
  <2> QED
    BY <2>1, ApartKept
<1>8. Mates(s) => Mates(u)
  <2>1. \A e \in Entries("exe") : u.exe[e].thr = s.exe[e].thr
    <3>1. "thr" \in Columns
      BY DEF Columns
    <3>2. \A e \in Entries("exe") : u.exe[e]["thr"] = s.exe[e]["thr"]
      BY <1>2, <3>1
    <3> QED
      BY <3>2
  <2> QED
    BY <1>2, <2>1 DEF Mates
<1>9. Completed(s) => Completed(u)
  BY <1>2 DEF Completed, Needed, Columns
<1> QED
  BY <1>6, <1>7, <1>8, <1>9

Entered(s, e, c) ==
  Counted([s EXCEPT !.exe[e] = [FreeExe EXCEPT !.state = "disabled", !.prio = c.prio,
                                               !.flags = c.flags]], "exe", e)

LEMMA EnteredCreates ==
  ASSUME NEW s \in KernelState, AccountedIn(s), Mates(s), Completed(s), s.panic = "none",
         NEW e \in FreeIn(s, "exe"), NEW c, c.prio \in Nat, c.flags \in SUBSET Flags
  PROVE  Creating(s, Entered(s, e, c), e, c, {})
<1>1. /\ "exe" \in Tables /\ e \in Entries("exe") /\ e \in Nat /\ ~Alive(s, e)
      /\ \A t \in Columns : t \in Tables /\ t # "exe"
  BY FreeInIs, TablesFinite DEF Tables, Columns
<1>2. PICK row : row = [FreeExe EXCEPT !.state = "disabled", !.prio = c.prio,
                                       !.flags = c.flags]
  OBVIOUS
<1>3. /\ row.state = "disabled" /\ row.prio = c.prio /\ row.flags = c.flags
      /\ \A t \in Columns : row[t] = Nil
  BY <1>2 DEF FreeExe, Columns
<1>4. row \in ExeRow
  <2>1. row = [state |-> "disabled", prio |-> c.prio, flags |-> c.flags, thr |-> Nil,
               reg |-> Nil, evs |-> Nil, dll |-> Nil, page |-> Nil]
    BY <1>2 DEF FreeExe
  <2> QED
    BY <2>1 DEF ExeRow, Ref
<1>5. PICK v : v = [s EXCEPT !.exe[e] = row]
  OBVIOUS
<1>6. PICK u : u = Counted(v, "exe", e)
  OBVIOUS
<1>7. /\ v \in KernelState /\ v.exe = [s.exe EXCEPT ![e] = row]
      /\ v.thr = s.thr /\ v.rb = s.rb /\ v.queue = s.queue /\ v.panic = s.panic
      /\ v.reg = s.reg /\ v.page = s.page /\ v.dll = s.dll /\ v.alloc = s.alloc
      /\ v.evs = s.evs
  BY <1>1, <1>4, <1>5 DEF KernelState
<1>8. Allots(v, u, "exe", -1)
  BY <1>1, <1>6, <1>7, CountedAllots
<1>9. /\ u \in KernelState /\ u.exe = [s.exe EXCEPT ![e] = row] /\ u.exe[e] = row
      /\ u.thr = s.thr /\ u.rb = s.rb /\ u.queue = s.queue /\ u.panic = s.panic
      /\ u.reg = s.reg /\ u.page = s.page /\ u.dll = s.dll /\ u.evs = s.evs
      /\ u.alloc["exe"].free = s.alloc["exe"].free - 1
      /\ \A t \in Tables \ {"exe"} : u.alloc[t].free = s.alloc[t].free
  <2>1. [s.exe EXCEPT ![e] = row][e] = row
    BY <1>1 DEF KernelState
  <2> QED
    BY <1>7, <1>8, <2>1 DEF Allots
<1>10. RowSet(s, u, e, row)
  BY <1>1, <1>9 DEF RowSet
<1>11. \A t \in Columns : \A j : NumberOf(u, t, j) = NumberOf(s, t, j)
  BY <1>9 DEF NumberOf, Columns, KernelState
<1>12. \A j \in Entries("exe") : j # e => u.exe[j] = s.exe[j]
  BY <1>9 DEF KernelState
<1>13. AccountedIn(u)
  <2>1. ASSUME NEW t \in Columns PROVE Counts(u, t)
    <3>1. Counts(s, t) /\ row[t] = Nil
      BY <1>3 DEF AccountedIn
    <3> QED
      BY <1>1, <1>10, <1>11, <3>1, CountsKept
  <2>2. ASSUME NEW t \in Tables, t # "exe" PROVE CountsFree(u, t)
    <3>1. \/ t \in Columns /\ \A j \in Entries(t) : NumberOf(u, t, j) = NumberOf(s, t, j)
          \/ t = "rb" /\ \A j \in Entries("rb") : u.rb[j].used = s.rb[j].used
      BY <1>9, <1>11, <2>2 DEF Tables, Columns
    <3>2. FreeIn(u, t) = FreeIn(s, t)
      BY <1>9, <3>1, SameFree
    <3>3. CountsFree(s, t) /\ u.alloc[t].free = s.alloc[t].free
      BY <1>9, <2>2 DEF AccountedIn
    <3> QED
      BY <3>2, <3>3, FreeKept
  <2>3. CountsFree(u, "exe")
    <3>1. /\ FreeIn(s, "exe") = {j \in Entries("exe") : ~Alive(s, j)}
          /\ FreeIn(u, "exe") = {j \in Entries("exe") : ~Alive(u, j)}
      BY <1>9, FreeInIs
    <3>2. \A j \in Entries("exe") : ~Alive(u, j) <=> ~Alive(s, j) /\ j # e
      BY <1>1, <1>3, <1>9, <1>12 DEF Alive
    <3>3. FreeIn(u, "exe") = FreeIn(s, "exe") \ {e}
      BY <3>1, <3>2
    <3>4. CountsFree(s, "exe") /\ u.alloc["exe"].free = s.alloc["exe"].free - 1
      BY <1>1, <1>9 DEF AccountedIn
    <3> QED
      BY <1>1, <3>3, <3>4, FreeTaken
  <2> QED
    BY <2>1, <2>2, <2>3 DEF AccountedIn
<1>14. Mates(u)
  <2>1. u.exe[e].thr = Nil
    BY <1>3, <1>9 DEF Columns
  <2> QED
    BY <1>12, <2>1 DEF Mates, Alive
<1>15. ASSUME ApartIn(s) PROVE ApartIn(u)
  <2>1. ASSUME NEW j \in Entries("exe"), Blocks(u, j), NEW t \in {"reg", "page"}
        PROVE  Holders(u, t, u.exe[j][t]) = {j}
    <3>1. row[t] = Nil /\ t \in Needed
      BY <1>3 DEF Columns, Needed
    <3>2. CASE j = e
      <4>1. Holders(s, t, Nil) = {}
        BY <3>1 DEF Completed, Holders
      <4>2. Holders(u, t, Nil) = Holders(s, t, Nil) \union {e}
        BY <1>3, <1>10, <3>1, HolderJoins
      <4> QED
        BY <1>9, <3>1, <3>2, <4>1, <4>2
    <3>3. CASE j # e
      <4>1. u.exe[j] = s.exe[j] /\ Blocks(s, j)
        BY <1>12, <2>1, <3>3 DEF Blocks, Alive
      <4>2. s.exe[j][t] # Nil
        BY <3>1, <4>1 DEF Completed, Blocks
      <4>3. Holders(u, t, s.exe[j][t]) = Holders(s, t, s.exe[j][t]) \ {e}
        BY <1>10, <3>1, <4>2, HolderLeaves
      <4>4. Holders(s, t, s.exe[j][t]) = {j}
        BY <1>15, <4>1 DEF ApartIn
      <4> QED
        BY <3>3, <4>1, <4>3, <4>4
    <3> QED
      BY <3>2, <3>3
  <2> QED
    BY <2>1 DEF ApartIn
<1>16. \A t \in Tables : u.alloc[t].free >= s.alloc[t].free - 1
  <2>1. \A t \in Tables : s.alloc[t].free \in Int
    BY DEF KernelState, AllocRow
  <2> QED
    BY <1>9, <2>1
<1>17. \A t \in Columns \ {} : u.alloc[t].free = s.alloc[t].free
  BY <1>1, <1>9
<1>18. Creating(s, u, e, c, {})
  BY <1>1, <1>3, <1>9, <1>13, <1>14, <1>15, <1>16, <1>17 DEF Creating
<1> QED
  BY <1>2, <1>5, <1>6, <1>18 DEF Entered

\* dv_create_executable(): either a new executable with all its parts, or one of
\* the tables has nothing left.
Created(s, u, e, c) ==
  /\ u \in KernelState /\ AccountedIn(u) /\ Mates(u)
  /\ ("events" \in c.flags => "blocking" \in c.flags) /\ ApartIn(s) => ApartIn(u)
  /\ u.panic # "none" => Lacks(s, c, Columns \union {"exe"})
  /\ u.panic = "none" =>
       /\ e \in Entries("exe") /\ ~Alive(s, e) /\ u.exe = [s.exe EXCEPT ![e] = u.exe[e]]
       /\ u.exe[e].state = "idle" /\ u.exe[e].prio = c.prio
       /\ \A t \in Needed : u.exe[e][t] # Nil
       /\ u.queue = s.queue /\ u.rb = s.rb
       /\ \A x \in Entries("thr") :
            /\ u.thr[x].exe = s.thr[x].exe
            /\ u.thr[x].jobs = s.thr[x].jobs \/ (u.thr[x].jobs = Nil /\ s.thr[x].n = 0)
       /\ \A t \in Tables : u.alloc[t].free >= s.alloc[t].free - 1

LEMMA CreatedIs ==
  ASSUME NEW s \in KernelState, AccountedIn(s), Mates(s), Completed(s), s.panic = "none",
         NEW c, c.prio \in Nat, c.flags \in SUBSET Flags
  PROVE  Created(s, CreateExecutable(s, c), Found(s, "exe"), c)
<1>1. PICK e : e = Found(s, "exe")
  OBVIOUS
<1>2. PICK u : u = CreateExecutable(s, c)
  OBVIOUS
<1>3. "exe" \in Tables
  BY DEF Tables
<1>4. CASE e = Nil
  <2>1. u = [s EXCEPT !.panic = "no free executable found"]
    BY <1>1, <1>2, <1>4 DEF CreateExecutable, Panicked
  <2>2. "no free executable found" \in Failures
    BY DEF Failures
  <2>3. /\ u \in KernelState /\ AccountedIn(u) /\ (ApartIn(s) => ApartIn(u)) /\ Mates(u)
        /\ u.panic = "no free executable found"
    BY <2>1, <2>2, PanicAccounted
  <2>4. Lacks(s, c, Columns \union {"exe"})
    <3>1. s.alloc["exe"].free <= 0
      BY <1>1, <1>3, <1>4, FoundOrFull
    <3>2. Asks(c, "exe")
      BY DEF Asks
    <3> QED
      BY <3>1, <3>2 DEF Lacks
  <2>5. Created(s, u, e, c)
    BY <2>3, <2>4 DEF Created
  <2> QED
    BY <1>1, <1>2, <2>5
<1>5. CASE e # Nil
  <2>1. e \in FreeIn(s, "exe")
    BY <1>1, <1>3, <1>5, FoundOrFull
  <2>2. PICK s0 : s0 = Entered(s, e, c)
    OBVIOUS
  <2>3. Creating(s, s0, e, c, {}) /\ s0.panic = "none"
    <3>1. Creating(s, s0, e, c, {})
      BY <2>1, <2>2, EnteredCreates
    <3> QED
      BY <3>1 DEF Creating, Lacks
  <2>4. PICK s1 : s1 = Then(AllocateThread(s0, e), AllocateRegisters, e)
    OBVIOUS
  <2>5. Creating(s, s1, e, c, {"thr", "reg"})
    BY <2>3, <2>4, ThreadCreates, RegistersCreates
  <2>6. PICK s2 : s2 = Then(Then(s1, AllocateEvents, e), AllocateElement, e)
    OBVIOUS
  <2>7. Creating(s, s2, e, c, {"thr", "reg", "evs", "dll"})
    BY <2>5, <2>6, EventsCreates, ElementCreates
  <2>8. PICK s3 : s3 = Then(s2, AllocateStack, e)
    OBVIOUS
  <2>9. Creating(s, s3, e, c, Columns)
    BY <2>7, <2>8, StackCreates
  <2>10. u = IF s3.panic # "none" THEN s3 ELSE [s3 EXCEPT !.exe[e].state = "idle"]
    BY <1>1, <1>2, <1>5, <2>2, <2>4, <2>6, <2>8 DEF CreateExecutable, Entered
  <2>11. /\ s3 \in KernelState /\ AccountedIn(s3) /\ Mates(s3) /\ e \in Entries("exe")
         /\ ~Alive(s, e) /\ s3.exe = [s.exe EXCEPT ![e] = s3.exe[e]]
         /\ s3.exe[e].state = "disabled" /\ s3.exe[e].prio = c.prio
    BY <2>9 DEF Creating
  <2>12. CASE s3.panic # "none"
    <3>1. u = s3
      BY <2>10, <2>12
    <3>2. Lacks(s, c, Columns \union {"exe"})
      BY <2>9, <2>12 DEF Creating, Lacks
    <3>3. Created(s, u, e, c)
      BY <2>9, <2>12, <3>1, <3>2 DEF Created, Creating
    <3> QED
      BY <1>1, <1>2, <3>3
  <2>13. CASE s3.panic = "none"
    <3>1. PICK row0 \in ExeRow : row0 = s3.exe[e]
      BY <2>11, RowsOf
    <3>2. PICK row : row = [row0 EXCEPT !.state = "idle"]
      OBVIOUS
    <3>3. /\ row \in ExeRow /\ row.state = "idle" /\ row.prio = c.prio
          /\ row.flags = row0.flags /\ \A t \in Columns : row[t] = row0[t]
      BY <2>11, <3>1, <3>2 DEF ExeRow, Columns
    <3>4. u = [s3 EXCEPT !.exe[e] = row]
      BY <2>10, <2>13, <3>1, <3>2, <2>11 DEF KernelState
    <3>5. /\ u \in KernelState /\ u.exe = [s3.exe EXCEPT ![e] = row] /\ u.exe[e] = row
          /\ u.thr = s3.thr /\ u.rb = s3.rb /\ u.queue = s3.queue /\ u.panic = s3.panic
          /\ u.reg = s3.reg /\ u.page = s3.page /\ u.dll = s3.dll /\ u.alloc = s3.alloc
          /\ u.evs = s3.evs
      BY <2>11, <3>3, <3>4 DEF KernelState
    <3>6. u.exe = [s.exe EXCEPT ![e] = u.exe[e]]
      BY <2>11, <3>5 DEF KernelState
    <3>7. Alike(s3, u)
      <4>1. \A j \in Entries("exe") : j # e => u.exe[j] = s3.exe[j]
        BY <2>11, <3>5 DEF KernelState
      <4>2. Alive(s3, e) /\ Alive(u, e)
        BY <2>11, <3>3, <3>5 DEF Alive
      <4> QED
        BY <2>11, <3>1, <3>3, <3>5, <4>1, <4>2 DEF Alike, Alive
    <3>8. /\ AccountedIn(u) /\ Mates(u)
          /\ (("events" \in c.flags => "blocking" \in c.flags) /\ ApartIn(s) => ApartIn(u))
      BY <2>9, <2>11, <3>7, AlikeKept DEF Creating
    <3>9. \A t \in Needed : u.exe[e][t] # Nil
      <4>1. \A t \in Columns \intersect Needed : s3.exe[e][t] # Nil
        BY <2>9, <2>13 DEF Creating
      <4> QED
        BY <3>1, <3>3, <3>5, <4>1 DEF Columns, Needed
    <3>10. /\ u.queue = s.queue /\ u.rb = s.rb
           /\ \A x \in Entries("thr") :
                /\ u.thr[x].exe = s.thr[x].exe
                /\ u.thr[x].jobs = s.thr[x].jobs \/ (u.thr[x].jobs = Nil /\ s.thr[x].n = 0)
           /\ \A t \in Tables : u.alloc[t].free >= s.alloc[t].free - 1
      BY <2>9, <3>5 DEF Creating
    <3>11. Created(s, u, e, c)
      BY <2>11, <2>13, <3>3, <3>5, <3>6, <3>8, <3>9, <3>10 DEF Created
    <3> QED
      BY <1>1, <1>2, <3>11
  <2> QED
    BY <2>12, <2>13
<1> QED
  BY <1>4, <1>5

-----------------------------------------------------------------------------
(* Lists                                                                   *)

In(q, x)    == \E i \in DOMAIN q : q[i] = x
Distinct(q) == \A i, j \in DOMAIN q : q[i] = q[j] => i = j

LEMMA Inserted ==
  ASSUME NEW S, NEW q \in Seq(S), NEW x \in S, NEW p \in 1 .. Len(q) + 1
  PROVE  /\ InsertAt(q, p, x) \in Seq(S)
         /\ Len(InsertAt(q, p, x)) = Len(q) + 1
         /\ \A i \in 1 .. Len(q) + 1 :
              InsertAt(q, p, x)[i] = IF i < p THEN q[i] ELSE IF i = p THEN x ELSE q[i - 1]
<1> DEFINE a == SubSeq(q, 1, p - 1)
           b == SubSeq(q, p, Len(q))
<1>1. Len(q) \in Nat /\ p \in Int
  OBVIOUS
<1>2. /\ a \in Seq(S) /\ Len(a) = p - 1
      /\ \A i \in 1 .. p - 1 : a[i] = q[i]
  <2>1. \A i \in 1 .. p - 1 : q[i] \in S
    BY <1>1
  <2> QED
    BY <1>1, <2>1, SubSeqProperties
<1>3. /\ b \in Seq(S) /\ Len(b) = Len(q) - p + 1
      /\ \A i \in 1 .. Len(q) - p + 1 : b[i] = q[p + i - 1]
  <2>1. \A i \in p .. Len(q) : q[i] \in S
    BY <1>1
  <2> QED
    BY <1>1, <2>1, SubSeqProperties
<1>4. <<x>> \in Seq(S) /\ Len(<<x>>) = 1 /\ <<x>>[1] = x
  OBVIOUS
<1> DEFINE c == a \o <<x>>
<1> HIDE DEF a, b
<1>5. /\ c \in Seq(S) /\ Len(c) = p
      /\ \A i \in 1 .. p : c[i] = IF i < p THEN q[i] ELSE x
  <2>0. /\ c \in Seq(S) /\ Len(c) = Len(a) + Len(<<x>>)
        /\ \A i \in 1 .. Len(a) + Len(<<x>>) :
             c[i] = IF i <= Len(a) THEN a[i] ELSE <<x>>[i - Len(a)]
    BY <1>2, <1>4, ConcatProperties
  <2> HIDE DEF c
  <2>1. /\ c \in Seq(S) /\ Len(c) = (p - 1) + 1
        /\ \A i \in 1 .. (p - 1) + 1 : c[i] = IF i <= p - 1 THEN a[i] ELSE <<x>>[i - (p - 1)]
    BY <1>2, <1>4, <2>0
  <2>2. ASSUME NEW i \in 1 .. p PROVE c[i] = IF i < p THEN q[i] ELSE x
    <3>1. CASE i <= p - 1
      BY <1>1, <1>2, <2>1, <3>1
    <3>2. CASE i = p
      BY <1>1, <1>4, <2>1, <3>2
    <3> QED
      BY <1>1, <3>1, <3>2
  <2>3. Len(c) = p
    BY <1>1, <2>1
  <2> QED
    BY <2>1, <2>2, <2>3
<1> HIDE DEF c
<1>6. /\ c \o b \in Seq(S) /\ Len(c \o b) = Len(q) + 1
      /\ \A i \in 1 .. Len(q) + 1 : (c \o b)[i] = IF i <= p THEN c[i] ELSE b[i - p]
  <2>1. /\ c \o b \in Seq(S) /\ Len(c \o b) = Len(c) + Len(b)
        /\ \A i \in 1 .. Len(c) + Len(b) :
             (c \o b)[i] = IF i <= Len(c) THEN c[i] ELSE b[i - Len(c)]
    BY <1>3, <1>5, ConcatProperties
  <2>2. Len(c) = p /\ Len(c) + Len(b) = Len(q) + 1
    BY <1>1, <1>3, <1>5
  <2> QED
    BY <2>1, <2>2
<1>7. InsertAt(q, p, x) = c \o b
  BY DEF InsertAt, a, b, c
<1>8. ASSUME NEW i \in 1 .. Len(q) + 1
      PROVE  (c \o b)[i] = IF i < p THEN q[i] ELSE IF i = p THEN x ELSE q[i - 1]
  <2>0. i \in Int /\ (i <= p \/ i > p)
    BY <1>1
  <2>1. CASE i <= p
    <3>1. (c \o b)[i] = c[i] /\ i \in 1 .. p
      BY <1>1, <1>6, <2>1
    <3> QED
      BY <1>1, <1>5, <2>1, <3>1
  <2>2. CASE i > p
    <3>1. (c \o b)[i] = b[i - p] /\ i - p \in 1 .. Len(q) - p + 1
      BY <1>1, <1>6, <2>2
    <3>2. b[i - p] = q[p + (i - p) - 1]
      BY <1>3, <3>1
    <3> QED
      BY <1>1, <2>2, <3>1, <3>2
  <2> QED
    BY <2>0, <2>1, <2>2
<1> QED
  BY <1>6, <1>7, <1>8


LEMMA InsertedList ==
  ASSUME NEW S, NEW q \in Seq(S), Distinct(q), NEW x \in S, ~In(q, x), NEW p \in 1 .. Len(q) + 1
  PROVE  /\ InsertAt(q, p, x) \in Seq(S) /\ Distinct(InsertAt(q, p, x))
         /\ \A y : In(InsertAt(q, p, x), y) <=> y = x \/ In(q, y)
<1>0. /\ InsertAt(q, p, x) \in Seq(S) /\ Len(InsertAt(q, p, x)) = Len(q) + 1
      /\ \A i \in 1 .. Len(q) + 1 :
           InsertAt(q, p, x)[i] = IF i < p THEN q[i] ELSE IF i = p THEN x ELSE q[i - 1]
  BY Inserted
<1>1. PICK n : n = InsertAt(q, p, x)
  OBVIOUS
<1>2. /\ n \in Seq(S) /\ Len(n) = Len(q) + 1 /\ Len(q) \in Nat
      /\ \A i \in 1 .. Len(q) + 1 :
           n[i] = IF i < p THEN q[i] ELSE IF i = p THEN x ELSE q[i - 1]
  BY <1>0, <1>1
<1>3. DOMAIN n = 1 .. Len(q) + 1 /\ DOMAIN q = 1 .. Len(q) /\ n[p] = x
  BY <1>2
<1>4. ASSUME NEW i \in DOMAIN n, i # p
      PROVE  IF i < p THEN i \in DOMAIN q /\ n[i] = q[i] /\ n[i] # x
                      ELSE i - 1 \in DOMAIN q /\ n[i] = q[i - 1] /\ n[i] # x
  BY <1>2, <1>3, <1>4 DEF In
<1>5. ASSUME NEW i \in DOMAIN q
      PROVE  IF i < p THEN i \in DOMAIN n /\ n[i] = q[i] ELSE i + 1 \in DOMAIN n /\ n[i + 1] = q[i]
  BY <1>2, <1>3
<1>6. Distinct(n)
  <2> SUFFICES ASSUME NEW i \in DOMAIN n, NEW j \in DOMAIN n, n[i] = n[j]
               PROVE  i = j
    BY DEF Distinct
  <2>1. CASE i = p \/ j = p
    BY <1>3, <1>4, <2>1
  <2>2. CASE i # p /\ j # p
    BY <1>3, <1>4, <2>2 DEF Distinct
  <2> QED
    BY <2>1, <2>2
<1>7. \A y : In(n, y) <=> y = x \/ In(q, y)
  BY <1>3, <1>4, <1>5 DEF In
<1> QED
  BY <1>1, <1>2, <1>6, <1>7

LEMMA RemovedList ==
  ASSUME NEW S, NEW q \in Seq(S), Distinct(q), NEW p \in 1 .. Len(q)
  PROVE  /\ RemoveAt(q, p) \in Seq(S) /\ Distinct(RemoveAt(q, p))
         /\ \A y : In(RemoveAt(q, p), y) <=> y # q[p] /\ In(q, y)
<1>1. PICK a, b : a = SubSeq(q, 1, p - 1) /\ b = SubSeq(q, p + 1, Len(q))
  OBVIOUS
<1>2. Len(q) \in Nat /\ p \in Int /\ DOMAIN q = 1 .. Len(q)
  OBVIOUS
<1>3. /\ a \in Seq(S) /\ Len(a) = p - 1
      /\ \A i \in 1 .. p - 1 : a[i] = q[i]
  <2>1. \A i \in 1 .. p - 1 : q[i] \in S
    BY <1>2
  <2> QED
    BY <1>1, <1>2, <2>1, SubSeqProperties
<1>4. /\ b \in Seq(S) /\ Len(b) = Len(q) - p
      /\ \A i \in 1 .. Len(q) - p : b[i] = q[p + i]
  <2>1. \A i \in p + 1 .. Len(q) : q[i] \in S
    BY <1>2
  <2>2. PICK m \in Int : m = p + 1
    BY <1>2
  <2>3. /\ b \in Seq(S) /\ Len(b) = IF m <= Len(q) THEN Len(q) - m + 1 ELSE 0
        /\ \A i \in 1 .. Len(q) - m + 1 : b[i] = q[m + i - 1]
    BY <1>1, <1>2, <2>1, <2>2, SubSeqProperties
  <2>4. Len(b) = Len(q) - p
    <3>1. PICK l \in Nat : l = Len(q)
      BY <1>2
    <3>2. Len(b) = IF m <= l THEN l - m + 1 ELSE 0
      BY <2>3, <3>1
    <3>3. p \in Int /\ p <= l
      BY <3>1
    <3> QED
      BY <2>2, <3>1, <3>2, <3>3
  <2>5. ASSUME NEW i \in 1 .. Len(q) - p PROVE b[i] = q[p + i]
    <3>1. m + i - 1 = p + i /\ i \in 1 .. Len(q) - m + 1
      BY <1>2, <2>2
    <3> QED
      BY <2>3, <3>1
  <2> QED
    BY <2>3, <2>4, <2>5
<1>5. PICK n : n = a \o b
  OBVIOUS
<1>6. /\ n \in Seq(S) /\ Len(n) = Len(q) - 1 /\ DOMAIN n = 1 .. Len(q) - 1
      /\ \A i \in 1 .. Len(q) - 1 : n[i] = IF i < p THEN q[i] ELSE q[i + 1]
  <2>1. /\ n \in Seq(S) /\ Len(n) = Len(a) + Len(b)
        /\ \A i \in 1 .. Len(a) + Len(b) : n[i] = IF i <= Len(a) THEN a[i] ELSE b[i - Len(a)]
    BY <1>3, <1>4, <1>5, ConcatProperties
  <2>2. Len(a) + Len(b) = Len(q) - 1
    BY <1>2, <1>3, <1>4
  <2>3. ASSUME NEW i \in 1 .. Len(q) - 1 PROVE n[i] = IF i < p THEN q[i] ELSE q[i + 1]
    <3>1. CASE i <= p - 1
      BY <1>2, <1>3, <2>1, <2>2, <3>1
    <3>2. CASE i > p - 1
      <4>1. n[i] = b[i - (p - 1)] /\ i - (p - 1) \in 1 .. Len(q) - p
        BY <1>2, <1>3, <2>1, <2>2, <3>2
      <4>2. p + (i - (p - 1)) = i + 1
        BY <1>2
      <4> QED
        BY <1>2, <1>4, <3>2, <4>1, <4>2
    <3> QED
      BY <1>2, <3>1, <3>2
  <2>4. n \in Seq(S) /\ Len(n) = Len(q) - 1
    BY <2>1, <2>2
  <2>5. DOMAIN n = 1 .. Len(q) - 1
    BY <2>4
  <2> QED
    BY <2>3, <2>4, <2>5
<1>7. RemoveAt(q, p) = n
  BY <1>1, <1>5 DEF RemoveAt
<1>8. Distinct(n)
  <2> SUFFICES ASSUME NEW i \in DOMAIN n, NEW j \in DOMAIN n, n[i] = n[j]
               PROVE  i = j
    BY DEF Distinct
  <2>1. PICK i1 \in DOMAIN q : n[i] = q[i1] /\ i1 = IF i < p THEN i ELSE i + 1
    BY <1>2, <1>6
  <2>2. PICK j1 \in DOMAIN q : n[j] = q[j1] /\ j1 = IF j < p THEN j ELSE j + 1
    BY <1>2, <1>6
  <2>3. i1 = j1
    BY <2>1, <2>2 DEF Distinct
  <2> QED
    BY <1>2, <1>6, <2>1, <2>2, <2>3
<1>9. ASSUME NEW y PROVE In(n, y) <=> y # q[p] /\ In(q, y)
  <2>1. ASSUME In(n, y) PROVE y # q[p] /\ In(q, y)
    <3>1. PICK i \in DOMAIN n : n[i] = y
      BY <2>1 DEF In
    <3>2. PICK i1 \in DOMAIN q : n[i] = q[i1] /\ i1 = IF i < p THEN i ELSE i + 1
      BY <1>2, <1>6
    <3>3. i1 # p
      BY <1>2, <1>6, <3>2
    <3> QED
      BY <1>2, <3>1, <3>2, <3>3 DEF In, Distinct
  <2>2. ASSUME y # q[p], In(q, y) PROVE In(n, y)
    <3>1. PICK i \in DOMAIN q : q[i] = y
      BY <2>2 DEF In
    <3>2. i # p
      BY <2>2, <3>1
    <3>3. CASE i < p
      BY <1>2, <1>6, <3>1, <3>3 DEF In
    <3>4. CASE i > p
      <4>1. i - 1 \in 1 .. Len(q) - 1 /\ ~(i - 1 < p) /\ (i - 1) + 1 = i
        BY <1>2, <3>4
      <4>2. n[i - 1] = y
        BY <1>6, <3>1, <4>1
      <4> QED
        BY <1>6, <4>1, <4>2 DEF In
    <3> QED
      BY <1>2, <3>2, <3>3, <3>4
  <2> QED
    BY <2>1, <2>2
<1> QED
  BY <1>6, <1>7, <1>8, <1>9

LEMMA UnlinkedList ==
  ASSUME NEW S, NEW q \in Seq(S), Distinct(q), NEW x, In(q, x)
  PROVE  /\ Unlinked(q, x) \in Seq(S) /\ Distinct(Unlinked(q, x))
         /\ \A y : In(Unlinked(q, x), y) <=> y # x /\ In(q, y)
<1>1. PICK p \in DOMAIN q : p = CHOOSE i \in DOMAIN q : q[i] = x
  BY DEF In
<1>2. p \in 1 .. Len(q) /\ q[p] = x
  BY <1>1 DEF In
<1>3. Unlinked(q, x) = RemoveAt(q, p)
  BY <1>1 DEF Unlinked
<1> QED
  BY <1>2, <1>3, RemovedList

LEMMA AppendedList ==
  ASSUME NEW S, NEW q \in Seq(S), Distinct(q), NEW x \in S, ~In(q, x)
  PROVE  /\ Append(q, x) \in Seq(S) /\ Distinct(Append(q, x))
         /\ \A y : In(Append(q, x), y) <=> y = x \/ In(q, y)
<1>1. PICK n : n = Append(q, x)
  OBVIOUS
<1>2. /\ n \in Seq(S) /\ Len(q) \in Nat /\ DOMAIN q = 1 .. Len(q)
      /\ DOMAIN n = 1 .. Len(q) + 1 /\ n[Len(q) + 1] = x
      /\ \A i \in 1 .. Len(q) : n[i] = q[i]
  BY <1>1
<1>3. \A i \in 1 .. Len(q) : n[i] # x
  BY <1>2 DEF In
<1>4. Distinct(n)
  <2> SUFFICES ASSUME NEW i \in DOMAIN n, NEW j \in DOMAIN n, n[i] = n[j]
               PROVE  i = j
    BY DEF Distinct
  <2>1. i \in 1 .. Len(q) \/ i = Len(q) + 1
    BY <1>2
  <2>2. j \in 1 .. Len(q) \/ j = Len(q) + 1
    BY <1>2
  <2> QED
    BY <1>2, <1>3, <2>1, <2>2 DEF Distinct
<1>5. \A y : In(n, y) <=> y = x \/ In(q, y)
  <2>1. \A i \in DOMAIN n : i \in DOMAIN q \/ i = Len(q) + 1
    BY <1>2
  <2>2. Len(q) + 1 \in DOMAIN n /\ \A i \in DOMAIN q : i \in DOMAIN n
    BY <1>2
  <2> QED
    BY <1>2, <2>1, <2>2 DEF In
<1> QED
  BY <1>1, <1>2, <1>4, <1>5

LEMMA TailList ==
  ASSUME NEW S, NEW q \in Seq(S), q # <<>>, Distinct(q)
  PROVE  /\ Head(q) \in S /\ In(q, Head(q)) /\ Tail(q) \in Seq(S) /\ Distinct(Tail(q))
         /\ \A y : In(Tail(q), y) <=> y # Head(q) /\ In(q, y)
<1>1. PICK n : n = Tail(q)
  OBVIOUS
<1>2. /\ n \in Seq(S) /\ Len(q) \in Nat /\ DOMAIN q = 1 .. Len(q) /\ Len(q) >= 1
      /\ DOMAIN n = 1 .. Len(q) - 1 /\ Head(q) = q[1] /\ Head(q) \in S
      /\ \A i \in 1 .. Len(q) - 1 : n[i] = q[i + 1]
  BY <1>1, HeadTailProperties
<1>3. Distinct(n)
  <2> SUFFICES ASSUME NEW i \in DOMAIN n, NEW j \in DOMAIN n, n[i] = n[j]
               PROVE  i = j
    BY DEF Distinct
  <2>1. i + 1 \in DOMAIN q /\ j + 1 \in DOMAIN q /\ q[i + 1] = q[j + 1]
    BY <1>2
  <2>2. i + 1 = j + 1
    BY <2>1 DEF Distinct
  <2> QED
    BY <1>2, <2>2
<1>4. ASSUME NEW y PROVE In(n, y) <=> y # q[1] /\ In(q, y)
  <2>1. ASSUME NEW i \in DOMAIN n, n[i] = y PROVE y # q[1] /\ In(q, y)
    <3>1. i + 1 \in DOMAIN q /\ q[i + 1] = y /\ i + 1 # 1 /\ 1 \in DOMAIN q
      BY <1>2, <2>1
    <3> QED
      BY <3>1 DEF In, Distinct
  <2>2. ASSUME NEW i \in DOMAIN q, q[i] = y, y # q[1] PROVE In(n, y)
    <3>1. i # 1
      BY <2>2
    <3>2. i - 1 \in DOMAIN n /\ n[i - 1] = y
      BY <1>2, <2>2, <3>1
    <3> QED
      BY <3>2 DEF In
  <2> QED
    BY <2>1, <2>2 DEF In
<1>5. In(q, q[1])
  BY <1>2 DEF In
<1> QED
  BY <1>1, <1>2, <1>3, <1>4, <1>5

\* Distinct things of a set are at most as many as the set has.
LEMMA DistinctLen ==
  ASSUME NEW T, IsFiniteSet(T), NEW q, NEW S, q \in Seq(S), Distinct(q),
         \A i \in DOMAIN q : q[i] \in T
  PROVE  Len(q) <= Cardinality(T)
<1>1. Len(q) \in Nat /\ DOMAIN q = 1 .. Len(q)
  OBVIOUS
<1>2. q \in [1 .. Len(q) -> T]
  BY <1>1
<1>3. q \in Injection(1 .. Len(q), T)
  BY <1>1, <1>2 DEF Distinct, Injection, IsInjective
<1>4. Cardinality(1 .. Len(q)) <= Cardinality(T)
  BY <1>3, FS_Injection
<1>5. Cardinality(1 .. Len(q)) = Len(q)
  BY <1>1, FS_Interval
<1> QED
  BY <1>4, <1>5

-----------------------------------------------------------------------------
(* Threads and their job queues                                            *)

Active(s, e) == s.exe[e].state = "active"

JobsIn(s, t) == IF s.thr[t].jobs = Nil THEN <<>> ELSE s.rb[s.thr[t].jobs].jobs

\* What runs in thread t and waits for it has been spawned, for that thread, and is
\* there once; the job queue is the thread's own, and no shorter than it may be.
ThreadOk(s, t) ==
  /\ In(s.queue, t) <=> s.thr[t].exe # Nil
  /\ s.thr[t].exe # Nil => Active(s, s.thr[t].exe) /\ s.exe[s.thr[t].exe].thr = t
  /\ Distinct(JobsIn(s, t))
  /\ \A e \in Entries("exe") :
       In(JobsIn(s, t), e) => Active(s, e) /\ s.exe[e].thr = t /\ s.thr[t].exe # e
  /\ s.thr[t].jobs # Nil =>
       /\ s.rb[s.thr[t].jobs].used /\ s.rb[s.thr[t].jobs].length > MinRb
       /\ \A t1 \in Entries("thr") : s.thr[t1].jobs = s.thr[t].jobs => t1 = t

\* What is spawned has a place.
Seated(s, e) == s.thr[s.exe[e].thr].exe = e \/ In(JobsIn(s, s.exe[e].thr), e)

OfPrio(s, p) == {e \in Entries("exe") : Alive(s, e) /\ s.exe[e].prio = p}

Roomy(s, E) ==
  /\ \A e \in Entries("exe") \ E : Active(s, e) => Seated(s, e)
  /\ \A p \in Nat : Cardinality(OfPrio(s, p)) <= MinRb + 1

\* All is in order but for the executables of E, which are about to get a place.
Orderly(s, E) ==
  /\ Completed(s) /\ Distinct(s.queue)
  /\ \A t \in Entries("thr") : ThreadOk(s, t)
  /\ \A t \in Entries("thr") :
       s.thr[t].exe = Nil /\ (\A e \in E : s.exe[e].thr # t) => JobsIn(s, t) = <<>>
  /\ JoinsLate \notin Liberties => Roomy(s, E)

\* The idle loop runs for ever.
IdleRuns(s) ==
  0 \in Entries("exe") /\ Active(s, 0) /\ s.exe[0].thr # Nil /\ s.thr[s.exe[0].thr].exe = 0

\* Only thread t and what is created for it differ.
Elsewhere(s, u, t) ==
  /\ \A t1 \in Entries("thr") \ {t} :
       /\ u.thr[t1].exe = s.thr[t1].exe /\ u.thr[t1].jobs = s.thr[t1].jobs
       /\ In(u.queue, t1) <=> In(s.queue, t1)
       /\ s.thr[t1].jobs # Nil =>
            u.rb[s.thr[t1].jobs] = s.rb[s.thr[t1].jobs] /\ u.thr[t].jobs # s.thr[t1].jobs
  /\ \A e \in Entries("exe") :
       /\ u.exe[e].thr = s.exe[e].thr
       /\ s.exe[e].thr # t => (Active(u, e) <=> Active(s, e))

LEMMA RefsOf ==
  ASSUME NEW s \in KernelState
  PROVE  /\ \A t \in Entries("thr") : s.thr[t].exe \in Ref("exe") /\ s.thr[t].jobs \in Ref("rb")
         /\ \A t \in Entries("thr") : JobsIn(s, t) \in Seq(Entries("exe"))
         /\ \A e \in Entries("exe") : s.exe[e].thr \in Ref("thr") /\ s.exe[e].prio \in Nat
         /\ s.queue \in Seq(Entries("thr"))
<1>1. \A t \in Entries("thr") : s.thr[t].exe \in Ref("exe") /\ s.thr[t].jobs \in Ref("rb")
  BY RowsOf DEF ThrRow
<1>2. \A b \in Entries("rb") : s.rb[b].jobs \in Seq(Entries("exe"))
  BY RowsOf DEF RingRow
<1>3. \A t \in Entries("thr") : JobsIn(s, t) \in Seq(Entries("exe"))
  BY <1>1, <1>2 DEF JobsIn, Ref
<1>4. \A e \in Entries("exe") : s.exe[e].thr \in Ref("thr") /\ s.exe[e].prio \in Nat
  BY RowsOf DEF ExeRow
<1> QED
  BY <1>1, <1>3, <1>4 DEF KernelState

LEMMA OtherThread ==
  ASSUME NEW s \in KernelState, NEW u \in KernelState, NEW t, Elsewhere(s, u, t),
         NEW t1 \in Entries("thr"), t1 # t, ThreadOk(s, t1)
  PROVE  ThreadOk(u, t1) /\ JobsIn(u, t1) = JobsIn(s, t1)
<1>1. /\ u.thr[t1].exe = s.thr[t1].exe /\ u.thr[t1].jobs = s.thr[t1].jobs
      /\ In(u.queue, t1) <=> In(s.queue, t1)
      /\ s.thr[t1].jobs # Nil =>
           u.rb[s.thr[t1].jobs] = s.rb[s.thr[t1].jobs] /\ u.thr[t].jobs # s.thr[t1].jobs
  BY DEF Elsewhere
<1>2. \A e \in Entries("exe") :
        /\ u.exe[e].thr = s.exe[e].thr
        /\ s.exe[e].thr = t1 => (Active(u, e) <=> Active(s, e))
  BY DEF Elsewhere
<1>3. JobsIn(u, t1) = JobsIn(s, t1)
  BY <1>1 DEF JobsIn
<1>4. s.thr[t1].exe # Nil => s.thr[t1].exe \in Entries("exe")
  BY RefsOf DEF Ref
<1>5. u.thr[t1].exe # Nil =>
        Active(u, u.thr[t1].exe) /\ u.exe[u.thr[t1].exe].thr = t1
  BY <1>1, <1>2, <1>4 DEF ThreadOk
<1>6. \A e \in Entries("exe") :
        In(JobsIn(u, t1), e) => Active(u, e) /\ u.exe[e].thr = t1 /\ u.thr[t1].exe # e
  BY <1>1, <1>2, <1>3 DEF ThreadOk
<1>7. ASSUME u.thr[t1].jobs # Nil
      PROVE  /\ u.rb[u.thr[t1].jobs].used /\ u.rb[u.thr[t1].jobs].length > MinRb
             /\ \A t2 \in Entries("thr") : u.thr[t2].jobs = u.thr[t1].jobs => t2 = t1
  <2>1. /\ s.rb[s.thr[t1].jobs].used /\ s.rb[s.thr[t1].jobs].length > MinRb
        /\ \A t2 \in Entries("thr") : s.thr[t2].jobs = s.thr[t1].jobs => t2 = t1
    BY <1>1, <1>7 DEF ThreadOk
  <2>2. ASSUME NEW t2 \in Entries("thr"), u.thr[t2].jobs = u.thr[t1].jobs PROVE t2 = t1
    <3>1. t2 # t
      BY <1>1, <1>7, <2>2
    <3>2. u.thr[t2].jobs = s.thr[t2].jobs
      BY <3>1 DEF Elsewhere
    <3> QED
      BY <1>1, <2>1, <2>2, <3>2
  <2> QED
    BY <1>1, <1>7, <2>1, <2>2
<1>8. /\ In(u.queue, t1) <=> u.thr[t1].exe # Nil
      /\ Distinct(JobsIn(u, t1))
  BY <1>1, <1>3 DEF ThreadOk
<1>9. ThreadOk(u, t1)
  BY <1>5, <1>6, <1>7, <1>8 DEF ThreadOk
<1> QED
  BY <1>3, <1>9

LEMMA OrderlyKept ==
  ASSUME NEW s \in KernelState, NEW u \in KernelState, NEW E \in SUBSET Entries("exe"),
         NEW F \in SUBSET Entries("exe"), NEW t \in Entries("thr"),
         Orderly(s, E), Elsewhere(s, u, t), Completed(u), Distinct(u.queue), ThreadOk(u, t),
         \A e \in E \union F : s.exe[e].thr = t,
         \A p \in Nat : OfPrio(u, p) = OfPrio(s, p),
         u.thr[t].exe = Nil /\ F = {} => JobsIn(u, t) = <<>>,
         \A e \in Entries("exe") : Active(u, e) => Alive(s, e),
         JoinsLate \notin Liberties =>
           \A e \in Entries("exe") \ F : s.exe[e].thr = t /\ Active(u, e) => Seated(u, e)
  PROVE  Orderly(u, F)
<1>1. \A t1 \in Entries("thr") : t1 # t => ThreadOk(u, t1) /\ JobsIn(u, t1) = JobsIn(s, t1)
  BY OtherThread DEF Orderly
<1>2. ASSUME NEW t1 \in Entries("thr"), u.thr[t1].exe = Nil,
             \A e \in F : u.exe[e].thr # t1
      PROVE  JobsIn(u, t1) = <<>>
  <2>1. CASE t1 = t
    <3>1. F = {}
      BY <1>2, <2>1 DEF Elsewhere
    <3> QED
      BY <1>2, <2>1, <3>1
  <2>2. CASE t1 # t
    <3>1. s.thr[t1].exe = Nil
      BY <1>2, <2>2 DEF Elsewhere
    <3>2. \A e \in E : s.exe[e].thr # t1
      BY <2>2
    <3>3. JobsIn(s, t1) = <<>>
      BY <3>1, <3>2 DEF Orderly
    <3> QED
      BY <1>1, <2>2, <3>3
  <2> QED
    BY <2>1, <2>2
<1>3. ASSUME JoinsLate \notin Liberties PROVE Roomy(u, F)
  <2>1. Roomy(s, E)
    BY <1>3 DEF Orderly
  <2>2. ASSUME NEW e \in Entries("exe") \ F, Active(u, e) PROVE Seated(u, e)
    <3>1. CASE s.exe[e].thr = t
      BY <1>3, <2>2, <3>1
    <3>2. CASE s.exe[e].thr # t
      <4>1. PICK t1 : t1 = s.exe[e].thr
        OBVIOUS
      <4>2. Active(s, e) /\ u.exe[e].thr = t1 /\ e \notin E
        BY <2>2, <3>2, <4>1 DEF Elsewhere
      <4>3. t1 # Nil
        <5>1. Alive(s, e)
          BY <4>2 DEF Active, Alive
        <5> QED
          BY <4>1, <5>1 DEF Orderly, Completed, Needed
      <4>4. t1 \in Entries("thr")
        BY <4>1, <4>3, RefsOf DEF Ref
      <4>5. Seated(s, e)
        BY <2>1, <4>2 DEF Roomy
      <4>6. u.thr[t1].exe = s.thr[t1].exe /\ JobsIn(u, t1) = JobsIn(s, t1)
        BY <1>1, <3>2, <4>1, <4>4 DEF Elsewhere
      <4> QED
        BY <4>1, <4>2, <4>5, <4>6 DEF Seated
    <3> QED
      BY <3>1, <3>2
  <2>3. \A p \in Nat : Cardinality(OfPrio(u, p)) <= MinRb + 1
    BY <2>1 DEF Roomy
  <2> QED
    BY <2>2, <2>3 DEF Roomy
<1>4. \A t1 \in Entries("thr") : ThreadOk(u, t1)
  BY <1>1
<1> QED
  BY <1>2, <1>3, <1>4 DEF Orderly

\* The inductive invariant, but for the executables of E
SoundBut(s, E) ==
  /\ s \in KernelState /\ AccountedIn(s) /\ Mates(s)
  /\ EventsOnly \notin Liberties => ApartIn(s)
  /\ s.panic = "none" => Orderly(s, E)

\* What leaves the parts of all executables alone keeps most of it.
LEMMA AlikeSound ==
  ASSUME NEW s, NEW u, NEW E, NEW F, SoundBut(s, E), Alike(s, u),
         s.panic = "none", u.panic = "none" => Orderly(u, F)
  PROVE  SoundBut(u, F)
<1>1. u \in KernelState
  BY DEF Alike
<1>2. AccountedIn(u) /\ Mates(u) /\ (ApartIn(s) => ApartIn(u))
  BY AlikeKept DEF SoundBut
<1> QED
  BY <1>1, <1>2 DEF SoundBut

LEMMA AlikeUsers ==
  ASSUME NEW s, NEW u, Alike(s, u)
  PROVE  /\ Completed(s) => Completed(u)
         /\ \A p \in Nat : OfPrio(u, p) = OfPrio(s, p)
         /\ \A e \in Entries("exe") : u.exe[e].thr = s.exe[e].thr
         /\ \A e \in Entries("exe") : Active(u, e) => Alive(s, e)
<1>1. \A e \in Entries("exe") :
        /\ Alive(u, e) <=> Alive(s, e)
        /\ u.exe[e].prio = s.exe[e].prio
        /\ \A t \in Columns : u.exe[e][t] = s.exe[e][t]
  BY DEF Alike
<1>2. \A e \in Entries("exe") : u.exe[e]["thr"] = s.exe[e]["thr"]
  BY <1>1 DEF Columns
<1>3. \A p \in Nat : OfPrio(u, p) = OfPrio(s, p)
  BY <1>1 DEF OfPrio
<1> QED
  BY <1>1, <1>2, <1>3, AlikeKept DEF Active, Alive

\* One executable becomes active, or idle.
WithState(s, e, x) == [s EXCEPT !.exe[e].state = x]

Turned(s, u, e, x) ==
  /\ Alike(s, u) /\ u.thr = s.thr /\ u.rb = s.rb /\ u.queue = s.queue /\ u.panic = s.panic
  /\ u.exe[e].state = x /\ \A j \in Entries("exe") \ {e} : u.exe[j] = s.exe[j]

LEMMA StateTurned ==
  ASSUME NEW s \in KernelState, NEW e \in Entries("exe"), Alive(s, e),
         NEW x \in {"idle", "active"}
  PROVE  Turned(s, WithState(s, e, x), e, x)
<1>1. PICK u : u = WithState(s, e, x)
  OBVIOUS
<1>2. PICK row0 \in ExeRow : row0 = s.exe[e]
  BY RowsOf
<1>3. PICK row : row = [row0 EXCEPT !.state = x]
  OBVIOUS
<1>4. /\ row \in ExeRow /\ row.state = x /\ row.flags = row0.flags /\ row.prio = row0.prio
      /\ \A t \in Columns : row[t] = row0[t]
  BY <1>2, <1>3 DEF ExeRow, Columns
<1>5. u = [s EXCEPT !.exe[e] = row]
  BY <1>1, <1>2, <1>3 DEF WithState, KernelState
<1>6. /\ u \in KernelState /\ u.exe = [s.exe EXCEPT ![e] = row] /\ u.thr = s.thr
      /\ u.reg = s.reg /\ u.page = s.page /\ u.evs = s.evs /\ u.dll = s.dll /\ u.rb = s.rb
      /\ u.alloc = s.alloc /\ u.queue = s.queue /\ u.panic = s.panic
  BY <1>4, <1>5 DEF KernelState
<1>7. u.exe[e] = row /\ \A j \in Entries("exe") \ {e} : u.exe[j] = s.exe[j]
  BY <1>6 DEF KernelState
<1>8. Alike(s, u)
  <2>1. Alive(u, e) /\ Alive(s, e)
    BY <1>4, <1>7 DEF Alive
  <2> QED
    BY <1>2, <1>4, <1>6, <1>7, <2>1 DEF Alike, Alive
<1>9. Turned(s, u, e, x)
  BY <1>4, <1>6, <1>7, <1>8 DEF Turned
<1> QED
  BY <1>1, <1>9

\* dv_spawn_executable() first makes the executable active.
LEMMA ActivatedSound ==
  ASSUME NEW s, NEW e \in Entries("exe"), SoundBut(s, {}), s.panic = "none",
         s.exe[e].state = "idle", NEW u, Turned(s, u, e, "active"),
         NEW t, s.exe[e].thr = t
  PROVE  /\ SoundBut(u, {e}) /\ u.panic = "none" /\ Active(u, e)
         /\ t \in Entries("thr") /\ u.exe[e].thr = t
         /\ ~In(JobsIn(u, t), e) /\ u.thr[t].exe # e
         /\ IdleRuns(s) => IdleRuns(u)
<1>1. /\ s \in KernelState /\ u \in KernelState /\ Alike(s, u) /\ Orderly(s, {})
      /\ u.thr = s.thr /\ u.rb = s.rb /\ u.queue = s.queue /\ u.panic = s.panic
      /\ u.exe[e].state = "active" /\ \A j \in Entries("exe") \ {e} : u.exe[j] = s.exe[j]
  BY DEF Turned, SoundBut, Alike
<1>2. Alive(s, e) /\ ~Active(s, e)
  BY DEF Alive, Active
<1>3. t # Nil /\ t \in Entries("thr")
  <2>1. t # Nil
    BY <1>1, <1>2 DEF Orderly, Completed, Needed
  <2> QED
    BY <1>1, <2>1, RefsOf DEF Ref
<1>4. /\ \A j \in Entries("exe") : u.exe[j].thr = s.exe[j].thr
      /\ Completed(u) /\ \A p \in Nat : OfPrio(u, p) = OfPrio(s, p)
      /\ \A j \in Entries("exe") : Active(u, j) => Alive(s, j)
  BY <1>1, AlikeUsers DEF Orderly
<1>5. \A j \in Entries("exe") \ {e} : Active(u, j) <=> Active(s, j)
  BY <1>1 DEF Active
<1>6. JobsIn(u, t) = JobsIn(s, t) /\ ThreadOk(s, t)
  BY <1>1, <1>3 DEF JobsIn, Orderly
<1>7. ~In(JobsIn(s, t), e) /\ s.thr[t].exe # e
  <2>1. e # Nil
    BY NilIsNone DEF Tables
  <2> QED
    BY <1>2, <1>6, <2>1 DEF ThreadOk
<1>8. ThreadOk(u, t)
  <2>2. s.thr[t].exe # Nil => s.thr[t].exe \in Entries("exe")
    BY <1>1, <1>3, RefsOf DEF Ref
  <2>3. u.thr[t].exe # Nil => Active(u, u.thr[t].exe) /\ u.exe[u.thr[t].exe].thr = t
    BY <1>1, <1>4, <1>5, <1>6, <1>7, <2>2 DEF ThreadOk
  <2>4. \A j \in Entries("exe") :
          In(JobsIn(u, t), j) => Active(u, j) /\ u.exe[j].thr = t /\ u.thr[t].exe # j
    BY <1>1, <1>4, <1>5, <1>6, <1>7 DEF ThreadOk
  <2> QED
    BY <1>1, <1>6, <2>3, <2>4 DEF ThreadOk
<1>9. Elsewhere(s, u, t)
  <2>1. \A t1 \in Entries("thr") \ {t} : s.thr[t1].jobs # Nil => s.thr[t].jobs # s.thr[t1].jobs
    BY <1>1, <1>3 DEF Orderly, ThreadOk
  <2> QED
    BY <1>1, <1>4, <1>5, <2>1 DEF Elsewhere
<1>10. u.thr[t].exe = Nil /\ {e} = {} => JobsIn(u, t) = <<>>
  OBVIOUS
<1>11. ASSUME JoinsLate \notin Liberties, NEW j \in Entries("exe") \ {e}, s.exe[j].thr = t,
              Active(u, j)
       PROVE  Seated(u, j)
  <2>1. Active(s, j)
    BY <1>5, <1>11
  <2>2. Seated(s, j)
    BY <1>1, <1>11, <2>1 DEF Orderly, Roomy
  <2> QED
    BY <1>1, <1>4, <1>6, <1>11, <2>2 DEF Seated
<1>12. Orderly(u, {e})
  <2>1. Distinct(u.queue)
    BY <1>1 DEF Orderly
  <2> QED
    BY <1>1, <1>3, <1>4, <1>8, <1>9, <1>11, <2>1, OrderlyKept
<1>13. SoundBut(u, {e})
  BY <1>1, <1>12, AlikeSound
<1>14. IdleRuns(s) => IdleRuns(u)
  BY <1>1, <1>4, <1>5 DEF IdleRuns, Active
<1> QED
  BY <1>1, <1>3, <1>4, <1>6, <1>7, <1>13, <1>14 DEF Active

\* Thread t gets executable e to run, and its place among the threads.
Seats(s, u, t, e) ==
  /\ Alike(s, u) /\ u.exe = s.exe /\ u.rb = s.rb /\ u.panic = s.panic
  /\ u.thr[t].exe = e /\ u.thr[t].jobs = s.thr[t].jobs
  /\ \A t1 \in Entries("thr") \ {t} : u.thr[t1] = s.thr[t1]
  /\ Distinct(u.queue)
  /\ \A t1 : In(u.queue, t1) <=> t1 = t \/ In(s.queue, t1)

LEMMA SeatsIs ==
  ASSUME NEW s \in KernelState, NEW e \in Entries("exe"), NEW t \in Entries("thr"),
         s.exe[e].thr = t, Distinct(s.queue), ~In(s.queue, t)
  PROVE  Seats(s, SpawnInThread(s, e), t, e)
<1>1. PICK u : u = SpawnInThread(s, e)
  OBVIOUS
<1>2. PICK q \in Seq(Entries("thr")) : q = s.queue
  BY RefsOf
<1>3. PICK stop : stop = {i \in DOMAIN q : s.exe[s.thr[q[i]].exe].prio < s.exe[e].prio}
  OBVIOUS
<1>4. PICK p : p = Min(stop \union {Len(q) + 1})
  OBVIOUS
<1>5. p \in 1 .. Len(q) + 1
  <2>1. DOMAIN q = 1 .. Len(q) /\ Len(q) \in Nat
    OBVIOUS
  <2>2. PICK T : T = stop \union {Len(q) + 1}
    OBVIOUS
  <2>3. T \in SUBSET Nat /\ T # {} /\ T \subseteq 1 .. Len(q) + 1
    BY <1>3, <2>1, <2>2
  <2> QED
    BY <1>4, <2>2, <2>3, MinIsOne
<1>6. PICK trow0 \in ThrRow : trow0 = s.thr[t]
  BY RowsOf
<1>7. PICK trow : trow = [trow0 EXCEPT !.exe = e]
  OBVIOUS
<1>8. trow \in ThrRow /\ trow.exe = e /\ trow.n = trow0.n /\ trow.jobs = trow0.jobs
  BY <1>6, <1>7 DEF ThrRow, Ref
<1>9. PICK n : n = InsertAt(q, p, t)
  OBVIOUS
<1>10. /\ n \in Seq(Entries("thr")) /\ Distinct(n)
       /\ \A y : In(n, y) <=> y = t \/ In(q, y)
  BY <1>2, <1>5, <1>9, InsertedList
<1>11. u = [s EXCEPT !.thr[t].exe = e, !.queue = n]
  BY <1>1, <1>2, <1>3, <1>4, <1>9 DEF SpawnInThread
<1>12. u = [s EXCEPT !.thr[t] = trow, !.queue = n]
  BY <1>6, <1>7, <1>11 DEF KernelState
<1>13. /\ u \in KernelState /\ u.exe = s.exe /\ u.thr = [s.thr EXCEPT ![t] = trow]
       /\ u.reg = s.reg /\ u.page = s.page /\ u.evs = s.evs /\ u.dll = s.dll /\ u.rb = s.rb
       /\ u.alloc = s.alloc /\ u.queue = n /\ u.panic = s.panic
  BY <1>8, <1>10, <1>12 DEF KernelState
<1>14. u.thr[t] = trow /\ \A t1 \in Entries("thr") \ {t} : u.thr[t1] = s.thr[t1]
  BY <1>13 DEF KernelState
<1>15. Alike(s, u)
  BY <1>6, <1>8, <1>13, <1>14 DEF Alike, Alive
<1>16. Seats(s, u, t, e)
  BY <1>2, <1>6, <1>8, <1>10, <1>13, <1>14, <1>15 DEF Seats
<1> QED
  BY <1>1, <1>16

\* dv_spawn_executable_in_thread()
LEMMA SeatedSound ==
  ASSUME NEW s, NEW e \in Entries("exe"), SoundBut(s, {e}), s.panic = "none",
         NEW t \in Entries("thr"), s.exe[e].thr = t, s.thr[t].exe = Nil,
         Active(s, e), ~In(JobsIn(s, t), e)
  PROVE  /\ SoundBut(SpawnInThread(s, e), {})
         /\ SpawnInThread(s, e).panic = "none"
         /\ IdleRuns(s) => IdleRuns(SpawnInThread(s, e))
<1>1. PICK u : u = SpawnInThread(s, e)
  OBVIOUS
<1>2. s \in KernelState /\ Orderly(s, {e})
  BY DEF SoundBut
<1>3. Distinct(s.queue) /\ ThreadOk(s, t) /\ ~In(s.queue, t)
  BY <1>2 DEF Orderly, ThreadOk
<1>4. Seats(s, u, t, e)
  BY <1>1, <1>2, <1>3, SeatsIs
<1>5. /\ Alike(s, u) /\ u \in KernelState /\ u.exe = s.exe /\ u.rb = s.rb /\ u.panic = "none"
      /\ u.thr[t].exe = e /\ u.thr[t].jobs = s.thr[t].jobs
      /\ \A t1 \in Entries("thr") \ {t} : u.thr[t1] = s.thr[t1]
      /\ Distinct(u.queue)
      /\ \A t1 : In(u.queue, t1) <=> t1 = t \/ In(s.queue, t1)
  BY <1>4 DEF Seats, Alike
<1>6. /\ Completed(u) /\ \A p \in Nat : OfPrio(u, p) = OfPrio(s, p)
      /\ \A j \in Entries("exe") : Active(u, j) => Alive(s, j)
  BY <1>2, <1>5, AlikeUsers DEF Orderly
<1>7. JobsIn(u, t) = JobsIn(s, t)
  BY <1>5 DEF JobsIn
<1>8. e # Nil
  BY NilIsNone DEF Tables
<1>9. ThreadOk(u, t)
  <2>1. \A j \in Entries("exe") :
          In(JobsIn(u, t), j) => Active(u, j) /\ u.exe[j].thr = t /\ u.thr[t].exe # j
    BY <1>3, <1>5, <1>7 DEF ThreadOk, Active
  <2>2. \A t1 \in Entries("thr") : u.thr[t1].jobs = s.thr[t1].jobs
    BY <1>5
  <2> QED
    BY <1>3, <1>5, <1>7, <1>8, <2>1, <2>2 DEF ThreadOk, Active
<1>10. Elsewhere(s, u, t)
  <2>1. \A t1 \in Entries("thr") \ {t} : s.thr[t1].jobs # Nil => s.thr[t].jobs # s.thr[t1].jobs
    BY <1>2 DEF Orderly, ThreadOk
  <2> QED
    BY <1>5, <2>1 DEF Elsewhere, Active
<1>11. ASSUME JoinsLate \notin Liberties, NEW j \in Entries("exe"), s.exe[j].thr = t,
              Active(u, j)
       PROVE  Seated(u, j)
  <2>1. CASE j = e
    BY <1>5, <2>1 DEF Seated
  <2>2. CASE j # e
    <3>1. Active(s, j) /\ j # Nil
      BY <1>5, <1>11, NilIsNone DEF Active, Tables
    <3>2. Seated(s, j)
      BY <1>2, <1>11, <2>2, <3>1 DEF Orderly, Roomy
    <3> QED
      BY <1>5, <1>7, <1>11, <3>1, <3>2 DEF Seated
  <2> QED
    BY <2>1, <2>2
<1>12. Orderly(u, {})
  BY <1>2, <1>5, <1>6, <1>8, <1>9, <1>10, <1>11, OrderlyKept
<1>13. SoundBut(u, {})
  BY <1>5, <1>12, AlikeSound
<1>14. IdleRuns(s) => IdleRuns(u)
  <2>1. ASSUME IdleRuns(s) PROVE s.exe[0].thr \in Entries("thr") \ {t}
    <3>1. 0 # Nil
      BY DEF Nil
    <3> QED
      BY <1>2, <2>1, <3>1, RefsOf DEF IdleRuns, Ref
  <2> QED
    BY <1>5, <2>1 DEF IdleRuns, Active
<1> QED
  BY <1>1, <1>5, <1>13, <1>14

\* The jobs of one ring buffer change.
WithJobs(s, b, q) == [s EXCEPT !.rb[b].jobs = q]

Queued(s, u, b, q) ==
  /\ Alike(s, u) /\ u.exe = s.exe /\ u.thr = s.thr /\ u.queue = s.queue /\ u.panic = s.panic
  /\ u.rb[b].jobs = q /\ u.rb[b].used = s.rb[b].used /\ u.rb[b].length = s.rb[b].length
  /\ \A b1 \in Entries("rb") \ {b} : u.rb[b1] = s.rb[b1]

LEMMA JobsSet ==
  ASSUME NEW s \in KernelState, NEW b \in Entries("rb"), NEW q \in Seq(Entries("exe"))
  PROVE  Queued(s, WithJobs(s, b, q), b, q)
<1>1. PICK u : u = WithJobs(s, b, q)
  OBVIOUS
<1>2. PICK row0 \in RingRow : row0 = s.rb[b]
  BY RowsOf
<1>3. PICK row : row = [row0 EXCEPT !.jobs = q]
  OBVIOUS
<1>4. row \in RingRow /\ row.jobs = q /\ row.used = row0.used /\ row.length = row0.length
  BY <1>2, <1>3 DEF RingRow
<1>5. u = [s EXCEPT !.rb[b] = row]
  BY <1>1, <1>2, <1>3 DEF WithJobs, KernelState
<1>6. /\ u \in KernelState /\ u.exe = s.exe /\ u.thr = s.thr /\ u.rb = [s.rb EXCEPT ![b] = row]
      /\ u.reg = s.reg /\ u.page = s.page /\ u.evs = s.evs /\ u.dll = s.dll
      /\ u.alloc = s.alloc /\ u.queue = s.queue /\ u.panic = s.panic
  BY <1>4, <1>5 DEF KernelState
<1>7. u.rb[b] = row /\ \A b1 \in Entries("rb") \ {b} : u.rb[b1] = s.rb[b1]
  BY <1>6 DEF KernelState
<1>8. Alike(s, u)
  BY <1>2, <1>4, <1>6, <1>7 DEF Alike, Alive
<1>9. Queued(s, u, b, q)
  BY <1>2, <1>4, <1>6, <1>7, <1>8 DEF Queued
<1> QED
  BY <1>1, <1>9

\* The job queue of thread t changes to q.
LEMMA QueuedElsewhere ==
  ASSUME NEW s, NEW u, NEW b, NEW q, NEW t \in Entries("thr"), NEW E, Queued(s, u, b, q),
         SoundBut(s, E), s.panic = "none", s.thr[t].jobs = b, b # Nil
  PROVE  Elsewhere(s, u, t) /\ JobsIn(u, t) = q
<1>1. /\ s \in KernelState /\ Orderly(s, E) /\ u.exe = s.exe /\ u.thr = s.thr
      /\ u.queue = s.queue /\ u.rb[b].jobs = q
      /\ \A b1 \in Entries("rb") \ {b} : u.rb[b1] = s.rb[b1]
  BY DEF SoundBut, Queued
<1>2. \A t1 \in Entries("thr") \ {t} : s.thr[t1].jobs # b
  BY <1>1 DEF Orderly, ThreadOk
<1>3. \A t1 \in Entries("thr") \ {t} :
        s.thr[t1].jobs # Nil => u.rb[s.thr[t1].jobs] = s.rb[s.thr[t1].jobs]
  BY <1>1, <1>2, RefsOf DEF Ref
<1>4. Elsewhere(s, u, t)
  BY <1>1, <1>2, <1>3 DEF Elsewhere, Active
<1> QED
  BY <1>1, <1>4 DEF JobsIn

\* The shortest job queue has room for all the executables of its thread that can wait.
LEMMA RoomLeft ==
  ASSUME NEW s, NEW e \in Entries("exe"), SoundBut(s, {e}), s.panic = "none",
         NEW t \in Entries("thr"), s.exe[e].thr = t, s.thr[t].exe # Nil, s.thr[t].exe # e,
         s.thr[t].jobs # Nil, ~In(JobsIn(s, t), e), Active(s, e), JoinsLate \notin Liberties
  PROVE  Len(JobsIn(s, t)) + 1 < s.rb[s.thr[t].jobs].length
<1>1. s \in KernelState /\ Orderly(s, {e}) /\ Mates(s) /\ ThreadOk(s, t) /\ Roomy(s, {e})
  BY DEF SoundBut, Orderly
<1>2. PICK q \in Seq(Entries("exe")) : q = JobsIn(s, t)
  BY <1>1, RefsOf
<1>3. PICK r \in Entries("exe") : r = s.thr[t].exe
  BY <1>1, RefsOf DEF Ref
<1>4. PICK p \in Nat : p = s.exe[e].prio
  BY <1>1, RefsOf
<1>5. PICK T : T = OfPrio(s, p)
  OBVIOUS
<1>6. t # Nil
  BY NilIsNone DEF Tables
<1>7. \A j \in Entries("exe") : Active(s, j) /\ s.exe[j].thr = t => j \in T
  BY <1>1, <1>4, <1>5, <1>6 DEF Mates, OfPrio, Active, Alive
<1>8. e \in T /\ r \in T
  BY <1>1, <1>3, <1>7 DEF ThreadOk
<1>9. IsFiniteSet(T)
  <2>1. IsFiniteSet(Entries("exe"))
    BY TablesFinite DEF Tables
  <2> QED
    BY <1>5, <2>1, FS_Subset DEF OfPrio
<1>10. PICK T1 : T1 = T \ {e}
  OBVIOUS
<1>11. PICK T2 : T2 = T1 \ {r}
  OBVIOUS
<1>12. Cardinality(T1) = Cardinality(T) - 1 /\ Cardinality(T) \in Nat /\ IsFiniteSet(T1)
  BY <1>8, <1>9, <1>10, OneLess, FS_Subset
<1>13. Cardinality(T2) = Cardinality(T1) - 1 /\ IsFiniteSet(T2)
  <2>1. r \in T1
    BY <1>3, <1>8, <1>10
  <2> QED
    BY <1>11, <1>12, <2>1, OneLess, FS_Subset
<1>14. \A i \in DOMAIN q : q[i] \in T2
  <2> SUFFICES ASSUME NEW i \in DOMAIN q PROVE q[i] \in T2
    OBVIOUS
  <2>1. q[i] \in Entries("exe") /\ In(q, q[i])
    BY <1>2 DEF In
  <2>2. Active(s, q[i]) /\ s.exe[q[i]].thr = t /\ q[i] # r /\ q[i] # e
    BY <1>1, <1>2, <1>3, <2>1 DEF ThreadOk
  <2> QED
    BY <1>7, <1>10, <1>11, <2>1, <2>2
<1>15. Len(q) <= Cardinality(T2)
  <2>1. Distinct(q)
    BY <1>1, <1>2 DEF ThreadOk
  <2> QED
    BY <1>13, <1>14, <2>1, DistinctLen
<1>16. Cardinality(T) <= MinRb + 1 /\ MinRb \in Nat
  BY <1>1, <1>5, CreateAssumption DEF Roomy
<1>17. s.rb[s.thr[t].jobs].length > MinRb
  BY <1>1 DEF ThreadOk
<1>18. s.rb[s.thr[t].jobs].length \in Int
  <2>1. s.thr[t].jobs \in Entries("rb")
    BY <1>1, RefsOf DEF Ref
  <2> QED
    BY <1>1, <2>1, RowsOf DEF RingRow
<1> QED
  BY <1>2, <1>12, <1>13, <1>15, <1>16, <1>17, <1>18

\* dv_rb_append_simple()
LEMMA AppendedSound ==
  ASSUME NEW s, NEW e \in Entries("exe"), SoundBut(s, {e}), s.panic = "none",
         NEW t \in Entries("thr"), s.exe[e].thr = t, s.thr[t].exe # Nil, s.thr[t].exe # e,
         s.thr[t].jobs # Nil, ~In(JobsIn(s, t), e), Active(s, e)
  PROVE  /\ SoundBut(AppendJob(s, e), {}) /\ AppendJob(s, e).panic = "none"
         /\ IdleRuns(s) => IdleRuns(AppendJob(s, e))
<1>1. s \in KernelState /\ Orderly(s, {e}) /\ ThreadOk(s, t)
  BY DEF SoundBut, Orderly
<1>2. PICK b \in Entries("rb") : b = s.thr[t].jobs
  BY <1>1, RefsOf DEF Ref
<1>3. PICK q \in Seq(Entries("exe")) : q = s.rb[b].jobs /\ q = JobsIn(s, t)
  BY <1>1, <1>2, RefsOf DEF JobsIn
<1>4. CASE Len(q) + 1 = s.rb[b].length
  <2>1. AppendJob(s, e) = s
    BY <1>2, <1>3, <1>4 DEF AppendJob
  <2>2. JoinsLate \in Liberties
    <3>1. ASSUME JoinsLate \notin Liberties PROVE FALSE
      <4>1. Len(JobsIn(s, t)) + 1 < s.rb[s.thr[t].jobs].length
        BY <3>1, RoomLeft
      <4> QED
        BY <1>2, <1>3, <1>4, <4>1
    <3> QED
      BY <3>1
  <2>3. Orderly(s, {})
    BY <1>1, <2>2 DEF Orderly
  <2> QED
    BY <2>1, <2>3 DEF SoundBut
<1>5. CASE Len(q) + 1 # s.rb[b].length
  <2>1. PICK n : n = Append(q, e)
    OBVIOUS
  <2>2. PICK u : u = WithJobs(s, b, n)
    OBVIOUS
  <2>3. AppendJob(s, e) = u
    BY <1>2, <1>3, <1>5, <2>1, <2>2 DEF AppendJob, WithJobs
  <2>4. /\ n \in Seq(Entries("exe")) /\ Distinct(n)
        /\ \A y : In(n, y) <=> y = e \/ In(q, y)
    BY <1>1, <1>3, <2>1, AppendedList DEF ThreadOk
  <2>5. Queued(s, u, b, n)
    BY <1>1, <2>2, <2>4, JobsSet
  <2>6. /\ Alike(s, u) /\ u \in KernelState /\ u.exe = s.exe /\ u.thr = s.thr
        /\ u.queue = s.queue /\ u.panic = "none"
        /\ u.rb[b].used = s.rb[b].used /\ u.rb[b].length = s.rb[b].length
    BY <2>5 DEF Queued, Alike
  <2>7. b # Nil
    BY <1>2
  <2>8. Elsewhere(s, u, t) /\ JobsIn(u, t) = n
    BY <1>2, <2>5, <2>7, QueuedElsewhere
  <2>9. /\ Completed(u) /\ \A p \in Nat : OfPrio(u, p) = OfPrio(s, p)
        /\ \A j \in Entries("exe") : Active(u, j) => Alive(s, j)
    BY <1>1, <2>6, AlikeUsers DEF Orderly
  <2>10. ThreadOk(u, t)
    <3>1. \A j \in Entries("exe") :
            In(JobsIn(u, t), j) => Active(u, j) /\ u.exe[j].thr = t /\ u.thr[t].exe # j
      BY <1>1, <1>3, <2>4, <2>6, <2>8 DEF ThreadOk, Active
    <3> QED
      BY <1>1, <1>2, <2>4, <2>6, <2>8, <3>1 DEF ThreadOk, Active
  <2>11. ASSUME JoinsLate \notin Liberties, NEW j \in Entries("exe"), s.exe[j].thr = t,
                Active(u, j)
         PROVE  Seated(u, j)
    <3>1. CASE j = e
      BY <2>4, <2>6, <2>8, <3>1 DEF Seated
    <3>2. CASE j # e
      <4>1. Seated(s, j)
        BY <1>1, <2>6, <2>11, <3>2 DEF Orderly, Roomy, Active
      <4> QED
        BY <1>3, <2>4, <2>6, <2>8, <2>11, <4>1 DEF Seated
    <3> QED
      BY <3>1, <3>2
  <2>12. Orderly(u, {})
    <3>1. Distinct(u.queue)
      BY <1>1, <2>6 DEF Orderly
    <3> QED
      BY <1>1, <2>6, <2>8, <2>9, <2>10, <2>11, <3>1, OrderlyKept
  <2>13. SoundBut(u, {})
    BY <2>6, <2>12, AlikeSound
  <2> QED
    BY <2>3, <2>6, <2>13 DEF IdleRuns, Active
<1> QED
  BY <1>4, <1>5

\* Thread t gets ring buffer b, which nobody used, for its jobs.
WithRing(s, t, b, q) == [s EXCEPT !.rb[b] = q, !.thr[t].jobs = b]

Ringed(s, u, t, b, q) ==
  /\ u \in KernelState /\ u.exe = s.exe /\ u.reg = s.reg /\ u.page = s.page
  /\ u.evs = s.evs /\ u.dll = s.dll /\ u.queue = s.queue /\ u.panic = s.panic
  /\ u.thr[t].jobs = b /\ u.thr[t].exe = s.thr[t].exe /\ u.thr[t].n = s.thr[t].n
  /\ \A t1 \in Entries("thr") \ {t} : u.thr[t1] = s.thr[t1]
  /\ u.rb[b] = q /\ \A b1 \in Entries("rb") \ {b} : u.rb[b1] = s.rb[b1]
  /\ u.alloc["rb"].free = s.alloc["rb"].free - 1
  /\ \A t1 \in Tables \ {"rb"} : u.alloc[t1] = s.alloc[t1]

LEMMA RingSet ==
  ASSUME NEW s \in KernelState, NEW t \in Entries("thr"), NEW b \in Entries("rb"),
         NEW q \in RingRow
  PROVE  Ringed(s, Counted(WithRing(s, t, b, q), "rb", b), t, b, q)
<1>1. PICK w : w = WithRing(s, t, b, q)
  OBVIOUS
<1>2. PICK trow0 \in ThrRow : trow0 = s.thr[t]
  BY RowsOf
<1>3. PICK trow : trow = [trow0 EXCEPT !.jobs = b]
  OBVIOUS
<1>4. trow \in ThrRow /\ trow.jobs = b /\ trow.exe = trow0.exe /\ trow.n = trow0.n
  BY <1>2, <1>3 DEF ThrRow, Ref
<1>5. w = [s EXCEPT !.rb[b] = q, !.thr[t] = trow]
  BY <1>1, <1>2, <1>3 DEF WithRing, KernelState
<1>6. /\ w \in KernelState /\ w.exe = s.exe /\ w.thr = [s.thr EXCEPT ![t] = trow]
      /\ w.rb = [s.rb EXCEPT ![b] = q]
      /\ w.reg = s.reg /\ w.page = s.page /\ w.evs = s.evs /\ w.dll = s.dll
      /\ w.alloc = s.alloc /\ w.queue = s.queue /\ w.panic = s.panic
  BY <1>4, <1>5 DEF KernelState
<1>7. /\ w.thr[t] = trow /\ \A t1 \in Entries("thr") \ {t} : w.thr[t1] = s.thr[t1]
      /\ w.rb[b] = q /\ \A b1 \in Entries("rb") \ {b} : w.rb[b1] = s.rb[b1]
  BY <1>6 DEF KernelState
<1>8. PICK u : u = Counted(w, "rb", b)
  OBVIOUS
<1>9. b \in Nat /\ "rb" \in Tables
  BY TablesFinite DEF Tables
<1>10. Allots(w, u, "rb", -1)
  BY <1>6, <1>8, <1>9, CountedAllots
<1>11. /\ u \in KernelState /\ u.exe = w.exe /\ u.thr = w.thr /\ u.reg = w.reg
       /\ u.page = w.page /\ u.evs = w.evs /\ u.dll = w.dll /\ u.rb = w.rb
       /\ u.queue = w.queue /\ u.panic = w.panic
       /\ u.alloc["rb"].free = w.alloc["rb"].free + (-1)
       /\ \A t1 \in Tables \ {"rb"} : u.alloc[t1] = w.alloc[t1]
  BY <1>10 DEF Allots
<1>12. u.alloc["rb"].free = s.alloc["rb"].free - 1
  <2>1. s.alloc["rb"].free \in Int
    BY <1>9 DEF KernelState, AllocRow
  <2> QED
    BY <1>6, <1>11, <2>1
<1>13. Ringed(s, u, t, b, q)
  BY <1>2, <1>4, <1>6, <1>7, <1>11, <1>12 DEF Ringed
<1> QED
  BY <1>1, <1>8, <1>13

LEMMA RingedSound ==
  ASSUME NEW s, NEW u, NEW e \in Entries("exe"), SoundBut(s, {e}), s.panic = "none",
         NEW t \in Entries("thr"), s.exe[e].thr = t, s.thr[t].exe # Nil, s.thr[t].jobs = Nil,
         NEW b \in FreeIn(s, "rb"), NEW q, Ringed(s, u, t, b, q),
         q.used, q.jobs = <<>>, q.length > MinRb
  PROVE  SoundBut(u, {e}) /\ JobsIn(u, t) = <<>>
<1>1. /\ s \in KernelState /\ Orderly(s, {e}) /\ ThreadOk(s, t) /\ AccountedIn(s)
      /\ b \in Entries("rb") /\ ~s.rb[b].used /\ b # Nil
  <2>1. FreeIn(s, "rb") = {i \in Entries("rb") : ~s.rb[i].used}
    BY FreeInIs DEF SoundBut
  <2> QED
    BY <2>1, NilIsNone DEF SoundBut, Orderly, Tables
<1>2. /\ u \in KernelState /\ u.exe = s.exe /\ u.reg = s.reg /\ u.page = s.page
      /\ u.evs = s.evs /\ u.dll = s.dll /\ u.queue = s.queue /\ u.panic = s.panic
      /\ u.thr[t].jobs = b /\ u.thr[t].exe = s.thr[t].exe /\ u.thr[t].n = s.thr[t].n
      /\ \A t1 \in Entries("thr") \ {t} : u.thr[t1] = s.thr[t1]
      /\ u.rb[b] = q /\ \A b1 \in Entries("rb") \ {b} : u.rb[b1] = s.rb[b1]
      /\ u.alloc["rb"].free = s.alloc["rb"].free - 1
      /\ \A t1 \in Tables \ {"rb"} : u.alloc[t1] = s.alloc[t1]
  BY DEF Ringed
<1>3. \A t1 \in Entries("thr") : s.thr[t1].jobs # b
  BY <1>1 DEF Orderly, ThreadOk
<1>4. JobsIn(u, t) = <<>> /\ JobsIn(s, t) = <<>>
  BY <1>1, <1>2 DEF JobsIn
<1>5. Elsewhere(s, u, t)
  <2>1. \A t1 \in Entries("thr") \ {t} :
          s.thr[t1].jobs # Nil => u.rb[s.thr[t1].jobs] = s.rb[s.thr[t1].jobs]
    BY <1>1, <1>2, <1>3, RefsOf DEF Ref
  <2> QED
    BY <1>2, <1>3, <2>1 DEF Elsewhere, Active
<1>6. ThreadOk(u, t)
  <2>1. \A j : ~In(<<>>, j)
    BY DEF In
  <2>2. Distinct(<<>>)
    BY DEF Distinct
  <2> QED
    BY <1>1, <1>2, <1>3, <1>4, <2>1, <2>2 DEF ThreadOk, Active
<1>7. /\ \A p \in Nat : OfPrio(u, p) = OfPrio(s, p)
      /\ \A j \in Entries("exe") : Active(u, j) => Alive(s, j)
      /\ Completed(u) /\ Distinct(u.queue) /\ Mates(u)
  BY <1>1, <1>2 DEF OfPrio, Alive, Active, Completed, Orderly, Mates, SoundBut
<1>8. ASSUME JoinsLate \notin Liberties, NEW j \in Entries("exe") \ {e}, s.exe[j].thr = t,
             Active(u, j)
      PROVE  Seated(u, j)
  BY <1>1, <1>2, <1>4, <1>8 DEF Seated, Orderly, Roomy, Active
<1>9. Orderly(u, {e})
  BY <1>1, <1>2, <1>4, <1>5, <1>6, <1>7, <1>8, OrderlyKept
<1>10. /\ \A t1 \in Columns : \A i \in Entries(t1) :
            NumberOf(u, t1, i) = NumberOf(s, t1, i)
       /\ \A t1, i : Holders(u, t1, i) = Holders(s, t1, i)
  <2>1. ASSUME NEW t1 \in Columns, NEW i \in Entries(t1)
        PROVE  NumberOf(u, t1, i) = NumberOf(s, t1, i)
    <3>1. \A x \in Entries("thr") : u.thr[x].n = s.thr[x].n
      BY <1>2
    <3> QED
      BY <1>2, <3>1, <2>1 DEF NumberOf, Columns, KernelState
  <2> QED
    BY <1>2, <2>1 DEF Holders, Alive
<1>11. ASSUME NEW t1 \in Tables, t1 # "rb" PROVE CountsFree(u, t1)
  <2>1. \/ t1 \in Columns /\ \A i \in Entries(t1) : NumberOf(u, t1, i) = NumberOf(s, t1, i)
        \/ t1 = "exe" /\ \A i \in Entries("exe") : Alive(u, i) <=> Alive(s, i)
    BY <1>2, <1>10, <1>11 DEF Tables, Columns, Alive
  <2>2. FreeIn(u, t1) = FreeIn(s, t1)
    BY <1>1, <1>2, <2>1, SameFree
  <2> QED
    BY <1>1, <1>2, <1>11, <2>2, FreeKept DEF AccountedIn
<1>12. CountsFree(u, "rb")
  <2>1. /\ FreeIn(s, "rb") = {i \in Entries("rb") : ~s.rb[i].used}
        /\ FreeIn(u, "rb") = {i \in Entries("rb") : ~u.rb[i].used}
    BY <1>1, <1>2, FreeInIs
  <2>2. FreeIn(u, "rb") = FreeIn(s, "rb") \ {b}
    BY <1>1, <1>2, <2>1
  <2>3. "rb" \in Tables
    BY DEF Tables
  <2> QED
    BY <1>1, <1>2, <2>2, <2>3, FreeTaken DEF AccountedIn
<1>13. AccountedIn(u)
  BY <1>1, <1>10, <1>11, <1>12 DEF AccountedIn, Counts
<1>14. ApartIn(s) => ApartIn(u)
  BY <1>2, ApartKept DEF Alive
<1>15. SoundBut(u, {e})
  BY <1>2, <1>7, <1>9, <1>13, <1>14 DEF SoundBut
<1> QED
  BY <1>4, <1>15

\* dv_panic() ends everything but the accounts.
LEMMA PanicSound ==
  ASSUME NEW s, NEW E, NEW F, SoundBut(s, E), NEW why \in Failures
  PROVE  SoundBut(Panicked(s, why), F) /\ Panicked(s, why).panic # "none"
<1>1. PICK u : u = [s EXCEPT !.panic = why]
  OBVIOUS
<1>2. s \in KernelState /\ AccountedIn(s) /\ Mates(s) /\ why # "none"
  BY DEF SoundBut, Failures
<1>3. /\ u \in KernelState /\ AccountedIn(u) /\ (ApartIn(s) => ApartIn(u)) /\ Mates(u)
      /\ u.panic = why
  BY <1>1, <1>2, PanicAccounted
<1>4. SoundBut(u, F)
  BY <1>2, <1>3 DEF SoundBut
<1> QED
  BY <1>1, <1>2, <1>3, <1>4 DEF Panicked

\* dv_thread_rb_length()
LEMMA LongEnough ==
  ASSUME NEW n \in Nat
  PROVE  RbLength(n) \in Nat /\ RbLength(n) >= MinRb
<1>1. MinRb \in Nat /\ RoundRb \in Nat \ {0}
  BY CreateAssumption
<1>2. n % RoundRb \in 0 .. RoundRb - 1
  BY <1>1
<1> QED
  BY <1>1, <1>2 DEF RbLength

\* dv_get_thread_jobqueue()
NewlyQueued(s, u, e, t) ==
  /\ SoundBut(u, {e})
  /\ u.panic = "none" =>
       /\ u.exe = s.exe /\ u.thr[t].exe = s.thr[t].exe
       /\ u.thr[t].jobs # Nil /\ JobsIn(u, t) = <<>>
       /\ IdleRuns(s) => IdleRuns(u)

LEMMA NewQueueSound ==
  ASSUME NEW s, NEW e \in Entries("exe"), SoundBut(s, {e}), s.panic = "none",
         NEW t \in Entries("thr"), s.exe[e].thr = t, s.thr[t].exe # Nil, s.thr[t].jobs = Nil
  PROVE  NewlyQueued(s, NewJobQueue(s, e), e, t)
<1>1. PICK b : b = FreeRing(s)
  OBVIOUS
<1>2. PICK w : w = NewJobQueue(s, e)
  OBVIOUS
<1>3. PICK n : n = s.thr[t].n
  OBVIOUS
<1>4. s \in KernelState /\ AccountedIn(s)
  BY DEF SoundBut
<1>5. n \in Nat
  <2>1. Counts(s, "thr")
    BY <1>4 DEF AccountedIn, Columns
  <2> QED
    BY <1>3, <2>1, HoldersFinite DEF Counts, NumberOf
<1>6. PICK q : q = Configure(RbLength(n))
  OBVIOUS
<1>7. /\ q \in RingRow /\ q.used /\ q.jobs = <<>> /\ q.length > MinRb /\ q.length \in Int
      /\ MinRb \in Nat
  <2>1. PICK l \in Nat : l = RbLength(n) /\ l >= MinRb
    BY <1>5, LongEnough
  <2>2. q = [used |-> TRUE, length |-> l + 1, jobs |-> <<>>]
    BY <1>6, <2>1 DEF Configure
  <2>3. MinRb \in Nat /\ l + 1 \in Int /\ l + 1 > MinRb
    BY <2>1, CreateAssumption
  <2>4. <<>> \in Seq(Entries("exe"))
    OBVIOUS
  <2>5. q \in RingRow
    BY <2>2, <2>3, <2>4 DEF RingRow
  <2> QED
    BY <2>2, <2>3, <2>5
<1>8. CASE b = Nil
  <2>1. w = Panicked(s, "no ringbuffer available")
    BY <1>1, <1>2, <1>8 DEF NewJobQueue
  <2>2. "no ringbuffer available" \in Failures
    BY DEF Failures
  <2>3. SoundBut(w, {e}) /\ w.panic # "none"
    BY <2>1, <2>2, PanicSound
  <2> QED
    BY <1>2, <2>3 DEF NewlyQueued
<1>9. CASE b # Nil
  <2>1. b \in FreeIn(s, "rb") /\ b \in Entries("rb")
    BY <1>1, <1>4, <1>9, FoundOrFull DEF FreeRing, Tables
  <2>2. PICK u : u = Counted(WithRing(s, t, b, q), "rb", b)
    OBVIOUS
  <2>3. w = AllocateWords(u, q.length)
    BY <1>1, <1>2, <1>3, <1>6, <1>9, <2>2 DEF NewJobQueue, WithRing
  <2>4. Ringed(s, u, t, b, q)
    BY <1>4, <1>7, <2>1, <2>2, RingSet
  <2>5. CASE u.freewords < q.length
    <3>1. w = Panicked(u, "insufficient buffer space")
      BY <2>3, <2>5 DEF AllocateWords
    <3>2. "insufficient buffer space" \in Failures
      BY DEF Failures
    <3>3. SoundBut(u, {e})
      BY <1>7, <2>1, <2>4, RingedSound
    <3>4. SoundBut(w, {e}) /\ w.panic # "none"
      BY <3>1, <3>2, <3>3, PanicSound
    <3> QED
      BY <1>2, <3>4 DEF NewlyQueued
  <2>6. CASE ~(u.freewords < q.length)
    <3>2. u \in KernelState
      BY <2>4 DEF Ringed
    <3>0. PICK l \in Int : l = u.freewords - q.length
      BY <1>7, <3>2 DEF KernelState
    <3>1. w = [u EXCEPT !.freewords = l]
      BY <2>3, <2>6, <3>0, <3>2 DEF AllocateWords, KernelState
    <3>3. /\ w \in KernelState /\ w.exe = u.exe /\ w.thr = u.thr /\ w.reg = u.reg
          /\ w.page = u.page /\ w.evs = u.evs /\ w.dll = u.dll /\ w.rb = u.rb
          /\ w.alloc = u.alloc /\ w.queue = u.queue /\ w.panic = u.panic
      BY <3>1, <3>2 DEF KernelState
    <3>4. Ringed(s, w, t, b, q)
      BY <2>4, <3>3 DEF Ringed
    <3>5. SoundBut(w, {e}) /\ JobsIn(w, t) = <<>>
      BY <1>7, <2>1, <3>4, RingedSound
    <3>6. /\ w.exe = s.exe /\ w.thr[t].exe = s.thr[t].exe /\ w.thr[t].jobs = b
          /\ \A t1 \in Entries("thr") \ {t} : w.thr[t1] = s.thr[t1]
      BY <3>4 DEF Ringed
    <3>7. IdleRuns(s) => IdleRuns(w)
      <4>1. IdleRuns(s) => s.exe[0].thr \in Entries("thr")
        BY <1>4, RefsOf DEF IdleRuns, Ref
      <4> QED
        BY <3>6, <4>1 DEF IdleRuns, Active
    <3> QED
      BY <1>2, <1>9, <3>5, <3>6, <3>7 DEF NewlyQueued
  <2> QED
    BY <2>5, <2>6
<1> QED
  BY <1>8, <1>9

\* dv_enqueue_job_in_jobqueue()
LEMMA EnqueuedSound ==
  ASSUME NEW s, NEW e \in Entries("exe"), SoundBut(s, {e}), s.panic = "none",
         NEW t \in Entries("thr"), s.exe[e].thr = t, s.thr[t].exe # Nil, s.thr[t].exe # e,
         ~In(JobsIn(s, t), e), Active(s, e)
  PROVE  /\ SoundBut(EnqueueJob(s, e), {})
         /\ (EnqueueJob(s, e).panic = "none" /\ IdleRuns(s)) => IdleRuns(EnqueueJob(s, e))
<1>1. CASE s.thr[t].jobs = Nil
  <2>1. PICK u : u = NewJobQueue(s, e)
    OBVIOUS
  <2>2. EnqueueJob(s, e) = Then(u, AppendJob, e)
    BY <1>1, <2>1 DEF EnqueueJob, Then
  <2>3. NewlyQueued(s, u, e, t)
    BY <1>1, <2>1, NewQueueSound
  <2>4. CASE u.panic = "none"
    <3>1. /\ SoundBut(u, {e}) /\ u.exe = s.exe /\ u.thr[t].exe = s.thr[t].exe
          /\ u.thr[t].jobs # Nil /\ JobsIn(u, t) = <<>> /\ (IdleRuns(s) => IdleRuns(u))
      BY <2>3, <2>4 DEF NewlyQueued
    <3>2. ~In(JobsIn(u, t), e) /\ Active(u, e)
      BY <3>1 DEF In, Active
    <3>3. /\ SoundBut(AppendJob(u, e), {}) /\ AppendJob(u, e).panic = "none"
          /\ IdleRuns(u) => IdleRuns(AppendJob(u, e))
      BY <2>4, <3>1, <3>2, AppendedSound
    <3>4. EnqueueJob(s, e) = AppendJob(u, e)
      BY <2>2, <2>4 DEF Then
    <3> QED
      BY <3>1, <3>3, <3>4
  <2>5. CASE u.panic # "none"
    <3>1. EnqueueJob(s, e) = u
      BY <2>2, <2>5 DEF Then
    <3>2. SoundBut(u, {})
      BY <2>3, <2>5 DEF NewlyQueued, SoundBut
    <3> QED
      BY <2>5, <3>1, <3>2
  <2> QED
    BY <2>4, <2>5
<1>2. CASE s.thr[t].jobs # Nil
  <2>1. EnqueueJob(s, e) = AppendJob(s, e)
    BY <1>2 DEF EnqueueJob, Then
  <2> QED
    BY <1>2, <2>1, AppendedSound
<1> QED
  BY <1>1, <1>2

\* dv_spawn_executable()
LEMMA SpawnedSound ==
  ASSUME NEW s, NEW e \in Entries("exe"), SoundBut(s, {}), s.panic = "none",
         s.exe[e].state = "idle"
  PROVE  /\ SoundBut(SpawnExecutable(s, e), {})
         /\ (SpawnExecutable(s, e).panic = "none" /\ IdleRuns(s))
              => IdleRuns(SpawnExecutable(s, e))
<1>1. PICK u : u = WithState(s, e, "active")
  OBVIOUS
<1>2. PICK t : t = s.exe[e].thr
  OBVIOUS
<1>3. s \in KernelState /\ Alive(s, e)
  BY DEF SoundBut, Alive
<1>4. Turned(s, u, e, "active")
  BY <1>1, <1>3, StateTurned
<1>5. /\ SoundBut(u, {e}) /\ u.panic = "none" /\ Active(u, e)
      /\ t \in Entries("thr") /\ u.exe[e].thr = t
      /\ ~In(JobsIn(u, t), e) /\ u.thr[t].exe # e
      /\ IdleRuns(s) => IdleRuns(u)
  BY <1>2, <1>4, ActivatedSound
<1>6. SpawnExecutable(s, e) = IF u.thr[u.exe[e].thr].exe = Nil THEN SpawnInThread(u, e)
                              ELSE EnqueueJob(u, e)
  BY <1>1 DEF SpawnExecutable, WithState
<1>7. CASE u.thr[t].exe = Nil
  BY <1>5, <1>6, <1>7, SeatedSound
<1>8. CASE u.thr[t].exe # Nil
  BY <1>5, <1>6, <1>8, EnqueuedSound
<1> QED
  BY <1>7, <1>8

\* Executable e, which thread t runs, is idle again, and the thread has no place any more.
WithNobody(s, t) == [s EXCEPT !.thr[t].exe = Nil, !.queue = Unlinked(@, t)]

Stopped(s, u, t, e) ==
  /\ Alike(s, u) /\ u.rb = s.rb /\ u.panic = s.panic
  /\ u.exe[e].state = "idle" /\ \A j \in Entries("exe") \ {e} : u.exe[j] = s.exe[j]
  /\ u.thr[t].exe = Nil /\ u.thr[t].jobs = s.thr[t].jobs
  /\ \A t1 \in Entries("thr") \ {t} : u.thr[t1] = s.thr[t1]
  /\ Distinct(u.queue)
  /\ \A t1 : In(u.queue, t1) <=> t1 # t /\ In(s.queue, t1)

LEMMA StoppedIs ==
  ASSUME NEW s \in KernelState, NEW e \in Entries("exe"), NEW t \in Entries("thr"),
         Alive(s, e), Distinct(s.queue), In(s.queue, t)
  PROVE  Stopped(s, WithNobody(WithState(s, e, "idle"), t), t, e)
<1>1. PICK v : v = WithState(s, e, "idle")
  OBVIOUS
<1>2. PICK u : u = WithNobody(v, t)
  OBVIOUS
<1>3. Turned(s, v, e, "idle")
  BY <1>1, StateTurned
<1>4. /\ Alike(s, v) /\ v \in KernelState /\ v.thr = s.thr /\ v.rb = s.rb /\ v.queue = s.queue
      /\ v.panic = s.panic
      /\ v.exe[e].state = "idle" /\ \A j \in Entries("exe") \ {e} : v.exe[j] = s.exe[j]
  BY <1>3 DEF Turned, Alike
<1>5. PICK trow0 \in ThrRow : trow0 = v.thr[t]
  BY <1>4, RowsOf
<1>6. PICK trow : trow = [trow0 EXCEPT !.exe = Nil]
  OBVIOUS
<1>7. trow \in ThrRow /\ trow.exe = Nil /\ trow.n = trow0.n /\ trow.jobs = trow0.jobs
  BY <1>5, <1>6 DEF ThrRow, Ref
<1>8. PICK q \in Seq(Entries("thr")) : q = s.queue
  BY RefsOf
<1>9. PICK n : n = Unlinked(q, t)
  OBVIOUS
<1>10. /\ n \in Seq(Entries("thr")) /\ Distinct(n)
       /\ \A y : In(n, y) <=> y # t /\ In(q, y)
  BY <1>8, <1>9, UnlinkedList
<1>11. u = [v EXCEPT !.thr[t] = trow, !.queue = n]
  BY <1>2, <1>4, <1>5, <1>6, <1>8, <1>9 DEF WithNobody, KernelState
<1>12. /\ u \in KernelState /\ u.exe = v.exe /\ u.thr = [v.thr EXCEPT ![t] = trow]
       /\ u.reg = v.reg /\ u.page = v.page /\ u.evs = v.evs /\ u.dll = v.dll /\ u.rb = v.rb
       /\ u.alloc = v.alloc /\ u.queue = n /\ u.panic = v.panic
  BY <1>4, <1>7, <1>10, <1>11 DEF KernelState
<1>13. u.thr[t] = trow /\ \A t1 \in Entries("thr") \ {t} : u.thr[t1] = v.thr[t1]
  BY <1>4, <1>12 DEF KernelState
<1>14. Alike(s, u)
  <2>1. \A t1 \in Entries("thr") : u.thr[t1].n = s.thr[t1].n
    BY <1>4, <1>5, <1>7, <1>13
  <2> QED
    BY <1>4, <1>12, <2>1 DEF Alike, Alive
<1>15. Stopped(s, u, t, e)
  BY <1>4, <1>5, <1>7, <1>8, <1>10, <1>12, <1>13, <1>14 DEF Stopped
<1> QED
  BY <1>1, <1>2, <1>15

\* F holds a job of the thread, if it has one.
Waiting(s, t, F) ==
  /\ F \in SUBSET Entries("exe")
  /\ JobsIn(s, t) # <<>> => F # {}
  /\ \A j \in F : In(JobsIn(s, t), j)

Left(s, u, t, e, F) ==
  /\ SoundBut(u, F) /\ JobsIn(u, t) = JobsIn(s, t)
  /\ e # 0 /\ IdleRuns(s) => IdleRuns(u)

LEMMA StoppedSound ==
  ASSUME NEW s, NEW u, SoundBut(s, {}), s.panic = "none", NEW t \in Entries("thr"),
         NEW e \in Entries("exe"), s.thr[t].exe = e, Stopped(s, u, t, e),
         NEW F, Waiting(s, t, F)
  PROVE  Left(s, u, t, e, F)
<1>0. /\ F \in SUBSET Entries("exe") /\ (JobsIn(s, t) # <<>> => F # {})
      /\ \A j \in F : In(JobsIn(s, t), j)
  BY DEF Waiting
<1>1. /\ Alike(s, u) /\ s \in KernelState /\ u \in KernelState /\ u.rb = s.rb
      /\ u.panic = s.panic
      /\ u.exe[e].state = "idle" /\ \A j \in Entries("exe") \ {e} : u.exe[j] = s.exe[j]
      /\ u.thr[t].exe = Nil /\ u.thr[t].jobs = s.thr[t].jobs
      /\ \A t1 \in Entries("thr") \ {t} : u.thr[t1] = s.thr[t1]
      /\ Distinct(u.queue)
      /\ \A t1 : In(u.queue, t1) <=> t1 # t /\ In(s.queue, t1)
  BY DEF Stopped, Alike
<1>2. Orderly(s, {}) /\ ThreadOk(s, t)
  BY DEF SoundBut, Orderly
<1>3. /\ Completed(u) /\ \A p \in Nat : OfPrio(u, p) = OfPrio(s, p)
      /\ \A j \in Entries("exe") : u.exe[j].thr = s.exe[j].thr
      /\ \A j \in Entries("exe") : Active(u, j) => Alive(s, j)
  BY <1>1, <1>2, AlikeUsers DEF Orderly
<1>4. JobsIn(u, t) = JobsIn(s, t)
  BY <1>1 DEF JobsIn
<1>5. \A j \in Entries("exe") \ {e} : Active(u, j) <=> Active(s, j)
  BY <1>1 DEF Active
<1>6. ~Active(u, e) /\ e # Nil /\ s.exe[e].thr = t
  BY <1>1, <1>2, NilIsNone DEF Active, ThreadOk, Tables
<1>7. ThreadOk(u, t)
  <2>1. \A j \in Entries("exe") :
          In(JobsIn(u, t), j) => Active(u, j) /\ u.exe[j].thr = t /\ u.thr[t].exe # j
    BY <1>1, <1>2, <1>3, <1>4, <1>5, NilIsNone DEF ThreadOk, Tables
  <2>2. \A t1 \in Entries("thr") : u.thr[t1].jobs = s.thr[t1].jobs
    BY <1>1
  <2> QED
    BY <1>1, <1>2, <1>4, <2>1, <2>2 DEF ThreadOk
<1>8. Elsewhere(s, u, t)
  <2>1. \A t1 \in Entries("thr") \ {t} : s.thr[t1].jobs # Nil => s.thr[t].jobs # s.thr[t1].jobs
    BY <1>2 DEF Orderly, ThreadOk
  <2> QED
    BY <1>1, <1>3, <1>5, <1>6, <2>1 DEF Elsewhere
<1>9. ASSUME JoinsLate \notin Liberties, NEW j \in Entries("exe") \ F, s.exe[j].thr = t,
             Active(u, j)
      PROVE  Seated(u, j)
  <2>1. Active(s, j) /\ j # e
    BY <1>5, <1>6, <1>9
  <2>2. Seated(s, j)
    BY <1>2, <1>9, <2>1 DEF Orderly, Roomy
  <2> QED
    BY <1>3, <1>4, <1>9, <2>1, <2>2 DEF Seated
<1>10. \A j \in {} \union F : s.exe[j].thr = t
  BY <1>0, <1>2 DEF ThreadOk
<1>11. F = {} => JobsIn(u, t) = <<>>
  BY <1>0, <1>4
<1>12. Orderly(u, F)
  BY <1>0, <1>1, <1>2, <1>3, <1>7, <1>8, <1>9, <1>10, <1>11, OrderlyKept
<1>13. SoundBut(u, F)
  BY <1>1, <1>12, AlikeSound
<1>14. e # 0 /\ IdleRuns(s) => IdleRuns(u)
  <2>1. ASSUME IdleRuns(s), e # 0 PROVE s.exe[0].thr \in Entries("thr") \ {t}
    BY <1>1, <2>1, RefsOf DEF IdleRuns, Ref
  <2> QED
    BY <1>1, <1>3, <1>5, <2>1 DEF IdleRuns
<1> QED
  BY <1>4, <1>13, <1>14 DEF Left

\* dv_rb_remove_simple() of the job that the thread runs next
Removed(s, u, t, j) ==
  /\ SoundBut(u, {j}) /\ u.panic = "none" /\ u.exe = s.exe /\ u.thr = s.thr
  /\ ~In(JobsIn(u, t), j) /\ Active(u, j) /\ u.exe[j].thr = t
  /\ IdleRuns(s) => IdleRuns(u)

LEMMA RemovedSound ==
  ASSUME NEW s, NEW t \in Entries("thr"), NEW j \in Entries("exe"), SoundBut(s, {j}),
         s.panic = "none", JobsIn(s, t) # <<>>, j = Head(JobsIn(s, t)), s.thr[t].exe = Nil,
         NEW b, b = s.thr[t].jobs
  PROVE  Removed(s, RemoveJob(s, b), t, j)
<1>1. s \in KernelState /\ Orderly(s, {j}) /\ ThreadOk(s, t)
  BY DEF SoundBut, Orderly
<1>2. b \in Entries("rb") /\ b # Nil
  BY <1>1, RefsOf DEF Ref, JobsIn
<1>3. PICK q \in Seq(Entries("exe")) : q = s.rb[b].jobs /\ q = JobsIn(s, t)
  BY <1>1, <1>2, RefsOf DEF JobsIn
<1>4. PICK n : n = Tail(q)
  OBVIOUS
<1>5. PICK u : u = WithJobs(s, b, n)
  OBVIOUS
<1>6. RemoveJob(s, b) = u
  BY <1>3, <1>4, <1>5 DEF RemoveJob, WithJobs
<1>7. /\ n \in Seq(Entries("exe")) /\ Distinct(n) /\ In(q, j)
      /\ \A y : In(n, y) <=> y # j /\ In(q, y)
  BY <1>1, <1>3, <1>4, TailList DEF ThreadOk
<1>8. Queued(s, u, b, n)
  BY <1>1, <1>2, <1>5, <1>7, JobsSet
<1>9. /\ Alike(s, u) /\ u \in KernelState /\ u.exe = s.exe /\ u.thr = s.thr
      /\ u.queue = s.queue /\ u.panic = "none"
      /\ u.rb[b].used = s.rb[b].used /\ u.rb[b].length = s.rb[b].length
  BY <1>8 DEF Queued, Alike
<1>10. Elsewhere(s, u, t) /\ JobsIn(u, t) = n
  BY <1>2, <1>8, QueuedElsewhere
<1>11. /\ Completed(u) /\ \A p \in Nat : OfPrio(u, p) = OfPrio(s, p)
       /\ \A i \in Entries("exe") : Active(u, i) => Alive(s, i)
  BY <1>1, <1>9, AlikeUsers DEF Orderly
<1>12. ThreadOk(u, t)
  <2>1. \A i \in Entries("exe") :
          In(JobsIn(u, t), i) => Active(u, i) /\ u.exe[i].thr = t /\ u.thr[t].exe # i
    BY <1>1, <1>3, <1>7, <1>9, <1>10 DEF ThreadOk, Active
  <2> QED
    BY <1>1, <1>2, <1>7, <1>9, <1>10, <2>1 DEF ThreadOk, Active
<1>13. ASSUME JoinsLate \notin Liberties, NEW i \in Entries("exe") \ {j}, s.exe[i].thr = t,
              Active(u, i)
       PROVE  Seated(u, i)
  <2>1. Seated(s, i)
    BY <1>1, <1>9, <1>13 DEF Orderly, Roomy, Active
  <2> QED
    BY <1>3, <1>7, <1>9, <1>10, <1>13, <2>1 DEF Seated
<1>14. Active(s, j) /\ s.exe[j].thr = t
  BY <1>1, <1>3, <1>7 DEF ThreadOk
<1>15. Orderly(u, {j})
  <2>1. Distinct(u.queue)
    BY <1>1, <1>9 DEF Orderly
  <2>2. PICK F \in SUBSET Entries("exe") : F = {j}
    OBVIOUS
  <2>3. /\ Orderly(s, F) /\ \A i \in F \union F : s.exe[i].thr = t
        /\ u.thr[t].exe = Nil /\ F = {} => JobsIn(u, t) = <<>>
        /\ JoinsLate \notin Liberties =>
             \A i \in Entries("exe") \ F : s.exe[i].thr = t /\ Active(u, i) => Seated(u, i)
    BY <1>1, <1>13, <1>14, <2>2
  <2>4. Orderly(u, F)
    BY <1>1, <1>9, <1>10, <1>11, <1>12, <2>1, <2>3, OrderlyKept
  <2> QED
    BY <2>2, <2>4
<1>16. SoundBut(u, {j})
  BY <1>9, <1>15, AlikeSound
<1>17. /\ ~In(JobsIn(u, t), j) /\ Active(u, j) /\ u.exe[j].thr = t
       /\ IdleRuns(s) => IdleRuns(u)
  BY <1>7, <1>9, <1>10, <1>14 DEF Active, IdleRuns
<1> QED
  BY <1>6, <1>9, <1>16, <1>17 DEF Removed

\* dv_terminate_executable_in_thread()
Terminated(s, u, t, e) ==
  /\ SoundBut(u, {}) /\ u.panic = "none" /\ u.exe[e].state = "idle"
  /\ e # 0 /\ IdleRuns(s) => IdleRuns(u)

LEMMA TerminatedIs ==
  ASSUME NEW s, SoundBut(s, {}), s.panic = "none", NEW t \in Entries("thr"),
         NEW e \in Entries("exe"), s.thr[t].exe = e
  PROVE  Terminated(s, Terminate(s, t), t, e)
<1>1. s \in KernelState /\ Orderly(s, {}) /\ ThreadOk(s, t)
  BY DEF SoundBut, Orderly
<1>2. /\ Alive(s, e) /\ Distinct(s.queue) /\ In(s.queue, t)
      /\ JobsIn(s, t) \in Seq(Entries("exe"))
  BY <1>1, NilIsNone, RefsOf DEF ThreadOk, Orderly, Tables, Active, Alive
<1>3. PICK u : u = WithNobody(WithState(s, e, "idle"), t)
  OBVIOUS
<1>4. Stopped(s, u, t, e)
  BY <1>1, <1>2, <1>3, StoppedIs
<1>5. u.panic = "none" /\ u.exe[e].state = "idle" /\ u.thr[t].exe = Nil
  BY <1>4 DEF Stopped
<1>6. Terminate(s, t) = NextJob(u, t)
  <2>1. [s EXCEPT !.exe[e].state = "idle", !.thr[t].exe = Nil, !.queue = Unlinked(@, t)] = u
    BY <1>1, <1>3 DEF WithNobody, WithState, KernelState
  <2> QED
    BY <2>1 DEF Terminate
<1>7. CASE JobsIn(s, t) = <<>>
  <2>1. /\ SoundBut(u, {}) /\ JobsIn(u, t) = <<>>
        /\ e # 0 /\ IdleRuns(s) => IdleRuns(u)
    <3>1. Waiting(s, t, {})
      BY <1>7 DEF Waiting
    <3>2. Left(s, u, t, e, {})
      BY <1>4, <3>1, StoppedSound
    <3> QED
      BY <1>7, <3>2 DEF Left
  <2>2. NextJob(u, t) = u
    BY <2>1 DEF NextJob, JobsIn
  <2> QED
    BY <1>5, <1>6, <2>1, <2>2 DEF Terminated
<1>8. CASE JobsIn(s, t) # <<>>
  <2>1. PICK j : j = Head(JobsIn(s, t))
    OBVIOUS
  <2>2. j \in Entries("exe") /\ In(JobsIn(s, t), j)
    BY <1>1, <1>2, <1>8, <2>1, TailList DEF ThreadOk
  <2>3. /\ SoundBut(u, {j}) /\ JobsIn(u, t) = JobsIn(s, t)
        /\ e # 0 /\ IdleRuns(s) => IdleRuns(u)
    <3>1. Waiting(s, t, {j})
      BY <2>2 DEF Waiting
    <3>2. Left(s, u, t, e, {j})
      BY <1>4, <3>1, StoppedSound
    <3> QED
      BY <3>2 DEF Left
  <2>4. PICK b : b = u.thr[t].jobs
    OBVIOUS
  <2>5. PICK v : v = RemoveJob(u, b)
    OBVIOUS
  <2>6. NextJob(u, t) = SpawnInThread(v, j)
    BY <1>8, <2>1, <2>3, <2>4, <2>5 DEF NextJob, JobsIn
  <2>7. /\ SoundBut(v, {j}) /\ v.panic = "none" /\ v.exe = u.exe /\ v.thr = u.thr
        /\ ~In(JobsIn(v, t), j) /\ Active(v, j) /\ v.exe[j].thr = t
        /\ IdleRuns(u) => IdleRuns(v)
    <3>1. JobsIn(u, t) # <<>> /\ j = Head(JobsIn(u, t)) /\ u.thr[t].exe = Nil
      BY <1>5, <1>8, <2>1, <2>3
    <3> QED
      <4>1. SoundBut(u, {j})
        BY <2>3
      <4>2. Removed(u, RemoveJob(u, b), t, j)
        BY <1>5, <2>2, <2>4, <3>1, <4>1, RemovedSound
      <4> QED
        BY <2>5, <4>2 DEF Removed
  <2>8. PICK w : w = SpawnInThread(v, j)
    OBVIOUS
  <2>9. SoundBut(w, {}) /\ w.panic = "none" /\ (IdleRuns(v) => IdleRuns(w))
    BY <1>5, <2>2, <2>7, <2>8, SeatedSound
  <2>10. w.exe = v.exe
    BY <2>7, <2>8 DEF SpawnInThread, SoundBut, KernelState
  <2> QED
    BY <1>5, <1>6, <2>3, <2>6, <2>7, <2>8, <2>9, <2>10 DEF Terminated
<1> QED
  BY <1>7, <1>8

-----------------------------------------------------------------------------
(* Parts that an executable gives back                                     *)

\* One user fewer of entry i of table t, which may be nobody's now.  Without an entry
\* nothing changes.
GivesIn(s, u, t, i) ==
  /\ \A j \in Entries(t) \ {i} : NumberOf(u, t, j) = NumberOf(s, t, j)
  /\ i # Nil => NumberOf(u, t, i) = NumberOf(s, t, i) - 1
  /\ i # Nil /\ NumberOf(u, t, i) = 0 => u.alloc[t].free = s.alloc[t].free + 1
  /\ i = Nil \/ NumberOf(u, t, i) # 0 => u.alloc[t].free = s.alloc[t].free

SameIn(s, u, t) ==
  /\ \A j \in Entries(t) : NumberOf(u, t, j) = NumberOf(s, t, j)
  /\ u.alloc[t].free = s.alloc[t].free

SameElse(s, u) ==
  /\ s \in KernelState /\ u \in KernelState
  /\ u.exe = s.exe /\ u.rb = s.rb /\ u.queue = s.queue /\ u.panic = s.panic
  /\ \A x \in Entries("thr") : u.thr[x].exe = s.thr[x].exe /\ u.thr[x].jobs = s.thr[x].jobs
  /\ \A t \in {"exe", "rb"} : u.alloc[t].free = s.alloc[t].free

Gives(s, u, t, i) ==
  /\ SameElse(s, u) /\ GivesIn(s, u, t, i)
  /\ \A t1 \in Columns \ {t} : SameIn(s, u, t1)

\* Executable e has given back its parts of the tables in T.
Returned(s, u, e, T) ==
  /\ SameElse(s, u)
  /\ \A t \in T : GivesIn(s, u, t, s.exe[e][t])
  /\ \A t \in Columns \ T : SameIn(s, u, t)

LEMMA PartOf ==
  ASSUME NEW s \in KernelState, NEW e \in Entries("exe"), NEW t \in Columns
  PROVE  s.exe[e][t] \in Ref(t)
<1>1. PICK row \in ExeRow : row = s.exe[e]
  BY RowsOf
<1>2. /\ row["thr"] \in Ref("thr") /\ row["reg"] \in Ref("reg") /\ row["page"] \in Ref("page")
      /\ row["evs"] \in Ref("evs") /\ row["dll"] \in Ref("dll")
  BY DEF ExeRow
<1> QED
  BY <1>1, <1>2 DEF Columns

LEMMA NothingReturned ==
  ASSUME NEW s \in KernelState, NEW e
  PROVE  Returned(s, s, e, {})
BY DEF Returned, SameElse, SameIn

LEMMA OneReturned ==
  ASSUME NEW s, NEW v, NEW u, NEW e \in Entries("exe"), NEW T, NEW t \in Columns \ T,
         Returned(s, v, e, T), T \subseteq Columns, Gives(v, u, t, v.exe[e][t])
  PROVE  Returned(s, u, e, T \union {t})
<1>1. /\ SameElse(s, v) /\ \A t1 \in T : GivesIn(s, v, t1, s.exe[e][t1])
      /\ \A t1 \in Columns \ T : SameIn(s, v, t1)
  BY DEF Returned
<1>2. /\ SameElse(v, u) /\ \A t1 \in Columns \ {t} : SameIn(v, u, t1)
  BY DEF Gives
<1>3. SameElse(s, u) /\ v.exe = s.exe
  BY <1>1, <1>2 DEF SameElse
<1>4. GivesIn(v, u, t, s.exe[e][t])
  BY <1>3 DEF Gives
<1>5. PICK i : i = s.exe[e][t]
  OBVIOUS
<1>6. GivesIn(s, u, t, i)
  <2>1. SameIn(s, v, t) /\ t \in Columns /\ v \in KernelState /\ s \in KernelState
    BY <1>1 DEF SameElse
  <2>2. GivesIn(v, u, t, i)
    BY <1>4, <1>5
  <2>4. \A j \in Entries(t) : NumberOf(v, t, j) = NumberOf(s, t, j)
    BY <2>1 DEF SameIn
  <2>5. i # Nil => i \in Entries(t)
    BY <1>5, <2>1, PartOf DEF Ref
  <2> QED
    BY <2>1, <2>2, <2>4, <2>5 DEF GivesIn, SameIn
<1>7. ASSUME NEW t1 \in T PROVE GivesIn(s, u, t1, s.exe[e][t1])
  <2>1. PICK j1 : j1 = s.exe[e][t1]
    OBVIOUS
  <2>2. SameIn(v, u, t1) /\ GivesIn(s, v, t1, j1) /\ s \in KernelState /\ t1 \in Columns
    BY <1>1, <1>2, <2>1 DEF SameElse
  <2>3. \A j \in Entries(t1) : NumberOf(u, t1, j) = NumberOf(v, t1, j)
    BY <2>2 DEF SameIn
  <2>4. j1 # Nil => j1 \in Entries(t1)
    BY <2>1, <2>2, PartOf DEF Ref
  <2>5. GivesIn(s, u, t1, j1)
    BY <2>2, <2>3, <2>4 DEF SameIn, GivesIn
  <2> QED
    BY <2>1, <2>5
<1>8. ASSUME NEW t1 \in Columns \ (T \union {t}) PROVE SameIn(s, u, t1)
  <2>1. SameIn(v, u, t1) /\ SameIn(s, v, t1)
    BY <1>1, <1>2
  <2> QED
    BY <2>1 DEF SameIn
<1> QED
  BY <1>3, <1>5, <1>6, <1>7, <1>8 DEF Returned

\* Entry i of table t says that it has one user fewer.
Lowers(s, u, t, i) ==
  /\ SameElse(s, u) /\ u.alloc = s.alloc /\ t \in Columns /\ i \in Entries(t)
  /\ NumberOf(u, t, i) = NumberOf(s, t, i) - 1
  /\ \A j \in Entries(t) \ {i} : NumberOf(u, t, j) = NumberOf(s, t, j)
  /\ \A t1 \in Columns \ {t} : \A j \in Entries(t1) : NumberOf(u, t1, j) = NumberOf(s, t1, j)

LEMMA LoweredGives ==
  ASSUME NEW s, NEW u, NEW t, NEW i, Lowers(s, u, t, i)
  PROVE  /\ NumberOf(u, t, i) # 0 => Gives(s, u, t, i)
         /\ NumberOf(u, t, i) = 0 => Gives(s, Freed(u, t), t, i)
<1>1. /\ SameElse(s, u) /\ u.alloc = s.alloc /\ t \in Columns /\ i \in Entries(t)
      /\ u \in KernelState /\ s \in KernelState
  BY DEF Lowers, SameElse
<1>2. t \in Tables /\ i # Nil
  BY <1>1, NilIsNone DEF Columns, Tables
<1>3. \A t1 \in Columns \ {t} : SameIn(s, u, t1)
  BY <1>1 DEF Lowers, SameIn
<1>4. ASSUME NumberOf(u, t, i) # 0 PROVE Gives(s, u, t, i)
  <2>1. GivesIn(s, u, t, i)
    BY <1>1, <1>2, <1>4 DEF GivesIn, Lowers
  <2> QED
    BY <1>1, <1>3, <2>1 DEF Gives
<1>5. ASSUME NumberOf(u, t, i) = 0 PROVE Gives(s, Freed(u, t), t, i)
  <2>1. PICK w : w = Freed(u, t)
    OBVIOUS
  <2>2. Allots(u, w, t, 1)
    BY <1>1, <1>2, <2>1, FreedAllots
  <2>3. /\ \A t1 \in Columns : \A j : NumberOf(w, t1, j) = NumberOf(u, t1, j)
        /\ \A t1 \in Tables \ {t} : w.alloc[t1] = u.alloc[t1]
        /\ w.alloc[t].free = u.alloc[t].free + 1
    BY <1>1, <2>2, AllotsSame DEF Allots
  <2>4. SameElse(s, w)
    BY <1>1, <2>2, <2>3 DEF SameElse, Allots, Tables, Columns
  <2>5. GivesIn(s, w, t, i)
    BY <1>1, <1>2, <1>5, <2>3 DEF GivesIn, Lowers
  <2>6. \A t1 \in Columns \ {t} : SameIn(s, w, t1)
    BY <1>3, <2>3 DEF SameIn, Columns, Tables
  <2>7. Gives(s, w, t, i)
    BY <2>4, <2>5, <2>6 DEF Gives
  <2> QED
    BY <2>1, <2>7
<1> QED
  BY <1>4, <1>5

\* dv_deallocate_thread()
LEMMA ThreadGiven ==
  ASSUME NEW s \in KernelState, NEW i \in Entries("thr"), s.thr[i].n >= 1
  PROVE  Gives(s, LeaveThread(s, i), "thr", i)
<1>1. PICK row0 \in ThrRow : row0 = s.thr[i]
  BY RowsOf
<1>2. PICK row : row = [row0 EXCEPT !.n = @ - 1]
  OBVIOUS
<1>3. /\ row \in ThrRow /\ row.n = row0.n - 1 /\ row.jobs = row0.jobs /\ row.exe = row0.exe
      /\ row0.n \in Int
  BY <1>2 DEF ThrRow
<1>4. PICK u : u = [s EXCEPT !.thr[i] = row]
  OBVIOUS
<1>5. [s EXCEPT !.thr[i].n = @ - 1] = u
  BY <1>1, <1>2, <1>4 DEF KernelState
<1>6. /\ u \in KernelState /\ u.exe = s.exe /\ u.thr = [s.thr EXCEPT ![i] = row]
      /\ u.reg = s.reg /\ u.page = s.page /\ u.evs = s.evs /\ u.dll = s.dll /\ u.rb = s.rb
      /\ u.alloc = s.alloc /\ u.queue = s.queue /\ u.panic = s.panic
  BY <1>3, <1>4 DEF KernelState
<1>7. u.thr[i] = row /\ \A x \in Entries("thr") \ {i} : u.thr[x] = s.thr[x]
  BY <1>6 DEF KernelState
<1>8. SameElse(s, u)
  BY <1>1, <1>3, <1>6, <1>7 DEF SameElse
<1>9. Lowers(s, u, "thr", i)
  BY <1>1, <1>3, <1>6, <1>7, <1>8 DEF Lowers, NumberOf, Columns
<1>10. LeaveThread(s, i) = IF u.thr[i].n <= 0 THEN Freed(u, "thr") ELSE u
  BY <1>5 DEF LeaveThread
<1>11. NumberOf(u, "thr", i) = u.thr[i].n /\ u.thr[i].n \in Int /\ u.thr[i].n >= 0
  BY <1>1, <1>3, <1>7 DEF NumberOf
<1>12. CASE u.thr[i].n = 0
  BY <1>9, <1>10, <1>11, <1>12, LoweredGives
<1>13. CASE u.thr[i].n # 0
  BY <1>9, <1>10, <1>11, <1>13, LoweredGives
<1> QED
  BY <1>12, <1>13

\* dv_deallocate_registers()
LEMMA RegistersGiven ==
  ASSUME NEW s \in KernelState, NEW i \in Entries("reg"), s.reg[i] >= 1
  PROVE  Gives(s, LeaveRegisters(s, i), "reg", i)
<1>1. PICK n \in Int : n = s.reg[i] /\ n >= 1
  BY DEF KernelState
<1>2. n - 1 \in Int
  BY <1>1
<1>4. PICK u : u = [s EXCEPT !.reg[i] = n - 1]
  OBVIOUS
<1>5. [s EXCEPT !.reg[i] = @ - 1] = u
  BY <1>1, <1>4 DEF KernelState
<1>6. /\ u \in KernelState /\ u.exe = s.exe /\ u.reg = [s.reg EXCEPT ![i] = n - 1]
      /\ u.thr = s.thr /\ u.page = s.page /\ u.evs = s.evs /\ u.dll = s.dll /\ u.rb = s.rb
      /\ u.alloc = s.alloc /\ u.queue = s.queue /\ u.panic = s.panic
  BY <1>2, <1>4 DEF KernelState
<1>7. u.reg[i] = n - 1 /\ \A x \in Entries("reg") \ {i} : u.reg[x] = s.reg[x]
  BY <1>6 DEF KernelState
<1>8. SameElse(s, u)
  BY <1>6 DEF SameElse
<1>9. Lowers(s, u, "reg", i)
  BY <1>1, <1>6, <1>7, <1>8 DEF Lowers, NumberOf, Columns
<1>10. LeaveRegisters(s, i) = IF u.reg[i] <= 0 THEN Freed(u, "reg") ELSE u
  BY <1>5 DEF LeaveRegisters
<1>11. NumberOf(u, "reg", i) = u.reg[i] /\ u.reg[i] = n - 1
  BY <1>7 DEF NumberOf
<1>12. CASE u.reg[i] = 0
  BY <1>9, <1>10, <1>11, <1>12, LoweredGives
<1>13. CASE u.reg[i] # 0
  BY <1>1, <1>9, <1>10, <1>11, <1>13, LoweredGives
<1> QED
  BY <1>12, <1>13

\* dv_deallocate_dllelement()
LEMMA ElementGiven ==
  ASSUME NEW s \in KernelState, NEW i \in Ref("dll"), i # Nil => s.dll[i]
  PROVE  Gives(s, ReleaseElement(s, i), "dll", i)
<1>1. CASE i = Nil
  <2>1. ReleaseElement(s, i) = s
    BY <1>1 DEF ReleaseElement
  <2>2. Gives(s, s, "dll", i)
    BY <1>1 DEF Gives, GivesIn, SameElse, SameIn
  <2> QED
    BY <2>1, <2>2
<1>2. CASE i # Nil
  <2>0. i \in Entries("dll") /\ s.dll[i]
    BY <1>2 DEF Ref
  <2>1. PICK u : u = [s EXCEPT !.dll[i] = FALSE]
    OBVIOUS
  <2>2. /\ u \in KernelState /\ u.exe = s.exe /\ u.dll = [s.dll EXCEPT ![i] = FALSE]
        /\ u.thr = s.thr /\ u.page = s.page /\ u.evs = s.evs /\ u.reg = s.reg /\ u.rb = s.rb
        /\ u.alloc = s.alloc /\ u.queue = s.queue /\ u.panic = s.panic
    BY <2>1 DEF KernelState
  <2>3. ~u.dll[i] /\ \A x \in Entries("dll") \ {i} : u.dll[x] = s.dll[x]
    BY <2>0, <2>2 DEF KernelState
  <2>4. SameElse(s, u)
    BY <2>2 DEF SameElse
  <2>5. NumberOf(u, "dll", i) = 0 /\ NumberOf(s, "dll", i) = 1
    BY <2>0, <2>3 DEF NumberOf
  <2>6. Lowers(s, u, "dll", i)
    <3>1. \A j \in Entries("dll") \ {i} : NumberOf(u, "dll", j) = NumberOf(s, "dll", j)
      BY <2>3 DEF NumberOf
    <3>2. \A t1 \in Columns \ {"dll"} : \A j \in Entries(t1) :
            NumberOf(u, t1, j) = NumberOf(s, t1, j)
      BY <2>2 DEF NumberOf, Columns
    <3> QED
      BY <2>0, <2>2, <2>4, <2>5, <3>1, <3>2 DEF Lowers, Columns
  <2>7. ReleaseElement(s, i) = Freed(u, "dll")
    BY <1>2, <2>1 DEF ReleaseElement
  <2> QED
    BY <2>5, <2>6, <2>7, LoweredGives
<1> QED
  BY <1>1, <1>2

\* dv_deallocate_eventstatus()
LEMMA EventsGiven ==
  ASSUME NEW s \in KernelState, NEW i \in Ref("evs"), i # Nil => s.evs[i]
  PROVE  Gives(s, ReleaseEvents(s, i), "evs", i)
<1>1. CASE i = Nil
  <2>1. ReleaseEvents(s, i) = s
    BY <1>1 DEF ReleaseEvents
  <2>2. Gives(s, s, "evs", i)
    BY <1>1 DEF Gives, GivesIn, SameElse, SameIn
  <2> QED
    BY <2>1, <2>2
<1>2. CASE i # Nil
  <2>0. i \in Entries("evs") /\ s.evs[i]
    BY <1>2 DEF Ref
  <2>1. PICK u : u = [s EXCEPT !.evs[i] = FALSE]
    OBVIOUS
  <2>2. /\ u \in KernelState /\ u.exe = s.exe /\ u.evs = [s.evs EXCEPT ![i] = FALSE]
        /\ u.thr = s.thr /\ u.page = s.page /\ u.dll = s.dll /\ u.reg = s.reg /\ u.rb = s.rb
        /\ u.alloc = s.alloc /\ u.queue = s.queue /\ u.panic = s.panic
    BY <2>1 DEF KernelState
  <2>3. ~u.evs[i] /\ \A x \in Entries("evs") \ {i} : u.evs[x] = s.evs[x]
    BY <2>0, <2>2 DEF KernelState
  <2>4. SameElse(s, u)
    BY <2>2 DEF SameElse
  <2>5. NumberOf(u, "evs", i) = 0 /\ NumberOf(s, "evs", i) = 1
    BY <2>0, <2>3 DEF NumberOf
  <2>6. Lowers(s, u, "evs", i)
    <3>1. \A j \in Entries("evs") \ {i} : NumberOf(u, "evs", j) = NumberOf(s, "evs", j)
      BY <2>3 DEF NumberOf
    <3>2. \A t1 \in Columns \ {"evs"} : \A j \in Entries(t1) :
            NumberOf(u, t1, j) = NumberOf(s, t1, j)
      BY <2>2 DEF NumberOf, Columns
    <3> QED
      BY <2>0, <2>2, <2>4, <2>5, <3>1, <3>2 DEF Lowers, Columns
  <2>7. ReleaseEvents(s, i) = Freed(u, "evs")
    BY <1>2, <2>1 DEF ReleaseEvents
  <2> QED
    BY <2>5, <2>6, <2>7, LoweredGives
<1> QED
  BY <1>1, <1>2

\* Whoever has an entry is one of those that it counts.
LEMMA UserCounted ==
  ASSUME NEW s \in KernelState, AccountedIn(s), NEW e \in Entries("exe"), Alive(s, e),
         NEW t \in Columns, s.exe[e][t] # Nil
  PROVE  s.exe[e][t] \in Entries(t) /\ NumberOf(s, t, s.exe[e][t]) >= 1
<1>1. PICK i \in Entries(t) : i = s.exe[e][t]
  BY PartOf DEF Ref
<1>2. e \in Holders(s, t, i)
  BY <1>1 DEF Holders
<1>3. Cardinality(Holders(s, t, i)) # 0 /\ Cardinality(Holders(s, t, i)) \in Nat
  BY <1>2, HoldersFinite, NobodyCounted
<1>4. NumberOf(s, t, i) >= Cardinality(Holders(s, t, i)) /\ NumberOf(s, t, i) \in Int
  <2>1. Counts(s, t)
    BY DEF AccountedIn
  <2>2. NumberOf(s, t, i) \in Int
    BY NumberFree
  <2> QED
    BY <1>3, <2>1, <2>2 DEF Counts
<1> QED
  BY <1>1, <1>3, <1>4

ReturnedAll(s, e) ==
  LeaveThread(LeaveRegisters(ReleaseEvents(ReleaseElement(s, s.exe[e].dll), s.exe[e].evs),
                             s.exe[e].reg), s.exe[e].thr)

LEMMA AllReturned ==
  ASSUME NEW s \in KernelState, AccountedIn(s), Completed(s),
         NEW e \in Entries("exe"), Alive(s, e)
  PROVE  Returned(s, ReturnedAll(s, e), e, {"dll", "evs", "reg", "thr"})
<1>1. PICK v1 : v1 = ReleaseElement(s, s.exe[e].dll)
  OBVIOUS
<1>2. PICK v2 : v2 = ReleaseEvents(v1, s.exe[e].evs)
  OBVIOUS
<1>3. PICK v3 : v3 = LeaveRegisters(v2, s.exe[e].reg)
  OBVIOUS
<1>4. PICK v4 : v4 = LeaveThread(v3, s.exe[e].thr)
  OBVIOUS
<1>5. ReturnedAll(s, e) = v4
  BY <1>1, <1>2, <1>3, <1>4 DEF ReturnedAll
<1>6. /\ s.exe[e]["dll"] \in Ref("dll") /\ s.exe[e]["evs"] \in Ref("evs")
      /\ s.exe[e]["reg"] \in Entries("reg") /\ s.exe[e]["thr"] \in Entries("thr")
  BY PartOf DEF Completed, Needed, Columns, Ref
<1>7. /\ s.exe[e]["dll"] # Nil => NumberOf(s, "dll", s.exe[e]["dll"]) >= 1
      /\ s.exe[e]["evs"] # Nil => NumberOf(s, "evs", s.exe[e]["evs"]) >= 1
      /\ NumberOf(s, "reg", s.exe[e]["reg"]) >= 1
      /\ NumberOf(s, "thr", s.exe[e]["thr"]) >= 1
  BY UserCounted DEF Completed, Needed, Columns
<1>8. Returned(s, v1, e, {"dll"})
  <2>1. s.exe[e]["dll"] # Nil => s.dll[s.exe[e]["dll"]]
    BY <1>7 DEF NumberOf
  <2>2. Gives(s, v1, "dll", s.exe[e]["dll"])
    BY <1>1, <1>6, <2>1, ElementGiven
  <2>3. Returned(s, s, e, {})
    BY NothingReturned
  <2>4. Returned(s, v1, e, {} \union {"dll"})
    BY <2>2, <2>3, OneReturned DEF Columns
  <2>5. {} \union {"dll"} = {"dll"}
    OBVIOUS
  <2> QED
    BY <2>4, <2>5
<1>9. /\ v1 \in KernelState /\ v1.exe = s.exe
      /\ \A t \in Columns \ {"dll"} : SameIn(s, v1, t)
  BY <1>8 DEF Returned, SameElse
<1>10. Returned(s, v2, e, {"dll", "evs"})
  <2>1. s.exe[e]["evs"] # Nil => v1.evs[s.exe[e]["evs"]]
    <3>1. SameIn(s, v1, "evs")
      BY <1>9 DEF Columns
    <3> QED
      BY <1>6, <1>7, <3>1 DEF NumberOf, SameIn, Ref
  <2>2. Gives(v1, v2, "evs", v1.exe[e]["evs"])
    BY <1>2, <1>6, <1>9, <2>1, EventsGiven
  <2>3. Returned(s, v2, e, {"dll"} \union {"evs"})
    BY <1>8, <2>2, OneReturned DEF Columns
  <2>4. {"dll"} \union {"evs"} = {"dll", "evs"}
    OBVIOUS
  <2> QED
    BY <2>3, <2>4
<1>11. /\ v2 \in KernelState /\ v2.exe = s.exe
       /\ \A t \in Columns \ {"dll", "evs"} : SameIn(s, v2, t)
  BY <1>10 DEF Returned, SameElse
<1>12. Returned(s, v3, e, {"dll", "evs", "reg"})
  <2>1. v2.reg[s.exe[e]["reg"]] >= 1
    <3>1. SameIn(s, v2, "reg")
      BY <1>11 DEF Columns
    <3> QED
      BY <1>6, <1>7, <3>1 DEF NumberOf, SameIn
  <2>2. Gives(v2, v3, "reg", v2.exe[e]["reg"])
    BY <1>3, <1>6, <1>11, <2>1, RegistersGiven
  <2>3. Returned(s, v3, e, {"dll", "evs"} \union {"reg"})
    BY <1>10, <2>2, OneReturned DEF Columns
  <2>4. {"dll", "evs"} \union {"reg"} = {"dll", "evs", "reg"}
    OBVIOUS
  <2> QED
    BY <2>3, <2>4
<1>13. /\ v3 \in KernelState /\ v3.exe = s.exe
       /\ \A t \in Columns \ {"dll", "evs", "reg"} : SameIn(s, v3, t)
  BY <1>12 DEF Returned, SameElse
<1>14. Returned(s, v4, e, {"dll", "evs", "reg", "thr"})
  <2>1. v3.thr[s.exe[e]["thr"]].n >= 1
    <3>1. SameIn(s, v3, "thr")
      BY <1>13 DEF Columns
    <3> QED
      BY <1>6, <1>7, <3>1 DEF NumberOf, SameIn
  <2>2. Gives(v3, v4, "thr", v3.exe[e]["thr"])
    BY <1>4, <1>6, <1>13, <2>1, ThreadGiven
  <2>3. Returned(s, v4, e, {"dll", "evs", "reg"} \union {"thr"})
    BY <1>12, <2>2, OneReturned DEF Columns
  <2>4. {"dll", "evs", "reg"} \union {"thr"} = {"dll", "evs", "reg", "thr"}
    OBVIOUS
  <2> QED
    BY <2>3, <2>4
<1> QED
  BY <1>5, <1>14

\* Executable e is gone, and has left everything but its page.
Gone(s, u, e) ==
  /\ u \in KernelState /\ RowSet(s, u, e, FreeExe)
  /\ u.rb = s.rb /\ u.queue = s.queue /\ u.panic = s.panic
  /\ \A x \in Entries("thr") : u.thr[x].exe = s.thr[x].exe /\ u.thr[x].jobs = s.thr[x].jobs
  /\ u.alloc["exe"].free = s.alloc["exe"].free + 1
  /\ u.alloc["rb"].free = s.alloc["rb"].free
  /\ \A t \in Columns \ {"page"} : GivesIn(s, u, t, s.exe[e][t])
  /\ SameIn(s, u, "page")

LEMMA DestroyedGone ==
  ASSUME NEW s \in KernelState, AccountedIn(s), Completed(s),
         NEW e \in Entries("exe"), Alive(s, e)
  PROVE  Gone(s, DestroyExecutable(s, e), e)
<1>1. PICK v : v = ReturnedAll(s, e)
  OBVIOUS
<1>2. Returned(s, v, e, {"dll", "evs", "reg", "thr"})
  BY <1>1, AllReturned
<1>3. /\ SameElse(s, v)
      /\ \A t \in Columns \ {"page"} : GivesIn(s, v, t, s.exe[e][t])
      /\ SameIn(s, v, "page")
  BY <1>2 DEF Returned, Columns
<1>4. /\ v \in KernelState /\ v.exe = s.exe /\ v.rb = s.rb /\ v.queue = s.queue
      /\ v.panic = s.panic
      /\ \A x \in Entries("thr") : v.thr[x].exe = s.thr[x].exe /\ v.thr[x].jobs = s.thr[x].jobs
      /\ \A t \in {"exe", "rb"} : v.alloc[t].free = s.alloc[t].free
  BY <1>3 DEF SameElse
<1>5. FreeExe \in ExeRow
  BY DEF FreeExe, ExeRow, Ref, Flags
<1>6. PICK row \in ExeRow : row = FreeExe
  BY <1>5
<1>7. PICK w : w = [v EXCEPT !.exe[e] = row]
  OBVIOUS
<1>8. /\ w \in KernelState /\ w.exe = [v.exe EXCEPT ![e] = row] /\ w.thr = v.thr
      /\ w.reg = v.reg /\ w.page = v.page /\ w.evs = v.evs /\ w.dll = v.dll /\ w.rb = v.rb
      /\ w.alloc = v.alloc /\ w.queue = v.queue /\ w.panic = v.panic
  BY <1>4, <1>7 DEF KernelState
<1>9. PICK u : u = Freed(w, "exe")
  OBVIOUS
<1>10. Allots(w, u, "exe", 1)
  BY <1>8, <1>9, FreedAllots DEF Tables
<1>11. /\ u \in KernelState /\ u.exe = w.exe /\ u.thr = w.thr /\ u.reg = w.reg
       /\ u.page = w.page /\ u.evs = w.evs /\ u.dll = w.dll /\ u.rb = w.rb
       /\ u.queue = w.queue /\ u.panic = w.panic
       /\ u.alloc["exe"].free = w.alloc["exe"].free + 1
       /\ \A t1 \in Tables \ {"exe"} : u.alloc[t1] = w.alloc[t1]
  BY <1>10 DEF Allots
<1>12. DestroyExecutable(s, e) = u
  BY <1>1, <1>6, <1>7, <1>9 DEF DestroyExecutable, ReturnedAll
<1>13. \A t \in Columns : \A i : NumberOf(u, t, i) = NumberOf(v, t, i)
  BY <1>8, <1>11 DEF NumberOf, Columns
<1>14. \A t \in Columns : u.alloc[t] = v.alloc[t]
  BY <1>8, <1>11 DEF Columns, Tables
<1>15. \A t \in Columns \ {"page"} : GivesIn(s, u, t, s.exe[e][t])
  BY <1>3, <1>13, <1>14 DEF GivesIn
<1>16. SameIn(s, u, "page")
  BY <1>3, <1>13, <1>14 DEF SameIn, Columns
<1>17. RowSet(s, u, e, FreeExe)
  BY <1>4, <1>6, <1>8, <1>11 DEF RowSet
<1>18. Gone(s, u, e)
  BY <1>4, <1>8, <1>11, <1>15, <1>16, <1>17 DEF Gone, Tables
<1> QED
  BY <1>12, <1>18

LEMMA GoneAccounted ==
  ASSUME NEW s, NEW u, NEW e, Gone(s, u, e), AccountedIn(s), Completed(s), Alive(s, e)
  PROVE  AccountedIn(u)
<1>1. /\ s \in KernelState /\ u \in KernelState /\ e \in Entries("exe")
      /\ RowSet(s, u, e, FreeExe) /\ u.exe = [s.exe EXCEPT ![e] = FreeExe]
  BY DEF Gone, RowSet
<1>2. FreeExe.state = "free"
  BY DEF FreeExe
<1>3. ASSUME NEW t \in Columns \ {"page"} PROVE Counts(u, t) /\ CountsFree(u, t)
  <2>1. PICK i \in Ref(t) : i = s.exe[e][t]
    BY <1>1, PartOf
  <2>2. Counts(s, t) /\ CountsFree(s, t) /\ t \in Tables
    BY DEF AccountedIn, Columns, Tables
  <2>3. GivesIn(s, u, t, i)
    BY <2>1 DEF Gone
  <2>4. /\ \A j \in Entries(t) : j \in FreeIn(s, t) <=> NumberOf(s, t, j) = 0
        /\ \A j \in Entries(t) : j \in FreeIn(u, t) <=> NumberOf(u, t, j) = 0
        /\ FreeIn(s, t) \subseteq Entries(t) /\ FreeIn(u, t) \subseteq Entries(t)
    BY <1>1, NumberFree DEF FreeIn
  <2>5. CASE i = Nil
    <3>1. \A j \in Entries(t) : NumberOf(u, t, j) = NumberOf(s, t, j)
      BY <2>2, <2>3, <2>5, NilIsNone DEF GivesIn
    <3>2. u.alloc[t].free = s.alloc[t].free
      BY <2>3, <2>5 DEF GivesIn
    <3>3. FreeIn(u, t) = FreeIn(s, t)
      BY <2>4, <3>1
    <3>4. Counts(u, t)
      <4>1. PICK row : row = FreeExe
        OBVIOUS
      <4>2. RowSet(s, u, e, row) /\ row.state = "free" /\ s.exe[e][t] = Nil
        BY <1>1, <1>2, <2>1, <2>5, <4>1
      <4>3. \/ Alive(s, e) /\ row.state # "free" /\ row[t] = s.exe[e][t]
            \/ (Alive(s, e) => s.exe[e][t] = Nil) /\ (row.state # "free" => row[t] = Nil)
        BY <4>2
      <4> QED
        BY <2>2, <3>1, <4>2, <4>3, CountsKept
    <3> QED
      BY <2>2, <3>2, <3>3, <3>4, FreeKept
  <2>6. CASE i # Nil
    <3>1. i \in Entries(t) /\ NumberOf(s, t, i) >= 1 /\ NumberOf(s, t, i) \in Int
      BY <1>1, <2>1, <2>6, UserCounted, NumberFree
    <3>2. /\ NumberOf(u, t, i) = NumberOf(s, t, i) - 1
          /\ \A j \in Entries(t) \ {i} : NumberOf(u, t, j) = NumberOf(s, t, j)
      BY <2>3, <2>6 DEF GivesIn
    <3>3. Counts(u, t)
      BY <1>1, <1>2, <2>1, <2>2, <3>1, <3>2, CountsLeft
    <3>4. CASE NumberOf(u, t, i) = 0
      <4>1. u.alloc[t].free = s.alloc[t].free + 1
        BY <2>3, <2>6, <3>4 DEF GivesIn
      <4>2. i \notin FreeIn(s, t)
        BY <2>4, <3>1
      <4>3. FreeIn(u, t) = FreeIn(s, t) \union {i}
        BY <2>4, <3>1, <3>2, <3>4
      <4> QED
        BY <2>2, <3>3, <4>1, <4>2, <4>3, FreeGiven
    <3>5. CASE NumberOf(u, t, i) # 0
      <4>1. u.alloc[t].free = s.alloc[t].free
        BY <2>3, <2>6, <3>5 DEF GivesIn
      <4>2. FreeIn(u, t) = FreeIn(s, t)
        BY <2>4, <3>1, <3>2, <3>5
      <4> QED
        BY <2>2, <3>3, <4>1, <4>2, FreeKept
    <3> QED
      BY <3>4, <3>5
  <2> QED
    BY <2>5, <2>6
<1>4. Counts(u, "page") /\ CountsFree(u, "page")
  <2>1. "page" \in Columns /\ "page" \in Tables
    BY DEF Columns, Tables
  <2>2. PICK i \in Entries("page") : i = s.exe[e]["page"]
    BY <1>1, <2>1, PartOf DEF Completed, Needed, Ref
  <2>3. /\ \A j \in Entries("page") : NumberOf(u, "page", j) = NumberOf(s, "page", j)
        /\ u.alloc["page"].free = s.alloc["page"].free
    BY DEF Gone, SameIn
  <2>4. Counts(s, "page") /\ CountsFree(s, "page")
    BY <2>1 DEF AccountedIn
  <2>5. Counts(u, "page")
    BY <1>1, <1>2, <2>1, <2>2, <2>3, <2>4, CountsLeft
  <2>6. FreeIn(u, "page") = FreeIn(s, "page")
    BY <1>1, <2>1, <2>3, SameFree
  <2> QED
    BY <2>3, <2>4, <2>5, <2>6, FreeKept
<1>5. CountsFree(u, "rb")
  <2>1. "rb" \in Tables
    BY DEF Tables
  <2>2. /\ \A b \in Entries("rb") : u.rb[b].used = s.rb[b].used
        /\ u.alloc["rb"].free = s.alloc["rb"].free
    BY DEF Gone
  <2>3. FreeIn(u, "rb") = FreeIn(s, "rb")
    BY <1>1, <2>1, <2>2, SameFree
  <2>4. CountsFree(s, "rb")
    BY <2>1 DEF AccountedIn
  <2> QED
    BY <2>2, <2>3, <2>4, FreeKept
<1>6. CountsFree(u, "exe")
  <2>1. "exe" \in Tables
    BY DEF Tables
  <2>2. /\ FreeIn(s, "exe") = {i \in Entries("exe") : ~Alive(s, i)}
        /\ FreeIn(u, "exe") = {i \in Entries("exe") : ~Alive(u, i)}
    BY <1>1, FreeInIs
  <2>3. \A i \in Entries("exe") : Alive(u, i) <=> i # e /\ Alive(s, i)
    BY <1>1, <1>2 DEF Alive, KernelState
  <2>4. FreeIn(u, "exe") = FreeIn(s, "exe") \union {e} /\ e \notin FreeIn(s, "exe")
    BY <1>1, <2>2, <2>3
  <2>5. CountsFree(s, "exe") /\ u.alloc["exe"].free = s.alloc["exe"].free + 1
    BY <2>1 DEF AccountedIn, Gone
  <2> QED
    BY <2>1, <2>4, <2>5, FreeGiven
<1>7. \A t \in Tables : t \in Columns \ {"page"} \/ t \in {"page", "rb", "exe"}
  BY DEF Tables, Columns
<1> QED
  BY <1>3, <1>4, <1>5, <1>6, <1>7 DEF AccountedIn

\* dv_destroy_executable()
LEMMA DestroyedSound ==
  ASSUME NEW s, SoundBut(s, {}), s.panic = "none", NEW e \in Entries("exe"),
         s.exe[e].state = "idle"
  PROVE  /\ SoundBut(DestroyExecutable(s, e), {})
         /\ IdleRuns(s) => IdleRuns(DestroyExecutable(s, e))
<1>1. PICK u : u = DestroyExecutable(s, e)
  OBVIOUS
<1>2. /\ s \in KernelState /\ AccountedIn(s) /\ Mates(s) /\ Orderly(s, {}) /\ Completed(s)
      /\ Alive(s, e) /\ ~Active(s, e)
  BY DEF SoundBut, Orderly, Alive, Active
<1>3. Gone(s, u, e)
  BY <1>1, <1>2, DestroyedGone
<1>4. /\ u \in KernelState /\ RowSet(s, u, e, FreeExe) /\ u.exe = [s.exe EXCEPT ![e] = FreeExe]
      /\ u.rb = s.rb /\ u.queue = s.queue /\ u.panic = s.panic
      /\ \A x \in Entries("thr") : u.thr[x].exe = s.thr[x].exe /\ u.thr[x].jobs = s.thr[x].jobs
  BY <1>3 DEF Gone, RowSet
<1>5. AccountedIn(u)
  BY <1>2, <1>3, GoneAccounted
<1>6. /\ ~Alive(u, e) /\ ~Active(u, e)
      /\ \A j \in Entries("exe") \ {e} : u.exe[j] = s.exe[j]
  BY <1>2, <1>4 DEF Alive, Active, FreeExe, KernelState
<1>7. Mates(u)
  BY <1>2, <1>6 DEF Mates, Alive
<1>8. ASSUME ApartIn(s) PROVE ApartIn(u)
  <2> SUFFICES ASSUME NEW j \in Entries("exe"), Blocks(u, j), NEW t \in {"reg", "page"}
               PROVE  Holders(u, t, u.exe[j][t]) = {j}
    BY DEF ApartIn
  <2>1. j # e /\ u.exe[j] = s.exe[j]
    BY <1>6 DEF Blocks
  <2>2. Blocks(s, j)
    BY <2>1 DEF Blocks, Alive
  <2>3. Holders(s, t, s.exe[j][t]) = {j}
    BY <1>8, <2>2 DEF ApartIn
  <2>4. FreeExe.state = "free"
    BY DEF FreeExe
  <2>5. Holders(u, t, s.exe[j][t]) = Holders(s, t, s.exe[j][t]) \ {e}
    BY <1>4, <2>4, HolderLeaves
  <2> QED
    BY <2>1, <2>3, <2>5
<1>9. \A t \in Entries("thr") : JobsIn(u, t) = JobsIn(s, t)
  BY <1>4 DEF JobsIn
<1>10. \A j \in Entries("exe") : Active(s, j) => u.exe[j] = s.exe[j] /\ Active(u, j)
  BY <1>2, <1>6 DEF Active
<1>11. ASSUME NEW t \in Entries("thr") PROVE ThreadOk(u, t)
  <2>1. ThreadOk(s, t) /\ JobsIn(u, t) = JobsIn(s, t)
    BY <1>2, <1>9 DEF Orderly
  <2>2. s.thr[t].exe # Nil => s.thr[t].exe \in Entries("exe")
    BY <1>2, RefsOf DEF Ref
  <2>3. u.thr[t].exe # Nil => Active(u, u.thr[t].exe) /\ u.exe[u.thr[t].exe].thr = t
    BY <1>4, <1>10, <2>1, <2>2 DEF ThreadOk
  <2>4. \A j \in Entries("exe") :
          In(JobsIn(u, t), j) => Active(u, j) /\ u.exe[j].thr = t /\ u.thr[t].exe # j
    BY <1>4, <1>10, <2>1 DEF ThreadOk
  <2> QED
    BY <1>4, <2>1, <2>3, <2>4 DEF ThreadOk
<1>12. \A t \in Entries("thr") : u.thr[t].exe = Nil => JobsIn(u, t) = <<>>
  BY <1>2, <1>4, <1>9 DEF Orderly
<1>13. ASSUME JoinsLate \notin Liberties PROVE Roomy(u, {})
  <2>1. Roomy(s, {})
    BY <1>2, <1>13 DEF Orderly
  <2>2. ASSUME NEW j \in Entries("exe"), Active(u, j) PROVE Seated(u, j)
    <3>1. j # e /\ u.exe[j] = s.exe[j] /\ Active(s, j)
      BY <1>6, <2>2 DEF Active
    <3>2. Seated(s, j)
      BY <2>1, <3>1 DEF Roomy
    <3>3. s.exe[j].thr \in Entries("thr")
      BY <1>2, <3>1, RefsOf DEF Ref, Completed, Needed, Active, Alive
    <3> QED
      BY <1>4, <1>9, <3>1, <3>2, <3>3 DEF Seated
  <2>3. ASSUME NEW p \in Nat PROVE Cardinality(OfPrio(u, p)) <= MinRb + 1
    <3>1. OfPrio(u, p) \subseteq OfPrio(s, p)
      BY <1>6 DEF OfPrio, Alive
    <3>2. IsFiniteSet(OfPrio(s, p))
      <4>1. IsFiniteSet(Entries("exe")) /\ OfPrio(s, p) \subseteq Entries("exe")
        BY TablesFinite DEF Tables, OfPrio
      <4> QED
        BY <4>1, FS_Subset
    <3>3. /\ Cardinality(OfPrio(u, p)) <= Cardinality(OfPrio(s, p))
          /\ Cardinality(OfPrio(u, p)) \in Nat /\ Cardinality(OfPrio(s, p)) \in Nat
      BY <3>1, <3>2, FS_Subset, FS_CardinalityType
    <3>4. Cardinality(OfPrio(s, p)) <= MinRb + 1 /\ MinRb \in Nat
      BY <2>1, CreateAssumption DEF Roomy
    <3> QED
      BY <3>3, <3>4
  <2> QED
    BY <2>2, <2>3 DEF Roomy
<1>14. Completed(u) /\ Distinct(u.queue)
  BY <1>2, <1>4, <1>6 DEF Completed, Orderly, Alive
<1>15. Orderly(u, {})
  BY <1>11, <1>12, <1>13, <1>14 DEF Orderly
<1>16. SoundBut(u, {})
  BY <1>4, <1>5, <1>7, <1>8, <1>15 DEF SoundBut
<1>17. IdleRuns(s) => IdleRuns(u)
  <2>1. IdleRuns(s) => s.exe[0].thr \in Entries("thr")
    BY <1>2, RefsOf DEF IdleRuns, Ref
  <2> QED
    BY <1>4, <1>10, <2>1 DEF IdleRuns
<1> QED
  BY <1>1, <1>16, <1>17

-----------------------------------------------------------------------------
(* The system calls keep the invariant                                     *)

\* What the application keeps to when it creates an executable
Allowed(s, c) ==
  /\ c.prio \in Nat /\ c.flags \in SUBSET Flags
  /\ EventsOnly \notin Liberties => ("events" \in c.flags => "blocking" \in c.flags)
  /\ JoinsLate \notin Liberties => Cardinality(OfPrio(s, c.prio)) <= MinRb

\* dv_create_executable()
LEMMA CreatedSound ==
  ASSUME NEW s, SoundBut(s, {}), s.panic = "none", NEW c, Allowed(s, c)
  PROVE  /\ SoundBut(CreateExecutable(s, c), {})
         /\ (CreateExecutable(s, c).panic = "none" /\ IdleRuns(s))
              => IdleRuns(CreateExecutable(s, c))
<1>1. PICK u : u = CreateExecutable(s, c)
  OBVIOUS
<1>2. PICK e : e = Found(s, "exe")
  OBVIOUS
<1>3. /\ s \in KernelState /\ AccountedIn(s) /\ Mates(s) /\ Orderly(s, {}) /\ Completed(s)
      /\ c.prio \in Nat /\ c.flags \in SUBSET Flags
  BY DEF SoundBut, Orderly, Allowed
<1>4. Created(s, u, e, c)
  BY <1>1, <1>2, <1>3, CreatedIs
<1>5. /\ u \in KernelState /\ AccountedIn(u) /\ Mates(u)
      /\ EventsOnly \notin Liberties => ApartIn(u)
  BY <1>4 DEF Created, Allowed, SoundBut
<1>6. CASE u.panic # "none"
  BY <1>1, <1>5, <1>6 DEF SoundBut
<1>7. CASE u.panic = "none"
  <2>1. /\ e \in Entries("exe") /\ ~Alive(s, e) /\ u.exe = [s.exe EXCEPT ![e] = u.exe[e]]
        /\ u.exe[e].state = "idle" /\ u.exe[e].prio = c.prio
        /\ \A t \in Needed : u.exe[e][t] # Nil
        /\ u.queue = s.queue /\ u.rb = s.rb
        /\ \A x \in Entries("thr") :
             /\ u.thr[x].exe = s.thr[x].exe
             /\ u.thr[x].jobs = s.thr[x].jobs \/ (u.thr[x].jobs = Nil /\ s.thr[x].n = 0)
    BY <1>4, <1>7 DEF Created
  <2>2. /\ \A j \in Entries("exe") \ {e} : u.exe[j] = s.exe[j]
        /\ ~Active(s, e) /\ ~Active(u, e)
    <3>1. PICK row : row = u.exe[e]
      OBVIOUS
    <3>2. \A j \in Entries("exe") \ {e} : u.exe[j] = s.exe[j]
      BY <1>3, <2>1, <3>1 DEF KernelState
    <3> QED
      BY <2>1, <3>2 DEF Alive, Active
  <2>3. \A j \in Entries("exe") : (Active(s, j) \/ Active(u, j)) => u.exe[j] = s.exe[j]
    BY <2>2
  <2>4. \A j \in Entries("exe") : Active(s, j) <=> Active(u, j)
    BY <2>2 DEF Active
  <2>5. ASSUME NEW x \in Entries("thr"), s.thr[x].n = 0 PROVE JobsIn(s, x) = <<>>
    <3>1. Holders(s, "thr", x) = {}
      <4>1. Counts(s, "thr")
        BY <1>3 DEF AccountedIn, Columns
      <4>2. Cardinality(Holders(s, "thr", x)) = 0
        BY <2>5, <4>1 DEF Counts, NumberOf
      <4> QED
        BY <4>2, HoldersFinite, NobodyCounted
    <3>2. ThreadOk(s, x)
      BY <1>3 DEF Orderly
    <3>3. s.thr[x].exe = Nil
      <4>1. ASSUME s.thr[x].exe # Nil PROVE FALSE
        <5>1. PICK j \in Entries("exe") : j = s.thr[x].exe
          BY <1>3, <4>1, RefsOf DEF Ref
        <5>2. Alive(s, j) /\ s.exe[j].thr = x
          BY <3>2, <4>1, <5>1 DEF ThreadOk, Active, Alive
        <5>3. j \in Holders(s, "thr", x)
          BY <5>2 DEF Holders
        <5> QED
          BY <3>1, <5>3
      <4> QED
        BY <4>1
    <3> QED
      BY <1>3, <3>3 DEF Orderly
  <2>6. \A x \in Entries("thr") : JobsIn(u, x) = JobsIn(s, x)
    BY <2>1, <2>5 DEF JobsIn
  <2>7. ASSUME NEW x \in Entries("thr") PROVE ThreadOk(u, x)
    <3>1. ThreadOk(s, x) /\ JobsIn(u, x) = JobsIn(s, x)
      BY <1>3, <2>6 DEF Orderly
    <3>2. s.thr[x].exe # Nil => s.thr[x].exe \in Entries("exe")
      BY <1>3, RefsOf DEF Ref
    <3>3. u.thr[x].exe # Nil => Active(u, u.thr[x].exe) /\ u.exe[u.thr[x].exe].thr = x
      BY <2>1, <2>3, <2>4, <3>1, <3>2 DEF ThreadOk
    <3>4. \A j \in Entries("exe") :
            In(JobsIn(u, x), j) => Active(u, j) /\ u.exe[j].thr = x /\ u.thr[x].exe # j
      BY <2>1, <2>3, <2>4, <3>1 DEF ThreadOk
    <3>5. ASSUME u.thr[x].jobs # Nil
          PROVE  /\ u.rb[u.thr[x].jobs].used /\ u.rb[u.thr[x].jobs].length > MinRb
                 /\ \A x1 \in Entries("thr") : u.thr[x1].jobs = u.thr[x].jobs => x1 = x
      <4>1. /\ u.thr[x].jobs = s.thr[x].jobs
            /\ \A x1 \in Entries("thr") : u.thr[x1].jobs = u.thr[x].jobs =>
                 u.thr[x1].jobs = s.thr[x1].jobs
        BY <2>1, <3>5
      <4> QED
        BY <2>1, <3>1, <3>5, <4>1 DEF ThreadOk
    <3> QED
      BY <2>1, <3>1, <3>3, <3>4, <3>5 DEF ThreadOk
  <2>8. \A x \in Entries("thr") : u.thr[x].exe = Nil => JobsIn(u, x) = <<>>
    BY <1>3, <2>1, <2>6 DEF Orderly
  <2>9. ASSUME JoinsLate \notin Liberties PROVE Roomy(u, {})
    <3>1. Roomy(s, {})
      BY <1>3, <2>9 DEF Orderly
    <3>2. ASSUME NEW j \in Entries("exe"), Active(u, j) PROVE Seated(u, j)
      <4>1. u.exe[j] = s.exe[j] /\ Active(s, j)
        BY <2>3, <2>4, <3>2
      <4>2. Seated(s, j)
        BY <3>1, <4>1 DEF Roomy
      <4>3. s.exe[j].thr \in Entries("thr")
        BY <1>3, <4>1, RefsOf DEF Ref, Completed, Needed, Active, Alive
      <4> QED
        BY <2>1, <2>6, <4>1, <4>2, <4>3 DEF Seated
    <3>3. ASSUME NEW p \in Nat PROVE Cardinality(OfPrio(u, p)) <= MinRb + 1
      <4>1. /\ IsFiniteSet(OfPrio(s, p)) /\ Cardinality(OfPrio(s, p)) \in Nat
            /\ MinRb \in Nat
        <5>1. IsFiniteSet(Entries("exe")) /\ OfPrio(s, p) \subseteq Entries("exe")
          BY TablesFinite DEF Tables, OfPrio
        <5> QED
          BY <5>1, FS_Subset, FS_CardinalityType, CreateAssumption
      <4>2. e \notin OfPrio(s, p)
        BY <2>1 DEF OfPrio
      <4>3. CASE p = c.prio
        <5>1. OfPrio(u, p) = OfPrio(s, p) \union {e}
          BY <2>1, <2>2, <4>3 DEF OfPrio, Alive
        <5>2. Cardinality(OfPrio(u, p)) = Cardinality(OfPrio(s, p)) + 1
          BY <4>1, <4>2, <5>1, OneMore
        <5>3. Cardinality(OfPrio(s, p)) <= MinRb
          BY <2>9, <4>3 DEF Allowed
        <5> QED
          BY <4>1, <5>2, <5>3
      <4>4. CASE p # c.prio
        <5>1. OfPrio(u, p) = OfPrio(s, p)
          BY <2>1, <2>2, <4>4 DEF OfPrio, Alive
        <5> QED
          BY <3>1, <5>1 DEF Roomy
      <4> QED
        BY <4>3, <4>4
    <3> QED
      BY <3>2, <3>3 DEF Roomy
  <2>10. Completed(u) /\ Distinct(u.queue)
    BY <1>3, <2>1, <2>2 DEF Completed, Orderly, Alive
  <2>11. Orderly(u, {})
    BY <2>7, <2>8, <2>9, <2>10 DEF Orderly
  <2>12. IdleRuns(s) => IdleRuns(u)
    <3>1. IdleRuns(s) => s.exe[0].thr \in Entries("thr")
      BY <1>3, RefsOf DEF IdleRuns, Ref
    <3> QED
      BY <2>1, <2>3, <2>4, <3>1 DEF IdleRuns
  <2> QED
    BY <1>1, <1>5, <2>11, <2>12 DEF SoundBut
<1> QED
  BY <1>6, <1>7

-----------------------------------------------------------------------------
(* dv_start() creates and spawns the first two executables                 *)

LEMMA EmptyState ==
  Empty \in KernelState
<1>1. /\ FreeExe \in ExeRow
      /\ [n |-> 0, jobs |-> Nil, exe |-> Nil] \in ThrRow
  BY DEF FreeExe, ExeRow, ThrRow, Ref, Flags
<1>2. [used |-> FALSE, length |-> 0, jobs |-> <<>>] \in RingRow
  <2>1. <<>> \in Seq(Entries("exe"))
    OBVIOUS
  <2> QED
    BY <2>1 DEF RingRow
<1>3. \A t \in Tables : Size[t] \in Int
  BY CreateAssumption
<1>4. \A t \in Tables : [free |-> Size[t], next |-> 0] \in AllocRow
  BY <1>3 DEF AllocRow
<1>5. Size["words"] \in Int
  BY CreateAssumption
<1>6. <<>> \in Seq(Entries("thr"))
  OBVIOUS
<1> QED
  BY <1>1, <1>2, <1>4, <1>5, <1>6 DEF Empty, KernelState

LEMMA EmptySound ==
  SoundBut(Empty, {})
<1>1. PICK s : s = Empty
  OBVIOUS
<1>2. s \in KernelState
  BY <1>1, EmptyState
<1>3. /\ \A e \in Entries("exe") : ~Alive(s, e) /\ ~Active(s, e)
      /\ \A t \in Entries("thr") : s.thr[t].n = 0 /\ s.thr[t].jobs = Nil /\ s.thr[t].exe = Nil
      /\ \A b \in Entries("rb") : ~s.rb[b].used
      /\ \A t \in Tables : s.alloc[t].free = Size[t]
      /\ s.queue = <<>>
  BY <1>1 DEF Empty, FreeExe, Alive, Active
<1>4. /\ \A i \in Entries("reg") : s.reg[i] = 0
      /\ \A i \in Entries("page") : s.page[i] = 0
      /\ \A i \in Entries("evs") : ~s.evs[i]
      /\ \A i \in Entries("dll") : ~s.dll[i]
  BY <1>1 DEF Empty
<1>5. \A t \in Columns : \A i \in Entries(t) : NumberOf(s, t, i) = 0
  BY <1>3, <1>4 DEF Columns, NumberOf
<1>6. \A t, i : Holders(s, t, i) = {}
  BY <1>3 DEF Holders
<1>7. \A t \in Columns : Counts(s, t)
  <2>1. Cardinality({}) = 0
    BY FS_EmptySet
  <2> QED
    BY <1>5, <1>6, <2>1 DEF Counts
<1>8. ASSUME NEW t \in Tables PROVE CountsFree(s, t)
  <2>1. FreeIn(s, t) = Entries(t)
    <3>1. /\ FreeIn(s, "exe") = {i \in Entries("exe") : ~Alive(s, i)}
          /\ FreeIn(s, "rb") = {i \in Entries("rb") : ~s.rb[i].used}
      BY <1>2, FreeInIs
    <3>2. CASE t \in {"exe", "rb"}
      BY <1>3, <3>1, <3>2
    <3>3. CASE t \in Columns
      <4>1. \A i \in Entries(t) : i \in FreeIn(s, t)
        BY <1>2, <1>5, <3>3, NumberFree
      <4> QED
        BY <4>1 DEF FreeIn
    <3> QED
      BY <3>2, <3>3 DEF Tables, Columns
  <2>2. PICK n \in Nat : n = Size[t] /\ n >= 1
    BY CreateAssumption
  <2>3. Cardinality(0 .. (n - 1)) = n
    <3>1. 0 \in Int /\ n - 1 \in Int
      BY <2>2
    <3>2. Cardinality(0 .. (n - 1)) = IF 0 > n - 1 THEN 0 ELSE (n - 1) - 0 + 1
      BY <3>1, FS_Interval
    <3> QED
      BY <2>2, <3>2
  <2> QED
    BY <1>3, <2>1, <2>2, <2>3 DEF CountsFree, Entries
<1>9. Mates(s) /\ ApartIn(s) /\ Completed(s)
  BY <1>3 DEF Mates, ApartIn, Blocks, Completed
<1>10. /\ \A x : ~In(<<>>, x)
       /\ Distinct(<<>>)
  BY DEF In, Distinct
<1>11. \A t \in Entries("thr") : JobsIn(s, t) = <<>> /\ ThreadOk(s, t)
  BY <1>3, <1>10 DEF JobsIn, ThreadOk
<1>12. Roomy(s, {})
  <2>1. ASSUME NEW p \in Nat PROVE Cardinality(OfPrio(s, p)) <= MinRb + 1
    <3>1. OfPrio(s, p) = {}
      BY <1>3 DEF OfPrio
    <3>2. Cardinality(OfPrio(s, p)) = 0 /\ MinRb \in Nat
      BY <3>1, FS_EmptySet, CreateAssumption
    <3> QED
      BY <3>2
  <2>2. \A e \in Entries("exe") \ {} : Active(s, e) => Seated(s, e)
    BY <1>3
  <2> QED
    BY <2>1, <2>2 DEF Roomy
<1>13. Orderly(s, {})
  BY <1>3, <1>9, <1>10, <1>11, <1>12 DEF Orderly
<1> QED
  BY <1>1, <1>2, <1>7, <1>8, <1>9, <1>13 DEF SoundBut, AccountedIn

LEMMA Modulo ==
  ASSUME NEW n \in Nat, n >= 1, NEW x \in Nat, x < n + n
  PROVE  x % n = IF x < n THEN x ELSE x - n
<1>1. CASE x < n
  BY <1>1
<1>2. CASE ~(x < n)
  <2>1. x % n \in 0 .. n - 1 /\ x = n * (x \div n) + (x % n) /\ x \div n \in Int
    OBVIOUS
  <2>2. PICK q \in Int, r \in Int : q = x \div n /\ r = x % n
    BY <2>1
  <2>3. x = n * q + r /\ r >= 0 /\ r < n
    BY <2>1, <2>2
  <2>4. q >= 1 /\ q < 2
    BY <1>2, <2>3
  <2>5. q = 1
    BY <2>4
  <2> QED
    BY <1>2, <2>2, <2>3, <2>5
<1> QED
  BY <1>1, <1>2

\* dv_allocate_obj() finds the entry after the last one that it found, if that is free.
LEMMA FoundNext ==
  ASSUME NEW s \in KernelState, NEW t \in Tables, NEW i \in FreeIn(s, t),
         s.alloc[t].next = i, s.alloc[t].free > 0
  PROVE  Found(s, t) = i
<1>1. PICK n \in Nat : n = Size[t] /\ n >= 1
  BY CreateAssumption
<1>2. PICK free : free = FreeIn(s, t)
  OBVIOUS
<1>3. \A j \in free : j \in Nat /\ j < n
  BY <1>1, <1>2 DEF FreeIn, Entries
<1> DEFINE Distance(j) == (j + n - i) % n
<1>4. i \in Nat /\ i < n /\ i \in free
  BY <1>2, <1>3
<1>5. ASSUME NEW j \in free
      PROVE  Distance(j) \in Nat /\ (Distance(j) = 0 <=> j = i)
  <2>1. PICK x \in Nat : x = j + n - i
    BY <1>3, <1>4, <1>5
  <2>2. x < n + n /\ x > 0 /\ (x = n <=> j = i) /\ j \in Nat
    BY <1>3, <1>4, <1>5, <2>1
  <2>3. x % n = IF x < n THEN x ELSE x - n
    BY <1>1, <2>2, Modulo
  <2> QED
    BY <1>1, <2>1, <2>2, <2>3
<1> HIDE DEF Distance
<1>6. Found(s, t) = CHOOSE j \in free : \A j1 \in free : Distance(j) <= Distance(j1)
  <2>1. ~(s.alloc[t].free <= 0 \/ free = {})
    <3>1. s.alloc[t].free \in Int
      BY DEF KernelState, AllocRow
    <3> QED
      BY <1>4, <3>1
  <2>2. i = s.alloc[t].next
    OBVIOUS
  <2> QED
    BY <1>1, <1>2, <2>1, <2>2 DEF Found, FreeIn, Distance
<1>7. \A j1 \in free : Distance(i) <= Distance(j1)
  BY <1>4, <1>5
<1>8. PICK f : f = CHOOSE j \in free : \A j1 \in free : Distance(j) <= Distance(j1)
  OBVIOUS
<1>9. f \in free /\ Distance(f) <= Distance(i)
  BY <1>4, <1>7, <1>8
<1>10. f = i
  BY <1>4, <1>5, <1>9
<1> QED
  BY <1>6, <1>8, <1>10

\* Only the first step of dv_create_executable() goes on in the table of executables.
KeepsNext(s, u) ==
  "alloc" \in DOMAIN s /\ "exe" \in DOMAIN s.alloc =>
    /\ "alloc" \in DOMAIN u /\ "exe" \in DOMAIN u.alloc
    /\ u.alloc["exe"] = s.alloc["exe"]

LEMMA CountedKeeps ==
  ASSUME NEW s, NEW t, t # "exe", NEW i
  PROVE  KeepsNext(s, Counted(s, t, i))
BY DEF KeepsNext, Counted

LEMMA PanicKeeps ==
  ASSUME NEW s, NEW why
  PROVE  KeepsNext(s, Panicked(s, why))
BY DEF KeepsNext, Panicked

LEMMA ThreadKeeps ==
  ASSUME NEW s, NEW e
  PROVE  KeepsNext(s, AllocateThread(s, e))
<1>1. PICK with : with = Sharing(s, e, "thr")
  OBVIOUS
<1>2. PICK t : t = IF with # {} THEN s.exe[Min(with)].thr ELSE Found(s, "thr")
  OBVIOUS
<1>3. PICK u : u = AllocateThread(s, e)
  OBVIOUS
<1>4. CASE t = Nil
  BY <1>1, <1>2, <1>3, <1>4, PanicKeeps DEF AllocateThread
<1>5. CASE t # Nil /\ with # {}
  <2>1. u = [[s EXCEPT !.exe[e].thr = t] EXCEPT !.thr[t].n = @ + 1]
    BY <1>1, <1>2, <1>3, <1>5 DEF AllocateThread
  <2> QED
    BY <1>3, <2>1 DEF KeepsNext
<1>6. CASE t # Nil /\ with = {}
  <2>1. PICK v : v = [[s EXCEPT !.exe[e].thr = t] EXCEPT !.thr[t].n = 1, !.thr[t].jobs = Nil]
    OBVIOUS
  <2>2. u = Counted(v, "thr", t)
    BY <1>1, <1>2, <1>3, <1>6, <2>1 DEF AllocateThread
  <2>3. KeepsNext(s, v)
    BY <2>1 DEF KeepsNext
  <2>4. KeepsNext(v, u)
    BY <2>2, CountedKeeps
  <2> QED
    BY <1>3, <2>3, <2>4 DEF KeepsNext
<1> QED
  BY <1>4, <1>5, <1>6

LEMMA SharedKeeps ==
  ASSUME NEW s, NEW e, NEW t \in {"reg", "page"}, NEW i
  PROVE  KeepsNext(s, AllocateShared(s, e, t, i))
<1>1. PICK with : with = SharingNonBlocking(s, e, t)
  OBVIOUS
<1>2. PICK j : j = IF with # {} THEN s.exe[Min(with)][t] ELSE i
  OBVIOUS
<1>3. PICK got : got = [s EXCEPT !.exe[e][t] = j]
  OBVIOUS
<1>4. PICK u : u = AllocateShared(s, e, t, i)
  OBVIOUS
<1>5. KeepsNext(s, got)
  BY <1>3 DEF KeepsNext
<1>6. CASE with # {}
  <2>1. u = [got EXCEPT ![t][j] = @ + 1]
    BY <1>1, <1>2, <1>3, <1>4, <1>6 DEF AllocateShared
  <2>2. KeepsNext(got, u)
    BY <2>1 DEF KeepsNext
  <2> QED
    BY <1>4, <1>5, <2>2 DEF KeepsNext
<1>7. CASE with = {}
  <2>1. PICK v : v = [got EXCEPT ![t][i] = 1]
    OBVIOUS
  <2>2. u = Counted(v, t, i)
    BY <1>1, <1>2, <1>3, <1>4, <1>7, <2>1 DEF AllocateShared
  <2>3. KeepsNext(got, v) /\ KeepsNext(v, u)
    BY <2>1, <2>2, CountedKeeps DEF KeepsNext
  <2> QED
    BY <1>4, <1>5, <2>3 DEF KeepsNext
<1> QED
  BY <1>6, <1>7

LEMMA PartsKeep ==
  ASSUME NEW s, NEW e
  PROVE  /\ KeepsNext(s, AllocateRegisters(s, e)) /\ KeepsNext(s, AllocateStack(s, e))
         /\ KeepsNext(s, AllocateEvents(s, e)) /\ KeepsNext(s, AllocateElement(s, e))
<1>1. KeepsNext(s, AllocateRegisters(s, e))
  BY PanicKeeps, SharedKeeps DEF AllocateRegisters
<1>2. KeepsNext(s, AllocateStack(s, e))
  BY PanicKeeps, SharedKeeps DEF AllocateStack
<1>3. KeepsNext(s, s)
  BY DEF KeepsNext
<1>4. KeepsNext(s, AllocateEvents(s, e))
  <2>1. PICK i : i = Found(s, "evs")
    OBVIOUS
  <2>2. PICK v : v = [s EXCEPT !.exe[e].flags = @ \union {"blocking"}, !.exe[e].evs = i,
                               !.evs[i] = TRUE]
    OBVIOUS
  <2>3. AllocateEvents(s, e) = IF "events" \notin s.exe[e].flags THEN s
                               ELSE IF i = Nil THEN Panicked(s, "no eventstatus available")
                               ELSE Counted(v, "evs", i)
    BY <2>1, <2>2 DEF AllocateEvents
  <2>4. KeepsNext(s, v) /\ KeepsNext(v, Counted(v, "evs", i))
    <3>1. KeepsNext(s, v)
      BY <2>2 DEF KeepsNext
    <3> QED
      BY <3>1, CountedKeeps
  <2>5. KeepsNext(s, Counted(v, "evs", i))
    BY <2>4 DEF KeepsNext
  <2> QED
    BY <1>3, <2>3, <2>5, PanicKeeps
<1>5. KeepsNext(s, AllocateElement(s, e))
  <2>1. PICK i : i = Found(s, "dll")
    OBVIOUS
  <2>2. PICK v : v = [s EXCEPT !.exe[e].dll = i, !.dll[i] = TRUE]
    OBVIOUS
  <2>3. AllocateElement(s, e) = IF "blocking" \notin s.exe[e].flags THEN s
                                ELSE IF i = Nil THEN Panicked(s, "no dll_element available")
                                ELSE Counted(v, "dll", i)
    BY <2>1, <2>2 DEF AllocateElement
  <2>4. KeepsNext(s, v) /\ KeepsNext(v, Counted(v, "dll", i))
    <3>1. KeepsNext(s, v)
      BY <2>2 DEF KeepsNext
    <3> QED
      BY <3>1, CountedKeeps
  <2>5. KeepsNext(s, Counted(v, "dll", i))
    BY <2>4 DEF KeepsNext
  <2> QED
    BY <1>3, <2>3, <2>5, PanicKeeps
<1> QED
  BY <1>1, <1>2, <1>4, <1>5

LEMMA NextIs ==
  ASSUME NEW s \in KernelState, NEW c, Found(s, "exe") \in Entries("exe")
  PROVE  CreateExecutable(s, c).alloc["exe"].next = (Found(s, "exe") + 1) % Size["exe"]
<1>0. PICK e \in Entries("exe") : e = Found(s, "exe")
  OBVIOUS
<1>1. PICK v : v = [s EXCEPT !.exe[e] = [FreeExe EXCEPT !.state = "disabled", !.prio = c.prio,
                                                        !.flags = c.flags]]
  OBVIOUS
<1>2. PICK s0 : s0 = Entered(s, e, c) /\ s0 = Counted(v, "exe", e)
  BY <1>1 DEF Entered
<1>3. /\ "alloc" \in DOMAIN s0 /\ "exe" \in DOMAIN s0.alloc
      /\ s0.alloc["exe"].next = (e + 1) % Size["exe"]
  <2>1. "alloc" \in DOMAIN v /\ v.alloc = s.alloc /\ DOMAIN s.alloc = Tables
    BY <1>1 DEF KernelState
  <2>2. PICK n : n = (e + 1) % Size["exe"]
    OBVIOUS
  <2>3. PICK row : row = [free |-> s.alloc["exe"].free - 1, next |-> n]
    OBVIOUS
  <2>4. s0 = [v EXCEPT !.alloc["exe"] = row]
    BY <1>2, <2>1, <2>2, <2>3 DEF Counted
  <2>5. s0.alloc = [s.alloc EXCEPT !["exe"] = row] /\ "alloc" \in DOMAIN s0
    BY <2>1, <2>4
  <2>6. s0.alloc["exe"] = row /\ "exe" \in DOMAIN s0.alloc
    BY <2>1, <2>5 DEF Tables
  <2> QED
    BY <2>2, <2>3, <2>5, <2>6
<1>4. PICK s1 : s1 = Then(AllocateThread(s0, e), AllocateRegisters, e)
  OBVIOUS
<1>5. PICK s2 : s2 = Then(Then(s1, AllocateEvents, e), AllocateElement, e)
  OBVIOUS
<1>6. PICK s3 : s3 = Then(s2, AllocateStack, e)
  OBVIOUS
<1>7. PICK u : u = CreateExecutable(s, c)
  OBVIOUS
<1>8. e # Nil
  BY NilIsNone DEF Tables
<1>9. u = IF s3.panic # "none" THEN s3 ELSE [s3 EXCEPT !.exe[e].state = "idle"]
  BY <1>0, <1>2, <1>4, <1>5, <1>6, <1>7, <1>8 DEF CreateExecutable, Entered
<1>10. KeepsNext(s0, s1)
  <2>1. PICK a : a = AllocateThread(s0, e)
    OBVIOUS
  <2>2. s1 = a \/ s1 = AllocateRegisters(a, e)
    BY <1>4, <2>1 DEF Then
  <2>3. KeepsNext(s0, a) /\ KeepsNext(a, AllocateRegisters(a, e))
    BY <2>1, ThreadKeeps, PartsKeep
  <2> QED
    BY <2>2, <2>3 DEF KeepsNext
<1>11. KeepsNext(s1, s2)
  <2>1. PICK b : b = Then(s1, AllocateEvents, e)
    OBVIOUS
  <2>2. b = s1 \/ b = AllocateEvents(s1, e)
    BY <2>1 DEF Then
  <2>3. s2 = b \/ s2 = AllocateElement(b, e)
    BY <1>5, <2>1 DEF Then
  <2>4. KeepsNext(s1, AllocateEvents(s1, e)) /\ KeepsNext(b, AllocateElement(b, e))
    BY PartsKeep
  <2> QED
    BY <2>2, <2>3, <2>4 DEF KeepsNext
<1>12. KeepsNext(s2, s3)
  <2>1. s3 = s2 \/ s3 = AllocateStack(s2, e)
    BY <1>6 DEF Then
  <2>2. KeepsNext(s2, AllocateStack(s2, e))
    BY PartsKeep
  <2> QED
    BY <2>1, <2>2 DEF KeepsNext
<1>13. KeepsNext(s3, u)
  BY <1>9 DEF KeepsNext
<1>14. u.alloc["exe"] = s0.alloc["exe"]
  BY <1>3, <1>10, <1>11, <1>12, <1>13 DEF KeepsNext
<1> QED
  BY <1>0, <1>3, <1>7, <1>14

\* An executable that is spawned for an idle thread runs there.
Runs(s, u, e) ==
  /\ u.panic = "none" /\ Alike(s, u) /\ Active(u, e) /\ u.thr[s.exe[e].thr].exe = e
  /\ \A j \in Entries("exe") \ {e} : u.exe[j] = s.exe[j]
  /\ \A x \in Entries("thr") \ {s.exe[e].thr} : u.thr[x] = s.thr[x]

LEMMA SpawnedRuns ==
  ASSUME NEW s, NEW e \in Entries("exe"), SoundBut(s, {}), s.panic = "none",
         s.exe[e].state = "idle", s.thr[s.exe[e].thr].exe = Nil
  PROVE  Runs(s, SpawnExecutable(s, e), e)
<1>1. PICK v : v = WithState(s, e, "active")
  OBVIOUS
<1>2. PICK t : t = s.exe[e].thr
  OBVIOUS
<1>3. s \in KernelState /\ Alive(s, e) /\ Orderly(s, {})
  BY DEF SoundBut, Alive
<1>4. Turned(s, v, e, "active")
  BY <1>1, <1>3, StateTurned
<1>5. /\ v.panic = "none" /\ t \in Entries("thr") /\ v.exe[e].thr = t
  <2>1. t # Nil
    BY <1>2, <1>3 DEF Orderly, Completed, Needed
  <2>2. t \in Entries("thr")
    BY <1>2, <1>3, <2>1, RefsOf DEF Ref
  <2> QED
    BY <1>2, <1>4, <2>2, AlikeUsers DEF Turned
<1>6. /\ Alike(s, v) /\ v \in KernelState /\ v.thr = s.thr /\ v.queue = s.queue
      /\ v.exe[e].state = "active" /\ \A j \in Entries("exe") \ {e} : v.exe[j] = s.exe[j]
  BY <1>4 DEF Turned, Alike
<1>7. PICK u : u = SpawnInThread(v, e)
  OBVIOUS
<1>8. SpawnExecutable(s, e) = u
  <2>1. SpawnExecutable(s, e) = IF v.thr[v.exe[e].thr].exe = Nil THEN SpawnInThread(v, e)
                                ELSE EnqueueJob(v, e)
    BY <1>1 DEF SpawnExecutable, WithState
  <2> QED
    BY <1>2, <1>5, <1>6, <1>7, <2>1
<1>9. Distinct(v.queue) /\ ~In(v.queue, t)
  BY <1>2, <1>3, <1>5, <1>6 DEF Orderly, ThreadOk
<1>10. Seats(v, u, t, e)
  BY <1>5, <1>6, <1>7, <1>9, SeatsIs
<1>11. /\ Alike(v, u) /\ u.exe = v.exe /\ u.panic = v.panic /\ u.thr[t].exe = e
       /\ \A x \in Entries("thr") \ {t} : u.thr[x] = v.thr[x]
  BY <1>10 DEF Seats
<1>12. Alike(s, u)
  BY <1>6, <1>11 DEF Alike
<1>13. Runs(s, u, e)
  BY <1>2, <1>5, <1>6, <1>11, <1>12 DEF Runs, Active
<1> QED
  BY <1>8, <1>13

\* The inductive invariant: the parts of all executables are accounted for, whoever can
\* block has its own, and until dv_panic() every thread, its queue and its jobs are in
\* order and the idle loop is active.
CreateInvariant(s) == SoundBut(s, {}) /\ (s.panic = "none" => IdleRuns(s))

\* The idle loop finds all it needs.
StartedOne(s) ==
  /\ CreateInvariant(s) /\ s.panic = "none"
  /\ \A j \in Entries("exe") : Alive(s, j) <=> j = 0
  /\ s.exe[0].prio = 0
  /\ \A x \in Entries("thr") : x # s.exe[0].thr => s.thr[x].exe = Nil
  /\ s.alloc["exe"].next = 1
  /\ \A t \in {"exe", "thr", "reg", "page"} : s.alloc[t].free >= 1

LEMMA FirstCreated ==
  StartedOne(SpawnExecutable(CreateExecutable(Empty, [prio |-> 0, flags |-> {}]), 0))
<1>1. PICK c : c = [prio |-> 0, flags |-> {}]
  OBVIOUS
<1>2. PICK s : s = Empty
  OBVIOUS
<1>3. /\ SoundBut(s, {}) /\ s \in KernelState /\ AccountedIn(s) /\ Mates(s) /\ Completed(s)
  BY <1>2, EmptySound DEF SoundBut, Orderly, Empty
<1>4. /\ s.panic = "none" /\ \A j \in Entries("exe") : ~Alive(s, j)
      /\ \A t \in Tables : s.alloc[t].free = Size[t] /\ s.alloc[t].next = 0
      /\ \A x \in Entries("thr") : s.thr[x].exe = Nil
  BY <1>2 DEF Empty, FreeExe, Alive
<1>5. \A t \in Tables : Size[t] \in Nat /\ Size[t] >= 1
  BY CreateAssumption
<1>6. \A t \in {"exe", "thr", "reg", "page"} : Size[t] >= 2 /\ t \in Tables
  BY CreateAssumption DEF Tables
<1>7. c.prio = 0 /\ c.prio \in Nat /\ c.flags = {} /\ c.flags \in SUBSET Flags
  BY <1>1
<1>8. Allowed(s, c)
  <2>1. OfPrio(s, c.prio) = {}
    BY <1>4 DEF OfPrio
  <2>2. Cardinality(OfPrio(s, c.prio)) = 0 /\ MinRb \in Nat
    BY <2>1, FS_EmptySet, CreateAssumption
  <2> QED
    BY <1>7, <2>2 DEF Allowed
<1>9. Found(s, "exe") = 0 /\ 0 \in Entries("exe")
  <2>1. 0 \in Entries("exe")
    BY <1>5 DEF Entries, Tables
  <2>2. FreeIn(s, "exe") = {i \in Entries("exe") : ~Alive(s, i)}
    BY <1>3, FreeInIs
  <2>3. 0 \in FreeIn(s, "exe") /\ s.alloc["exe"].next = 0 /\ s.alloc["exe"].free > 0
    BY <1>4, <1>5, <2>1, <2>2 DEF Tables
  <2>4. "exe" \in Tables
    BY DEF Tables
  <2> QED
    BY <1>3, <2>1, <2>3, <2>4, FoundNext
<1>10. PICK v : v = CreateExecutable(s, c)
  OBVIOUS
<1>11. Created(s, v, 0, c)
  BY <1>3, <1>4, <1>7, <1>9, <1>10, CreatedIs
<1>12. v.panic = "none"
  <2>1. ~Lacks(s, c, Columns \union {"exe"})
    <3> SUFFICES ASSUME NEW t \in Columns \union {"exe"}, s.alloc[t].free <= 0
                 PROVE  FALSE
      BY DEF Lacks
    <3>1. t \in Tables
      BY DEF Columns, Tables
    <3> QED
      BY <1>4, <1>5, <3>1
  <2> QED
    BY <1>11, <2>1 DEF Created
<1>13. /\ v \in KernelState /\ v.exe = [s.exe EXCEPT ![0] = v.exe[0]]
       /\ v.exe[0].state = "idle" /\ v.exe[0].prio = 0 /\ v.exe[0].thr # Nil
       /\ \A x \in Entries("thr") : v.thr[x].exe = Nil
       /\ \A t \in Tables : v.alloc[t].free >= s.alloc[t].free - 1
  BY <1>4, <1>7, <1>11, <1>12 DEF Created, Needed
<1>14. SoundBut(v, {})
  BY <1>3, <1>4, <1>8, <1>10, CreatedSound
<1>15. v.exe[0].thr \in Entries("thr")
  BY <1>9, <1>13, RefsOf DEF Ref
<1>16. PICK u : u = SpawnExecutable(v, 0)
  OBVIOUS
<1>17. Runs(v, u, 0) /\ SoundBut(u, {})
  BY <1>9, <1>12, <1>13, <1>14, <1>15, <1>16, SpawnedRuns, SpawnedSound
<1>18. /\ u.panic = "none" /\ Alike(v, u) /\ Active(u, 0) /\ u.thr[v.exe[0].thr].exe = 0
       /\ \A x \in Entries("thr") \ {v.exe[0].thr} : u.thr[x] = v.thr[x]
       /\ u.alloc = v.alloc
  BY <1>17 DEF Runs, Alike
<1>19. u.exe[0].thr = v.exe[0].thr /\ u.exe[0].prio = 0
  BY <1>9, <1>13, <1>18, AlikeUsers DEF Alike
<1>20. IdleRuns(u)
  BY <1>9, <1>13, <1>18, <1>19 DEF IdleRuns
<1>21. \A j \in Entries("exe") : Alive(u, j) <=> j = 0
  <2>1. \A j \in Entries("exe") : Alive(u, j) <=> Alive(v, j)
    BY <1>18 DEF Alike
  <2>2. \A j \in Entries("exe") : Alive(v, j) <=> j = 0
    <3>1. PICK row : row = v.exe[0] /\ row.state = "idle"
      BY <1>13
    <3>2. \A j \in Entries("exe") : v.exe[j] = IF j = 0 THEN row ELSE s.exe[j]
      BY <1>3, <1>13, <3>1 DEF KernelState
    <3> QED
      BY <1>4, <3>1, <3>2 DEF Alive
  <2> QED
    BY <2>1, <2>2
<1>22. u.alloc["exe"].next = 1
  <2>1. v.alloc["exe"].next = (0 + 1) % Size["exe"]
    BY <1>3, <1>9, <1>10, NextIs
  <2>2. PICK n \in Nat : n = Size["exe"] /\ n >= 2
    BY <1>5, <1>6
  <2>3. 1 % n = 1
    BY <2>2, Modulo
  <2> QED
    BY <1>18, <2>1, <2>2, <2>3
<1>23. \A t \in {"exe", "thr", "reg", "page"} : u.alloc[t].free >= 1
  <2> SUFFICES ASSUME NEW t \in {"exe", "thr", "reg", "page"} PROVE u.alloc[t].free >= 1
    OBVIOUS
  <2>1. PICK n \in Nat : n = Size[t] /\ n >= 2 /\ t \in Tables
    BY <1>5, <1>6
  <2>2. v.alloc[t].free >= n - 1 /\ v.alloc[t].free \in Int
    BY <1>4, <1>13, <2>1 DEF KernelState, AllocRow
  <2> QED
    BY <1>18, <2>1, <2>2
<1>24. \A x \in Entries("thr") : x # u.exe[0].thr => u.thr[x].exe = Nil
  BY <1>13, <1>18, <1>19
<1>25. StartedOne(u)
  BY <1>17, <1>18, <1>19, <1>20, <1>21, <1>22, <1>23, <1>24 DEF StartedOne, CreateInvariant
<1> QED
  BY <1>1, <1>2, <1>10, <1>16, <1>25

LEMMA CreateInitSound ==
  CreateInit => CreateInvariant(k) /\ k.panic = "none"
<1> SUFFICES ASSUME CreateInit PROVE CreateInvariant(k) /\ k.panic = "none"
  OBVIOUS
<1>1. PICK s : s = SpawnExecutable(CreateExecutable(Empty, [prio |-> 0, flags |-> {}]), 0)
  OBVIOUS
<1>2. PICK c : c = [prio |-> MaxPriority, flags |-> {"autodestroy"}]
  OBVIOUS
<1>3. PICK v : v = CreateExecutable(s, c)
  OBVIOUS
<1>4. k = SpawnExecutable(v, 1)
  BY <1>1, <1>2, <1>3 DEF CreateInit
<1>5. StartedOne(s)
  BY <1>1, FirstCreated
<1>6. /\ SoundBut(s, {}) /\ IdleRuns(s) /\ s.panic = "none"
      /\ \A j \in Entries("exe") : Alive(s, j) <=> j = 0
      /\ s.exe[0].prio = 0
      /\ \A x \in Entries("thr") : x # s.exe[0].thr => s.thr[x].exe = Nil
      /\ s.alloc["exe"].next = 1
      /\ \A t \in {"exe", "thr", "reg", "page"} : s.alloc[t].free >= 1
  BY <1>5 DEF StartedOne, CreateInvariant
<1>7. /\ s \in KernelState /\ AccountedIn(s) /\ Mates(s) /\ Completed(s)
      /\ 0 \in Entries("exe") /\ s.exe[0].thr # Nil
  BY <1>6 DEF SoundBut, Orderly, IdleRuns
<1>8. /\ c.prio = MaxPriority /\ c.prio \in Nat /\ c.prio # 0
      /\ c.flags = {"autodestroy"} /\ c.flags \in SUBSET Flags
  BY <1>2, CreateAssumption DEF Flags
<1>9. Allowed(s, c)
  <2>1. OfPrio(s, c.prio) = {}
    BY <1>6, <1>8 DEF OfPrio
  <2>2. Cardinality(OfPrio(s, c.prio)) = 0 /\ MinRb \in Nat
    BY <2>1, FS_EmptySet, CreateAssumption
  <2> QED
    BY <1>8, <2>2 DEF Allowed
<1>10. Found(s, "exe") = 1 /\ 1 \in Entries("exe")
  <2>1. 1 \in Entries("exe")
    <3>1. PICK n \in Nat : n = Size["exe"] /\ n >= 2
      BY CreateAssumption DEF Tables
    <3> QED
      BY <3>1 DEF Entries
  <2>2. FreeIn(s, "exe") = {i \in Entries("exe") : ~Alive(s, i)}
    BY <1>7, FreeInIs
  <2>3. 1 \in FreeIn(s, "exe")
    BY <1>6, <2>1, <2>2
  <2>4. s.alloc["exe"].free > 0 /\ "exe" \in Tables
    <3>1. "exe" \in Tables /\ s.alloc["exe"].free \in Int
      BY <1>7 DEF KernelState, AllocRow, Tables
    <3>2. s.alloc["exe"].free >= 1
      BY <1>6
    <3> QED
      BY <3>1, <3>2
  <2> QED
    BY <1>6, <1>7, <2>1, <2>3, <2>4, FoundNext
<1>11. Created(s, v, 1, c)
  BY <1>3, <1>6, <1>7, <1>8, <1>10, CreatedIs
<1>12. v.panic = "none"
  <2>1. ~Lacks(s, c, Columns \union {"exe"})
    <3> SUFFICES ASSUME NEW t \in Columns \union {"exe"}, s.alloc[t].free <= 0, Asks(c, t)
                 PROVE  FALSE
      BY DEF Lacks
    <3>1. t \in {"exe", "thr", "reg", "page"}
      BY <1>8 DEF Columns, Asks
    <3>2. s.alloc[t].free \in Int /\ s.alloc[t].free >= 1
      BY <1>6, <1>7, <3>1 DEF KernelState, AllocRow, Tables
    <3> QED
      BY <3>2
  <2> QED
    BY <1>11, <2>1 DEF Created
<1>13. /\ v \in KernelState /\ Mates(v) /\ v.exe = [s.exe EXCEPT ![1] = v.exe[1]]
       /\ v.exe[1].state = "idle" /\ v.exe[1].prio = c.prio /\ v.exe[1].thr # Nil
       /\ \A x \in Entries("thr") : v.thr[x].exe = s.thr[x].exe
  BY <1>11, <1>12 DEF Created, Needed
<1>14. SoundBut(v, {}) /\ IdleRuns(v)
  BY <1>3, <1>6, <1>9, <1>12, CreatedSound
<1>15. v.exe[1].thr \in Entries("thr")
  BY <1>10, <1>13, RefsOf DEF Ref
<1>16. v.exe[1].thr # s.exe[0].thr
  <2>1. v.exe[0] = s.exe[0]
    <3>1. PICK row : row = v.exe[1]
      OBVIOUS
    <3> QED
      BY <1>7, <1>13, <3>1 DEF KernelState
  <2>2. Alive(v, 0) /\ Alive(v, 1)
    BY <1>6, <1>7, <1>13, <2>1 DEF Alive
  <2> QED
    BY <1>6, <1>7, <1>8, <1>10, <1>13, <2>1, <2>2 DEF Mates
<1>17. v.thr[v.exe[1].thr].exe = Nil
  BY <1>6, <1>13, <1>15, <1>16
<1>18. Runs(v, k, 1) /\ SoundBut(k, {})
  BY <1>4, <1>10, <1>12, <1>13, <1>14, <1>17, SpawnedRuns, SpawnedSound
<1>19. k.panic = "none"
  BY <1>18 DEF Runs
<1>20. IdleRuns(k)
  BY <1>4, <1>10, <1>12, <1>13, <1>14, <1>19, SpawnedSound
<1> QED
  BY <1>18, <1>19, <1>20 DEF CreateInvariant

-----------------------------------------------------------------------------
(* The theorems                                                            *)

\* An invariant state in which a call is made: a thread runs, and what it runs exists.
LEMMA RunningIs ==
  ASSUME NEW s, CreateInvariant(s), s.panic = "none"
  PROVE  /\ Head(s.queue) \in Entries("thr")
         /\ s.thr[Head(s.queue)].exe \in Entries("exe")
<1>1. s \in KernelState /\ Orderly(s, {}) /\ IdleRuns(s)
  BY DEF CreateInvariant, SoundBut
<1>2. PICK q \in Seq(Entries("thr")) : q = s.queue
  BY <1>1, RefsOf
<1>3. PICK t \in Entries("thr") : t = s.exe[0].thr
  BY <1>1, RefsOf DEF IdleRuns, Ref
<1>4. In(q, t)
  <2>1. s.thr[t].exe = 0 /\ 0 # Nil
    BY <1>1, <1>3 DEF IdleRuns, Nil
  <2> QED
    BY <1>1, <1>2, <2>1 DEF Orderly, ThreadOk
<1>5. q # <<>> /\ Distinct(q)
  BY <1>1, <1>2, <1>4 DEF In, Orderly
<1>6. Head(q) \in Entries("thr") /\ In(q, Head(q))
  BY <1>5, TailList
<1>7. s.thr[Head(q)].exe # Nil
  BY <1>1, <1>2, <1>6 DEF Orderly, ThreadOk
<1> QED
  BY <1>1, <1>2, <1>6, <1>7, RefsOf DEF Ref

\* dv_sys_create_exe()
LEMMA CreateExeSound ==
  CreateInvariant(k) /\ CreateExe => CreateInvariant(k')
<1> SUFFICES ASSUME CreateInvariant(k), CreateExe PROVE CreateInvariant(k')
  OBVIOUS
<1>1. SoundBut(k, {}) /\ IdleRuns(k) /\ k.panic = "none"
  BY DEF CreateInvariant, CreateExe, Calls
<1>2. PICK c \in Configs :
        /\ "events" \in c.flags => "blocking" \in c.flags \/ EventsOnly \in Liberties
        /\ Fits(c.prio) \/ JoinsLate \in Liberties
        /\ k' = CreateExecutable(k, c)
  BY DEF CreateExe
<1>3. c.prio \in Nat /\ c.flags \in SUBSET Flags
  <2>1. c.prio \in 1 .. (MaxPriority - 1) /\ c.flags \subseteq Flags
    BY CreateAssumption
  <2>2. MaxPriority - 1 \in Int
    BY CreateAssumption
  <2> QED
    BY <2>1, <2>2
<1>4. ASSUME Fits(c.prio) PROVE Cardinality(OfPrio(k, c.prio)) <= MinRb
  <2>1. OfPrio(k, c.prio)
          = {e \in Entries("exe") : k.exe[e].state # "free" /\ k.exe[e].prio = c.prio}
    BY DEF OfPrio, Alive
  <2>2. PICK n \in Nat : n = Cardinality(OfPrio(k, c.prio))
    <3>1. IsFiniteSet(Entries("exe")) /\ OfPrio(k, c.prio) \subseteq Entries("exe")
      BY TablesFinite DEF Tables, OfPrio
    <3> QED
      BY <3>1, FS_Subset, FS_CardinalityType
  <2>3. n + 1 <= MinRb + 1 /\ MinRb \in Nat
    BY <1>4, <2>1, <2>2, CreateAssumption DEF Fits, Users
  <2> QED
    BY <2>2, <2>3
<1>5. Allowed(k, c)
  BY <1>2, <1>3, <1>4 DEF Allowed
<1>6. /\ SoundBut(CreateExecutable(k, c), {})
      /\ (CreateExecutable(k, c).panic = "none" /\ IdleRuns(k))
           => IdleRuns(CreateExecutable(k, c))
  BY <1>1, <1>5, CreatedSound
<1>7. PICK u : u = CreateExecutable(k, c)
  OBVIOUS
<1>8. CreateInvariant(u)
  BY <1>1, <1>6, <1>7 DEF CreateInvariant
<1> QED
  BY <1>2, <1>7, <1>8

\* dv_sys_spawn()
LEMMA SpawnSound ==
  CreateInvariant(k) /\ Spawn => CreateInvariant(k')
<1> SUFFICES ASSUME CreateInvariant(k), Spawn PROVE CreateInvariant(k')
  OBVIOUS
<1>1. SoundBut(k, {}) /\ IdleRuns(k) /\ k.panic = "none"
  BY DEF CreateInvariant, Spawn, Calls
<1>2. PICK e \in Entries("exe") : k.exe[e].state = "idle" /\ k' = SpawnExecutable(k, e)
  BY DEF Spawn
<1>3. PICK u : u = SpawnExecutable(k, e)
  OBVIOUS
<1>4. SoundBut(u, {}) /\ ((u.panic = "none" /\ IdleRuns(k)) => IdleRuns(u))
  BY <1>1, <1>2, <1>3, SpawnedSound
<1>5. CreateInvariant(u)
  BY <1>1, <1>4 DEF CreateInvariant
<1> QED
  BY <1>2, <1>3, <1>5

\* dv_sys_exit()
LEMMA ExitSound ==
  CreateInvariant(k) /\ Exit => CreateInvariant(k')
<1> SUFFICES ASSUME CreateInvariant(k), Exit PROVE CreateInvariant(k')
  OBVIOUS
<1>1. SoundBut(k, {}) /\ IdleRuns(k) /\ k.panic = "none" /\ Running(k) # 0
  BY DEF CreateInvariant, Exit, Calls
<1>2. PICK t \in Entries("thr") : t = Head(k.queue)
  BY <1>1, RunningIs
<1>3. PICK e \in Entries("exe") : e = k.thr[t].exe /\ e = Running(k)
  BY <1>1, <1>2, RunningIs DEF Running
<1>4. PICK s : s = Terminate(k, t)
  OBVIOUS
<1>5. Terminated(k, s, t, e)
  BY <1>1, <1>3, <1>4, TerminatedIs
<1>6. SoundBut(s, {}) /\ s.panic = "none" /\ s.exe[e].state = "idle" /\ IdleRuns(s)
  BY <1>1, <1>3, <1>5 DEF Terminated
<1>7. k' = s \/ k' = DestroyExecutable(s, e)
  BY <1>2, <1>3, <1>4 DEF Exit
<1>8. CreateInvariant(s)
  BY <1>6 DEF CreateInvariant
<1>9. PICK u : u = DestroyExecutable(s, e)
  OBVIOUS
<1>10. SoundBut(u, {}) /\ IdleRuns(u)
  BY <1>6, <1>9, DestroyedSound
<1>11. CreateInvariant(u)
  BY <1>10 DEF CreateInvariant
<1> QED
  BY <1>7, <1>8, <1>9, <1>11

LEMMA CreateNextSound ==
  CreateInvariant(k) /\ [CreateNext]_createVars => CreateInvariant(k')
<1>1. CreateInvariant(k) /\ UNCHANGED createVars => CreateInvariant(k')
  BY DEF createVars
<1> QED
  BY <1>1, CreateExeSound, SpawnSound, ExitSound DEF CreateNext

CreateSound == CreateInvariant(k)

\* The invariant of everything that the application creates, spawns and destroys holds
\* for tables of any size, with any configurations and whatever rules are not kept.
\* (dv_create_executable(), dv_spawn_executable(), dv_sys_exit())
THEOREM CreateInvariantHolds == CreateSpec => []CreateSound
<1>1. CreateInit => CreateSound
  BY CreateInitSound DEF CreateSound
<1>2. CreateSound /\ [CreateNext]_createVars => CreateSound'
  BY CreateNextSound DEF CreateSound
<1> QED
  BY <1>1, <1>2, PTL DEF CreateSpec

\* Every table is accounted for, whatever has been created and destroyed and whichever
\* table has run out: the allocators count the free entries, an entry that is shared
\* counts its users.  (dv_allocate_obj(), the dv_allocate_...(), dv_deallocate_...())
THEOREM AccountedAlways == CreateSpec => []Accounted
<1>1. CreateSound => Accounted
  BY AccountedIsIn DEF CreateSound, CreateInvariant, SoundBut
<1> QED
  BY <1>1, CreateInvariantHolds, PTL

\* Whoever can block has registers and a stack of its own, if nobody is created with
\* events and without the flag for blocking.
\* (dv_allocate_registers(), dv_allocate_stack(), dv_create_executable())
THEOREM BlockingApartAlways ==
  ASSUME EventsOnly \notin Liberties
  PROVE  CreateSpec => []BlockingIsApart
<1>1. CreateSound => BlockingIsApart
  BY ApartIsIn DEF CreateSound, CreateInvariant, SoundBut
<1> QED
  BY <1>1, CreateInvariantHolds, PTL

\* How often something is in a list of distinct things
LEMMA TimesIn ==
  ASSUME NEW q, Distinct(q), NEW x
  PROVE  Cardinality({i \in DOMAIN q : q[i] = x}) = IF In(q, x) THEN 1 ELSE 0
<1>1. PICK T : T = {i \in DOMAIN q : q[i] = x}
  OBVIOUS
<1>2. CASE In(q, x)
  <2>1. PICK i \in DOMAIN q : q[i] = x
    BY <1>2 DEF In
  <2>2. T = {i}
    BY <1>1, <2>1 DEF Distinct
  <2>3. Cardinality(T) = 1
    BY <2>2, FS_Singleton
  <2> QED
    BY <1>1, <1>2, <2>3
<1>3. CASE ~In(q, x)
  <2>1. T = {}
    BY <1>1, <1>3 DEF In
  <2>2. Cardinality(T) = 0
    BY <2>1, FS_EmptySet
  <2> QED
    BY <1>1, <1>3, <2>2
<1> QED
  BY <1>2, <1>3

LEMMA PlacedIsIn ==
  ASSUME CreateInvariant(k), k.panic = "none", JoinsLate \notin Liberties
  PROVE  ActiveIsPlaced
<1>1. k \in KernelState /\ Orderly(k, {}) /\ Roomy(k, {}) /\ Completed(k)
  BY DEF CreateInvariant, SoundBut, Orderly
<1>2. \A t : Jobs(t) = JobsIn(k, t)
  BY DEF Jobs, JobsIn
<1>3. ASSUME NEW e \in Live, NEW t, t = k.exe[e].thr, NEW place,
             place = Cardinality({i \in DOMAIN Jobs(t) : Jobs(t)[i] = e})
                       + (IF k.thr[t].exe = e THEN 1 ELSE 0)
      PROVE  place = (IF k.exe[e].state = "active" THEN 1 ELSE 0)
  <2>1. e \in Entries("exe") /\ Alive(k, e) /\ e # Nil
    BY NilIsNone DEF Live, Alive, Tables
  <2>2. t \in Entries("thr")
    BY <1>1, <1>3, <2>1, RefsOf DEF Completed, Needed, Ref
  <2>3. PICK q : q = JobsIn(k, t)
    OBVIOUS
  <2>4. ThreadOk(k, t) /\ Distinct(q)
    BY <1>1, <2>2, <2>3 DEF Orderly, ThreadOk
  <2>5. Cardinality({i \in DOMAIN q : q[i] = e}) = IF In(q, e) THEN 1 ELSE 0
    BY <2>4, TimesIn
  <2>6. place = (IF In(q, e) THEN 1 ELSE 0) + (IF k.thr[t].exe = e THEN 1 ELSE 0)
    BY <1>2, <1>3, <2>3, <2>5
  <2>7. /\ In(q, e) => Active(k, e) /\ k.thr[t].exe # e
        /\ k.thr[t].exe = e => Active(k, e)
    BY <2>1, <2>3, <2>4 DEF ThreadOk
  <2>8. Active(k, e) => k.thr[t].exe = e \/ In(q, e)
    BY <1>1, <1>3, <2>1, <2>3 DEF Roomy, Seated
  <2> QED
    BY <2>6, <2>7, <2>8 DEF Active
<1>4. ASSUME NEW t \in Entries("thr")
      PROVE  /\ t \in ToSet(k.queue) <=> k.thr[t].exe # Nil
             /\ k.thr[t].exe = Nil => Jobs(t) = <<>>
  <2>1. ToSet(k.queue) = {k.queue[i] : i \in DOMAIN k.queue}
    BY DEF ToSet
  <2>2. t \in ToSet(k.queue) <=> In(k.queue, t)
    BY <2>1 DEF In
  <2> QED
    BY <1>1, <1>2, <2>2 DEF Orderly, ThreadOk
<1> QED
  BY <1>3, <1>4 DEF ActiveIsPlaced

\* With both rules kept, whatever is created, spawned and destroyed in whatever order,
\* each executable has a place of its own to run and to wait in, until dv_panic() is
\* called.  (dv_create_executable(), dv_spawn_executable(), dv_sys_exit())
THEOREM PlacedAlways ==
  ASSUME Liberties = {}
  PROVE  CreateSpec => [](k.panic = "none" => Placed)
<1>1. CreateSound => (k.panic = "none" => Placed)
  <2> SUFFICES ASSUME CreateInvariant(k), k.panic = "none" PROVE Placed
    BY DEF CreateSound
  <2>1. JoinsLate \notin Liberties /\ EventsOnly \notin Liberties
    OBVIOUS
  <2>2. BlockingIsApart
    BY <2>1, ApartIsIn DEF CreateInvariant, SoundBut
  <2>3. ActiveIsPlaced
    BY <2>1, PlacedIsIn
  <2> QED
    BY <2>2, <2>3 DEF Placed
<1> QED
  BY <1>1, CreateInvariantHolds, PTL
=============================================================================
