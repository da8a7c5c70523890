--------------------------- MODULE DavroskaProofs ---------------------------
(***************************************************************************)
(* Theorems about Davroska and their proofs, in three parts.               *)
(*                                                                         *)
(* The first proves one inductive invariant, IndInv of DavroskaInv; Urgent *)
(* is added for the configurations without groups.  The second draws the   *)
(* safety properties of Davroska from it.  The third takes the queues      *)
(* entry by entry: that they are long enough, that the kernel finds in     *)
(* them what it expects, and that no activation is lost in them; and that  *)
(* the scheduler which works on them implements PriorityFifo.  As for      *)
(* strict priority, the application keeps all the rules there and          *)
(* configures no group.                                                    *)
(***************************************************************************)
EXTENDS DavroskaInv, DavroskaFifo, SequenceTheorems, FiniteSetTheorems, WellFoundedInduction,
        TLAPS

USE ExeAssumption, PrioAssumption, RunPrioAssumption, MaxActAssumption,
    MutexAssumption DEF Exe, Prio, Pcs, Panics

-----------------------------------------------------------------------------
(* The tables of the start-up                                              *)

LEMMA LevelType == \A p \in Prio : Level(p) \in Nat
<1> TAKE p \in Prio
<1> DEFINE Q == {q \in 1 .. p - 1 : \E i \in Isr : BasePrio[i] = q}
<1>1. IsFiniteSet(1 .. p - 1)
  BY FS_Interval
<1>2. Q \subseteq 1 .. p - 1
  OBVIOUS
<1>3. IsFiniteSet(Q)
  BY <1>1, <1>2, FS_Subset
<1>4. Cardinality(Q) \in Nat
  BY <1>3, FS_CardinalityType
<1> QED
  BY <1>4 DEF Level

LEMMA AppendFacts ==
  ASSUME NEW S, NEW s \in Seq(S), NEW x \in S, NEW t, t = Append(s, x)
  PROVE  /\ t \in Seq(S) /\ Len(s) \in Nat /\ Len(t) = Len(s) + 1 /\ t # <<>>
         /\ \A i \in 1 .. Len(s) : t[i] = s[i] /\ s[i] \in S
         /\ t[Len(s) + 1] = x
OBVIOUS

LEMMA SubSeqFacts ==
  ASSUME NEW S, NEW s \in Seq(S), NEW k \in Nat, k <= Len(s), NEW t, t = SubSeq(s, 1, k)
  PROVE  /\ t \in Seq(S) /\ Len(t) = k
         /\ \A i \in 1 .. k : t[i] = s[i]
<1>1. Len(s) \in Nat
  OBVIOUS
<1>2. \A i \in 1 .. k : s[i] \in S
  BY <1>1
<1>3. t \in Seq(S)
  BY <1>2, SubSeqProperties
<1>4. Len(t) = k
  <2>1. Len(t) = IF 1 <= k THEN k - 1 + 1 ELSE 0
    BY <1>2, SubSeqProperties
  <2> QED
    BY <2>1
<1>5. ASSUME NEW i \in 1 .. k PROVE t[i] = s[i]
  <2>1. \A j \in 1 .. k - 1 + 1 : t[j] = s[1 + j - 1]
    BY <1>2, SubSeqProperties
  <2>2. i \in 1 .. k - 1 + 1 /\ 1 + i - 1 = i
    OBVIOUS
  <2> QED
    BY <2>1, <2>2
<1> QED
  BY <1>3, <1>4, <1>5

LEMMA TopType ==
  ASSUME TypeOK, frames # <<>>
  PROVE  /\ Len(frames) \in Nat \ {0}
         /\ Top = frames[Len(frames)]
         /\ Top \in FrameType
BY DEF TypeOK, Top

-----------------------------------------------------------------------------
(* dv_panic() leaves everything the invariant speaks of as it is.          *)

LEMMA PanicStep ==
  ASSUME NEW r, IndInv(r), NEW reason \in Panics, Panic(reason)
  PROVE  IndInv(r)'
<1> USE DEF Panic, exeVars, mutexVars, cpuVars
<1>1. TypeOK'
  BY DEF IndInv, TypeOK
<1>2. FrameInv'
  BY DEF IndInv, FrameInv, Chain, Lows, Started, Anchors, Current, OwnPrio,
         Occupied, Live, Top, Me
<1>3. ListInv(r)'
  BY DEF IndInv, ListInv, ListHead, ListNext, ListPrios, TakenPrio
<1>4. Prios' /\ Entries'
  BY DEF IndInv, Prios, Entries, Reason, OwnPrio, Live, TakenPrio, Top, Me
<1> QED
  BY <1>1, <1>2, <1>3, <1>4 DEF IndInv

-----------------------------------------------------------------------------
(* The state in which dv_startos() calls callout_autostart()               *)

LEMMA InitInv ==
  ASSUME NEW r, Init
  PROVE  IndInv(r)
<1> USE DEF Init
<1>1. TypeOK
  <2>1. queue \in [Prio -> Seq(Exe)]
    <3>1. <<Idle>> \in Seq(Exe) /\ <<>> \in Seq(Exe)
      OBVIOUS
    <3> QED
      BY <3>1
  <2>2. frames \in Seq(FrameType)
    BY DEF FrameType
  <2>3. irqlevel \in Nat /\ saveprio \in [Mutex -> -1 .. MaxPrio - 1]
    BY DEF LockAll
  <2>4. currprio \in [Exe -> 0 .. MaxPrio + 1]
    OBVIOUS
  <2>5. nact \in [Exe -> Int] /\ jb \in [Exe -> Nat] /\ ntake \in [Mutex -> Nat]
    OBVIOUS
  <2>6. /\ state \in [Exe -> {"suspended", "ready", "running"}]
        /\ mutexlist \in [Exe -> Mutex \union {None}]
        /\ owner \in [Mutex -> Exe \union {None}]
        /\ next \in [Mutex -> Mutex \union {None}]
    OBVIOUS
  <2> QED
    BY <2>1, <2>2, <2>3, <2>4, <2>5, <2>6 DEF TypeOK
<1>2. FrameInv
  BY DEF FrameInv, Chain, Lows, Started, Anchors, Current, OwnPrio, Occupied,
         Live, Top, Me
<1>3. ListInv(r)
  BY DEF ListInv, ListHead, ListNext, ListPrios
<1>4. Prios
  BY DEF Prios, OwnPrio, Live, Top, Me
<1>5. Entries
  BY DEF Entries, Reason, Live, Me
<1> QED
  BY <1>1, <1>2, <1>3, <1>4, <1>5 DEF IndInv

-----------------------------------------------------------------------------
(* Consequences of the invariant                                           *)

LEMMA CallersLive ==
  ASSUME NEW r, IndInv(r)
  PROVE  /\ \A i \in 1 .. Len(frames) : frames[i].exe \in Exe /\ Live(frames[i].exe)
         /\ pc # "sched" => Live(Me)
<1> USE DEF IndInv, FrameInv
<1>1. Len(frames) \in Nat /\ \A i \in 1 .. Len(frames) : frames[i] \in FrameType
  BY DEF TypeOK
<1>2. \A i \in 1 .. Len(frames) : frames[i].exe \in Exe /\ Live(frames[i].exe)
  <2> TAKE i \in 1 .. Len(frames)
  <2>1. CASE i = 1
    BY <1>1, <2>1 DEF Chain, Live, FrameType
  <2>2. CASE i > 1
    <3>1. i - 1 \in 1 .. Len(frames) /\ Occupied(i - 1)
      BY <1>1, <2>2 DEF Occupied
    <3>2. frames[i].exe = frames[i-1].e
      BY <2>2 DEF Chain
    <3>3. frames[i-1].e \in Exe /\ jb[frames[i-1].e] = i - 1
      BY <3>1 DEF Started
    <3> QED
      BY <1>1, <2>2, <3>2, <3>3 DEF Live
  <2> QED
    BY <2>1, <2>2
<1>3. ASSUME pc # "sched" PROVE Live(Me)
  <2>1. CASE pc \in {"irq", "raised"}
    <3>1. Me = Top.exe /\ frames # <<>>
      BY <2>1 DEF Current
    <3>2. Len(frames) \in 1 .. Len(frames) /\ Top = frames[Len(frames)]
      BY <3>1, TopType
    <3> QED
      BY <1>2, <3>1, <3>2
  <2>2. CASE pc \in {"app", "chained", "exit"} /\ frames = <<>>
    BY <2>2 DEF Current, Live
  <2>3. CASE pc \in {"app", "chained", "exit"} /\ frames # <<>>
    <3>1. Occupied(Len(frames)) /\ Len(frames) \in 1 .. Len(frames)
      BY <2>3, TopType DEF Occupied
    <3>2. jb[Me] = Len(frames)
      BY <2>3, <3>1, TopType DEF Current, Started
    <3> QED
      BY <3>1, <3>2 DEF Live
  <2> QED
    BY <1>3, <2>1, <2>2, <2>3 DEF TypeOK
<1> QED
  BY <1>2, <1>3

\* While its code runs or it ends, currentexe occupies the newest frame and is
\* the caller of none.
LEMMA MeOnTop ==
  ASSUME NEW r, IndInv(r), pc \in {"app", "chained", "exit"}
  PROVE  /\ \A i \in 1 .. Len(frames) : frames[i].exe # Me
         /\ frames = <<>> => Me = Idle
         /\ frames # <<>> => /\ Me = Top.e /\ jb[Me] = Len(frames) /\ Me # Idle
                             /\ BasePrio[Me] = Top.p /\ Top.p > Top.low
                             /\ Top.eprio = RunPrio[Me]
<1> USE DEF IndInv, FrameInv
<1>1. Len(frames) \in Nat /\ \A i \in 1 .. Len(frames) : frames[i] \in FrameType
  BY DEF TypeOK
<1>2. CASE frames = <<>>
  BY <1>1, <1>2 DEF Current
<1>3. CASE frames # <<>>
  <2>1. Occupied(Len(frames)) /\ Len(frames) \in 1 .. Len(frames)
    BY <1>3, TopType DEF Occupied
  <2>2. /\ Me = Top.e /\ jb[Me] = Len(frames)
        /\ BasePrio[Me] = Top.p /\ Top.p > Top.low /\ Top.eprio = RunPrio[Me]
    BY <1>3, <2>1, TopType DEF Current, Started
  <2>3. Me # Idle
    BY <1>3, <2>2, TopType DEF FrameType
  <2>4. ASSUME NEW i \in 1 .. Len(frames) PROVE frames[i].exe # Me
    <3>1. CASE i = 1
      BY <2>3, <3>1 DEF Chain
    <3>2. CASE i > 1
      <4>1. i - 1 \in 1 .. Len(frames) /\ Occupied(i - 1)
        BY <1>1, <3>2 DEF Occupied
      <4>2. jb[frames[i].exe] = i - 1
        BY <3>2, <4>1 DEF Chain, Started
      <4> QED
        BY <1>1, <2>2, <4>2
    <3> QED
      BY <1>1, <3>1, <3>2
  <2> QED
    BY <1>3, <2>2, <2>3, <2>4
<1> QED
  BY <1>2, <1>3

\* A live executable's own priority lies between its runprio and the kernel's.
LEMMA OwnPrioBounds ==
  ASSUME NEW r, IndInv(r), NEW e \in Exe, Live(e)
  PROVE  /\ OwnPrio(e) \in RunPrio[e] .. MaxPrio - 1
         /\ OwnPrio(e) >= BasePrio[e]
<1> USE DEF IndInv
<1>1. OwnPrio(e) = IF mutexlist[e] = None THEN RunPrio[e] ELSE TakenPrio(mutexlist[e])
  BY DEF Prios
<1>2. CASE mutexlist[e] = None
  BY <1>1, <1>2
<1>3. CASE mutexlist[e] # None
  <2>1. mutexlist[e] \in Mutex /\ owner[mutexlist[e]] = e /\ e # None
    BY <1>3 DEF TypeOK, ListInv, ListHead
  <2>2. /\ saveprio[mutexlist[e]] \in -1 .. MaxPrio - 1
        /\ saveprio[mutexlist[e]] >= RunPrio[e]
    BY <2>1 DEF TypeOK, ListInv, ListPrios
  <2> QED
    BY <1>1, <1>3, <2>1, <2>2 DEF TakenPrio
<1> QED
  BY <1>2, <1>3

-----------------------------------------------------------------------------
(* Pushing and keeping frames                                              *)

\* The executable that runs calls dv_runqueued() or is interrupted.
LEMMA PushFrame ==
  ASSUME NEW r, IndInv(r), pc \in {"app", "chained"},
         NEW f \in FrameType, frames' = Append(frames, f),
         f.exe = Me, f.e = None, f.ret = "chained" => Me # Idle,
         f.low >= BasePrio[Me],
         currentexe' = currentexe, jb' = jb, currprio' \in [Exe -> Int],
         \A e \in Exe \ {Me} : currprio'[e] = currprio[e],
         pc' \in {"irq", "raised", "sched"},
         pc' = "sched" => f.low = currprio'[Me],
         pc' # "sched" => currprio'[Me] >= MaxPrio,
         pc' = "irq" => f.p = MaxPrio,
         pc' = "raised" => f.p = MaxPrio - 1
  PROVE  FrameInv'
<1> USE DEF IndInv, FrameInv
<1> DEFINE n == Len(frames)
<1>1. /\ n \in Nat /\ \A i \in 1 .. n : frames[i] \in FrameType
      /\ Len(frames') = n + 1
      /\ \A i \in 1 .. n : frames'[i] = frames[i]
      /\ frames'[n + 1] = f
      /\ Top' = f
      /\ frames' # <<>>
  <2>1. frames \in Seq(FrameType)
    BY DEF TypeOK
  <2>2. /\ Len(frames) \in Nat /\ Len(frames') = Len(frames) + 1 /\ frames' # <<>>
        /\ \A i \in 1 .. Len(frames) : frames'[i] = frames[i] /\ frames[i] \in FrameType
        /\ frames'[Len(frames) + 1] = f
    BY <2>1, AppendFacts
  <2>3. Top' = f
    BY <2>2 DEF Top
  <2> QED
    BY <2>2, <2>3
<1>2. \A i \in 1 .. n : Occupied(i) /\ Occupied(i)'
  BY <1>1 DEF Occupied
<1>3. \A i : Occupied(i)' => i # n + 1
  BY <1>1 DEF Occupied
<1>4. \A i \in 1 .. Len(frames') : i \in 1 .. n \/ i = n + 1
  BY <1>1
<1>5. Me \in Exe /\ Me' = Me
  BY DEF TypeOK, Me
<1>6. Chain'
  <2>1. n > 0 => Me = frames[n].e
    BY <1>1, MeOnTop, TopType
  <2>2. n = 0 => Me = Idle
    BY <1>1, MeOnTop
  <2>3. ASSUME NEW i \in 1 .. n
        PROVE  /\ i = 1 => frames'[i].exe = Idle
               /\ i > 1 => frames'[i].exe = frames'[i-1].e
               /\ frames'[i].ret = "chained" => frames'[i].exe # Idle
    <3>1. i > 1 => frames'[i-1] = frames[i-1]
      BY <1>1
    <3> QED
      BY <1>1, <3>1 DEF Chain
  <2>4. /\ n + 1 = 1 => f.exe = Idle
        /\ n + 1 > 1 => f.exe = frames'[n].e
    BY <1>1, <2>1, <2>2
  <2> QED
    BY <1>1, <1>4, <2>3, <2>4 DEF Chain
<1>7. Lows'
  <2>0. f.low \in Int /\ \A i \in 1 .. n : frames[i].low \in Int
    BY <1>1 DEF FrameType
  <2>1. \A i \in 1 .. n : frames[i].low < f.low
    <3> TAKE i \in 1 .. n
    <3>1. Top = frames[n] /\ Top.low < f.low
      <4>1. BasePrio[Me] = Top.p /\ Top.p > Top.low
        BY <1>1, MeOnTop
      <4>2. Top \in FrameType /\ Top = frames[n]
        BY <1>1, TopType
      <4>3. Top.p \in Int /\ Top.low \in Int
        BY <4>2 DEF FrameType
      <4> QED
        BY <2>0, <4>1, <4>2, <4>3
    <3>2. n \in 1 .. Len(frames)
      BY <1>1
    <3>3. i < n => frames[i].low < frames[n].low
      BY <3>2 DEF Lows
    <3>4. CASE i < n
      <4>1. frames[n].low < f.low
        BY <3>1
      <4>2. frames[n].low \in Int /\ frames[i].low \in Int
        BY <2>0, <3>2
      <4> QED
        BY <2>0, <3>3, <3>4, <4>1, <4>2
    <3>5. CASE i = n
      BY <3>1, <3>5
    <3> QED
      BY <1>1, <3>4, <3>5
  <2>2. f.low >= n
    <3>1. CASE n = 0
      BY <3>1 DEF FrameType
    <3>2. CASE n > 0
      <4>1. n \in 1 .. Len(frames)
        BY <1>1, <3>2
      <4>2. frames[n].low >= n - 1
        BY <4>1 DEF Lows
      <4> QED
        BY <1>1, <2>0, <2>1, <4>1, <4>2
    <3> QED
      BY <1>1, <3>1, <3>2
  <2>3. \A e : e = Me => f.low = OwnPrio(e)'
    BY <1>1, <1>5 DEF OwnPrio, Me
  <2>4. \A i \in 1 .. n : frames[i].low = OwnPrio(frames[i].exe)'
    <3> TAKE i \in 1 .. n
    <3>1. frames[i].exe \in Exe /\ frames[i].exe # Me
      BY MeOnTop, CallersLive
    <3>2. OwnPrio(frames[i].exe) = currprio[frames[i].exe]
      BY DEF OwnPrio
    <3>3. OwnPrio(frames[i].exe)' = currprio'[frames'[i].exe]
      BY <1>1, <1>5, <3>1 DEF OwnPrio
    <3>4. frames[i].low = OwnPrio(frames[i].exe)
      BY DEF Lows
    <3> QED
      BY <1>1, <1>5, <3>1, <3>2, <3>3, <3>4
  <2>5. ASSUME NEW i \in 1 .. n
        PROVE  /\ frames[i].low >= i - 1
               /\ \A j \in 1 .. n : i < j => frames[i].low < frames[j].low
    BY DEF Lows
  <2> SUFFICES ASSUME NEW i \in 1 .. Len(frames')
               PROVE  /\ frames'[i].low = OwnPrio(frames[i].exe)'
                      /\ frames'[i].low >= i - 1
                      /\ \A j \in 1 .. Len(frames') : i < j => frames'[i].low < frames'[j].low
    BY DEF Lows
  <2>6. CASE i \in 1 .. n
    <3>1. frames'[i] = frames[i]
      BY <1>1, <2>6
    <3>2. frames'[i].low = OwnPrio(frames[i].exe)' /\ frames'[i].low >= i - 1
      BY <2>4, <2>5, <2>6, <3>1
    <3>3. ASSUME NEW j \in 1 .. Len(frames'), i < j PROVE frames'[i].low < frames'[j].low
      <4>1. CASE j \in 1 .. n
        <5>1. frames'[j] = frames[j]
          BY <1>1, <4>1
        <5> QED
          BY <2>5, <2>6, <3>1, <3>3, <4>1, <5>1
      <4>2. CASE j = n + 1
        BY <1>1, <2>1, <2>6, <3>1, <4>2
      <4> QED
        BY <1>4, <4>1, <4>2
    <3> QED
      BY <3>2, <3>3
  <2>7. CASE i = n + 1
    <3>1. frames'[i] = f
      BY <1>1, <2>7
    <3>2. frames'[i].low = OwnPrio(frames[i].exe)'
      BY <2>3, <3>1 DEF OwnPrio
    <3>3. \A j \in 1 .. Len(frames') : ~(i < j)
      BY <1>1, <2>7
    <3>4. f.low >= i - 1
      BY <1>1, <2>2, <2>7
    <3> QED
      BY <3>1, <3>2, <3>3, <3>4
  <2> QED
    BY <1>4, <2>6, <2>7
<1>8. Started'
  <2> SUFFICES ASSUME NEW i \in 1 .. Len(frames'), Occupied(i)'
               PROVE  /\ frames'[i].e \in Exe
                      /\ frames'[i].p = BasePrio[frames'[i].e]
                      /\ frames'[i].p > frames'[i].low
                      /\ frames'[i].eprio = RunPrio[frames'[i].e]
                      /\ jb'[frames'[i].e] = i
    BY DEF Started
  <2>1. i \in 1 .. n
    BY <1>3, <1>4
  <2>2. frames'[i] = frames[i] /\ Occupied(i) /\ i \in 1 .. Len(frames)
    BY <1>1, <1>2, <2>1
  <2> QED
    BY <2>2 DEF Started
<1>9. Anchors'
  <2> SUFFICES ASSUME NEW e \in Exe, jb[e] # 0
               PROVE  Occupied(jb[e])' /\ frames'[jb[e]].e = e
    BY DEF Anchors
  <2>1. jb[e] \in 1 .. n /\ frames[jb[e]].e = e
    BY DEF Anchors, Occupied
  <2> QED
    BY <1>1, <1>2, <2>1
<1>10. Current'
  BY <1>1, <1>5 DEF Current, Me
<1> QED
  BY <1>6, <1>7, <1>8, <1>9, <1>10

\* A step that neither pushes nor pops: the callers keep their priorities.
LEMMA KeepFrames ==
  ASSUME NEW r, IndInv(r), frames' = frames, jb' = jb, currentexe' = currentexe,
         \/ pc' = pc /\ (pc \in {"irq", "raised"} => currprio'[Me] = currprio[Me])
         \/ /\ pc \in {"app", "chained"} /\ pc' \in {"app", "chained", "exit"}
            /\ pc' # "app" => Me # Idle
         \/ pc \in {"irq", "raised"} /\ pc' = "sched",
         \A i \in 1 .. Len(frames) : \A e :
            e = frames[i].exe => OwnPrio(e)' = OwnPrio(e)
  PROVE  FrameInv'
<1> USE DEF IndInv, FrameInv
<1>1. Chain'
  BY DEF Chain
<1>2. Lows'
  <2> SUFFICES ASSUME NEW i \in 1 .. Len(frames)
               PROVE  /\ frames[i].low = OwnPrio(frames[i].exe)'
                      /\ frames[i].low >= i - 1
                      /\ \A j \in 1 .. Len(frames) : i < j => frames[i].low < frames[j].low
    BY DEF Lows
  <2>1. frames[i].low = OwnPrio(frames[i].exe)
    BY DEF Lows
  <2>2. \A e : e = frames[i].exe => OwnPrio(e)' = frames[i].low
    BY <2>1
  <2>3. OwnPrio(frames[i].exe)' = frames[i].low
    BY <2>2 DEF OwnPrio
  <2> QED
    BY <2>3 DEF Lows
<1>3. \A i : Occupied(i)' <=> Occupied(i)
  BY DEF Occupied
<1>4. Started'
  BY <1>3 DEF Started
<1>5. Anchors'
  <2> SUFFICES ASSUME NEW e \in Exe, jb[e] # 0
               PROVE  Occupied(jb[e])' /\ frames[jb[e]].e = e
    BY DEF Anchors
  <2>1. Occupied(jb[e]) /\ frames[jb[e]].e = e
    BY DEF Anchors
  <2> QED
    BY <2>1 DEF Occupied
<1>6. Top' = Top /\ Me' = Me /\ (Live(Me) => Live(Me)')
  BY DEF Top, Me, Live
<1>7. Current'
  BY <1>6 DEF Current, Me, Live
<1> QED
  BY <1>1, <1>2, <1>4, <1>5, <1>7

\* A step that does not touch the mutexes and keeps every priority.
LEMMA KeepMutexes ==
  ASSUME NEW r, IndInv(r), UNCHANGED <<owner, next, saveprio, mutexlist, jb>>,
         \A e \in Exe : /\ Live(e) => OwnPrio(e)' = OwnPrio(e)
                        /\ ~Live(e) => currprio'[e] = currprio[e]
  PROVE  ListInv(r)' /\ Prios'
<1> USE DEF IndInv
<1>1. ListInv(r)'
  BY DEF ListInv, ListHead, ListNext, ListPrios, TakenPrio
<1>2. Prios'
  BY DEF Prios, TakenPrio, Live
<1> QED
  BY <1>1, <1>2

-----------------------------------------------------------------------------
(* The queues                                                              *)

LEMMA EnqueueType ==
  ASSUME queue \in [Prio -> Seq(Exe)], NEW p \in Prio, NEW e \in Exe
  PROVE  /\ Enqueue(queue, p, e) \in [Prio -> Seq(Exe)]
         /\ Enqueue(queue, p, e)[p] = Append(queue[p], e)
         /\ \A q \in Prio \ {p} : Enqueue(queue, p, e)[q] = queue[q]
BY DEF Enqueue

LEMMA DequeueType ==
  ASSUME queue \in [Prio -> Seq(Exe)], NEW p \in Prio, queue[p] # <<>>
  PROVE  /\ Dequeue(queue, p) \in [Prio -> Seq(Exe)]
         /\ Dequeue(queue, p)[p] = Tail(queue[p])
         /\ \A q \in Prio \ {p} : Dequeue(queue, p)[q] = queue[q]
BY DEF Dequeue

\* Something more is queued, for a reason if it is raised.
LEMMA EntriesEnqueue ==
  ASSUME TypeOK, Entries, NEW p \in Prio, NEW e \in Exe,
         queue' = Enqueue(queue, p, e),
         \A x \in Exe, q \in Prio : Reason(x, q) => Reason(x, q)',
         BasePrio[e] # p => /\ Reason(e, p)'
                            /\ ~Reason(e, p)
  PROVE  Entries'
<1>1. queue \in [Prio -> Seq(Exe)]
  BY DEF TypeOK
<1> SUFFICES ASSUME NEW q \in Prio, NEW i \in 1 .. Len(queue'[q]),
                    BasePrio[queue'[q][i]] # q
             PROVE  /\ Reason(queue[q][i], q)'
                    /\ \A j \in 1 .. Len(queue'[q]) : queue'[q][j] = queue'[q][i] => j = i
  BY DEF Entries
<1>2. CASE q # p
  <2>1. queue'[q] = queue[q]
    BY <1>1, <1>2 DEF Enqueue
  <2>2. queue[q][i] \in Exe
    BY <1>1, <2>1
  <2>3. /\ Reason(queue[q][i], q)
        /\ \A j \in 1 .. Len(queue[q]) : queue[q][j] = queue[q][i] => j = i
    BY <2>1 DEF Entries
  <2>4. \A x : x = queue[q][i] => Reason(x, q)'
    BY <2>2, <2>3
  <2>5. Reason(queue[q][i], q)'
    BY <2>1, <2>4 DEF Reason, Live, Me
  <2> QED
    BY <2>1, <2>3, <2>5
<1>3. CASE q = p
  <2> DEFINE n == Len(queue[p])
  <2>1. queue'[p] = Append(queue[p], e)
    BY <1>1, EnqueueType
  <2>2. /\ queue[p] \in Seq(Exe) /\ n \in Nat /\ Len(queue'[p]) = n + 1
        /\ \A k \in 1 .. n : queue'[p][k] = queue[p][k] /\ queue[p][k] \in Exe
        /\ queue'[p][n + 1] = e
    BY <1>1, <2>1, AppendFacts, SMTT(30)
  <2>3. ASSUME NEW k \in 1 .. n, BasePrio[queue[p][k]] # p
        PROVE  Reason(queue[p][k], p)
               /\ \A j \in 1 .. n : queue[p][j] = queue[p][k] => j = k
    BY <2>3 DEF Entries
  <2>4. CASE i \in 1 .. n
    <3>1. queue'[p][i] = queue[p][i] /\ queue[p][i] \in Exe
      BY <2>2, <2>4
    <3>2. Reason(queue[p][i], p)
          /\ \A j \in 1 .. n : queue[p][j] = queue[p][i] => j = i
      BY <1>3, <2>3, <2>4, <3>1
    <3>3. \A x : x = queue[p][i] => Reason(x, p)'
      BY <3>1, <3>2
    <3>4. Reason(queue[p][i], p)'
      BY <3>1, <3>3 DEF Reason, Live, Me
    <3>5. queue[p][i] # e
      BY <1>3, <3>1, <3>2
    <3>6. ASSUME NEW j \in 1 .. Len(queue'[p]), queue'[p][j] = queue'[p][i] PROVE j = i
      <4>1. j \in 1 .. n \/ j = n + 1
        BY <2>2
      <4>2. j # n + 1
        BY <2>2, <3>1, <3>5, <3>6
      <4>3. j \in 1 .. n /\ queue[p][j] = queue[p][i]
        BY <2>2, <3>1, <3>6, <4>1, <4>2
      <4> QED
        BY <3>2, <4>3
    <3> QED
      BY <1>3, <3>4, <3>6
  <2>5. CASE i = n + 1
    <3>1. queue'[p][i] = e
      BY <2>2, <2>5
    <3>2. \A x : x = e => Reason(x, p)'
      BY <1>3, <3>1
    <3>3. Reason(queue[p][i], p)'
      BY <3>1, <3>2 DEF Reason, Live, Me
    <3>4. \A j \in 1 .. n : queue[p][j] # e
      BY <1>3, <2>3, <3>1
    <3>5. ASSUME NEW j \in 1 .. Len(queue'[p]), queue'[p][j] = queue'[p][i] PROVE j = i
      <4>1. ASSUME j \in 1 .. n PROVE FALSE
        <5>1. queue'[p][j] = queue[p][j] /\ queue[p][j] # e
          BY <2>2, <3>4, <4>1
        <5> QED
          BY <1>3, <3>1, <3>5, <5>1
      <4>2. j \in 1 .. n + 1
        BY <1>3, <2>2
      <4> QED
        BY <2>2, <2>5, <4>1, <4>2
    <3> QED
      BY <1>3, <3>3, <3>5
  <2> QED
    BY <1>3, <2>2, <2>4, <2>5
<1> QED
  BY <1>2, <1>3

\* Heads of queues are removed, and with them the reasons they had.
LEMMA EntriesDequeue ==
  ASSUME TypeOK, Entries,
         \A q \in Prio : \/ queue'[q] = queue[q]
                         \/ queue[q] # <<>> /\ queue'[q] = Tail(queue[q]),
         \A x \in Exe, q \in Prio : Reason(x, q) =>
            \/ Reason(x, q)'
            \/ queue[q] # <<>> /\ queue'[q] = Tail(queue[q]) /\ Head(queue[q]) = x
  PROVE  Entries'
<1> SUFFICES ASSUME NEW q \in Prio, NEW i \in 1 .. Len(queue'[q]),
                    BasePrio[queue'[q][i]] # q
             PROVE  /\ Reason(queue[q][i], q)'
                    /\ \A j \in 1 .. Len(queue'[q]) : queue'[q][j] = queue'[q][i] => j = i
  BY DEF Entries
<1>0. PICK x : x = queue'[q][i]
  OBVIOUS
<1> SUFFICES /\ Reason(x, q)'
             /\ \A j \in 1 .. Len(queue'[q]) : queue'[q][j] = x => j = i
  BY <1>0 DEF Reason, Live, Me
<1>1. queue[q] \in Seq(Exe)
  BY DEF TypeOK
<1>2. CASE queue'[q] = queue[q]
  <2>1. x = queue[q][i] /\ i \in 1 .. Len(queue[q]) /\ x \in Exe
    BY <1>0, <1>1, <1>2
  <2>2. Reason(x, q) /\ \A j \in 1 .. Len(queue[q]) : queue[q][j] = x => j = i
    BY <1>0, <1>2, <2>1 DEF Entries
  <2>3. ~(queue[q] # <<>> /\ queue'[q] = Tail(queue[q]))
    <3> SUFFICES ASSUME queue[q] # <<>>, queue[q] = Tail(queue[q]) PROVE FALSE
      BY <1>2
    <3>1. Len(Tail(queue[q])) = Len(queue[q]) - 1 /\ Len(queue[q]) \in Nat
      BY <1>1
    <3>2. Len(queue[q]) = Len(queue[q]) - 1
      BY <3>1
    <3> QED
      BY <3>1, <3>2
  <2> QED
    BY <1>2, <2>1, <2>2, <2>3
<1>3. CASE queue[q] # <<>> /\ queue'[q] = Tail(queue[q])
  <2> DEFINE s == queue[q]
  <2>1. /\ Len(s) \in Nat \ {0} /\ Len(queue'[q]) = Len(s) - 1
        /\ \A j \in 1 .. Len(s) - 1 : queue'[q][j] = s[j + 1]
        /\ Head(s) = s[1]
    BY <1>1, <1>3
  <2>2. x = s[i + 1] /\ i + 1 \in 1 .. Len(s) /\ x \in Exe
    BY <1>0, <1>1, <2>1
  <2>3. Reason(x, q) /\ \A j \in 1 .. Len(s) : s[j] = x => j = i + 1
    BY <1>0, <2>2 DEF Entries
  <2>4. Head(s) # x
    BY <2>1, <2>2, <2>3
  <2>5. Reason(x, q)'
    BY <2>2, <2>3, <2>4
  <2>6. ASSUME NEW j \in 1 .. Len(queue'[q]), queue'[q][j] = x PROVE j = i
    <3>1. s[j + 1] = x /\ j + 1 \in 1 .. Len(s)
      BY <2>1, <2>6
    <3>2. j + 1 = i + 1
      BY <2>3, <3>1
    <3> QED
      BY <2>1, <3>2
  <2> QED
    BY <2>5, <2>6
<1> QED
  BY <1>2, <1>3

-----------------------------------------------------------------------------
(* Priorities: why nothing that has been started is started again          *)

\* No mutex gives its owner a priority above the owner's own.
LEMMA TakenBelow ==
  ASSUME NEW r \in [Mutex -> Nat], IndInv(r), NEW e \in Exe, Live(e),
         NEW m \in Mutex, owner[m] = e
  PROVE  TakenPrio(m) <= OwnPrio(e)
<1> USE DEF IndInv
<1>1. mutexlist[e] \in Mutex /\ owner[mutexlist[e]] = e /\ e # None
  <2>1. mutexlist[e] # None
    BY DEF ListInv, ListHead
  <2>2. mutexlist[e] \in Mutex \union {None} /\ e # None
    BY DEF TypeOK
  <2>3. owner[mutexlist[e]] = e
    BY <2>1 DEF ListInv, ListHead
  <2> QED
    BY <2>1, <2>2, <2>3
<1>2. OwnPrio(e) = TakenPrio(mutexlist[e])
  BY <1>1 DEF Prios
<1>3. \A k \in Mutex : saveprio[k] \in Int /\ Ceiling[k] \in Int
  BY DEF TypeOK
<1>4. CASE m = mutexlist[e]
  BY <1>1, <1>2, <1>3, <1>4 DEF TakenPrio
<1>5. CASE m # mutexlist[e]
  <2>1. r[m] < r[mutexlist[e]]
    BY <1>1, <1>5 DEF ListInv, ListHead
  <2>2. TakenPrio(m) <= saveprio[mutexlist[e]]
    BY <1>1, <2>1 DEF ListInv, ListPrios
  <2> QED
    BY <1>1, <1>2, <1>3, <2>2 DEF TakenPrio
<1> QED
  BY <1>4, <1>5

\* A place above the base priority is not above the own priority.
LEMMA ReasonBelow ==
  ASSUME NEW r \in [Mutex -> Nat], IndInv(r), NEW e \in Exe, NEW p \in Prio,
         Reason(e, p), p # MaxPrio \/ pc # "raised" \/ e # Me
  PROVE  Live(e) /\ p <= OwnPrio(e)
<1>1. Live(e)
  BY DEF Reason
<1>2. OwnPrio(e) \in RunPrio[e] .. MaxPrio - 1
  BY <1>1, OwnPrioBounds
<1>3. CASE p = RunPrio[e]
  BY <1>1, <1>2, <1>3
<1>4. ASSUME NEW m \in Mutex, owner[m] = e, saveprio[m] < Ceiling[m], Ceiling[m] = p
      PROVE  p <= OwnPrio(e)
  BY <1>1, <1>4, TakenBelow DEF TakenPrio
<1> QED
  BY <1>1, <1>3, <1>4 DEF Reason

\* The highest queue holds only an executable raised by dv_raiseprio().
LEMMA HighestEmpty ==
  ASSUME NEW r \in [Mutex -> Nat], IndInv(r)
  PROVE  /\ pc # "raised" => queue[MaxPrio] = <<>>
         /\ \A i \in 1 .. Len(queue[MaxPrio]) : queue[MaxPrio][i] = Me
<1> USE DEF IndInv
<1>1. MaxPrio \in Prio /\ queue[MaxPrio] \in Seq(Exe)
  BY DEF TypeOK
<1>2. ASSUME NEW i \in 1 .. Len(queue[MaxPrio])
      PROVE  pc = "raised" /\ queue[MaxPrio][i] = Me
  <2>1. PICK e \in Exe : e = queue[MaxPrio][i]
    BY <1>1
  <2>2. BasePrio[e] # MaxPrio
    OBVIOUS
  <2>3. Reason(e, MaxPrio)
    BY <1>1, <2>1, <2>2 DEF Entries
  <2>4. ASSUME pc # "raised" \/ e # Me PROVE FALSE
    <3>1. Live(e) /\ MaxPrio <= OwnPrio(e)
      BY <1>1, <2>3, <2>4, ReasonBelow
    <3>2. OwnPrio(e) \in RunPrio[e] .. MaxPrio - 1 /\ RunPrio[e] \in Int
      BY <3>1, OwnPrioBounds
    <3> QED
      BY <3>1, <3>2
  <2> QED
    BY <2>1, <2>4
<1>3. ASSUME pc # "raised" PROVE queue[MaxPrio] = <<>>
  BY <1>1, <1>2, <1>3
<1> QED
  BY <1>2, <1>3

-----------------------------------------------------------------------------
(* Activation                                                              *)

\* In every case of dv_activateexe2() the invariant is kept; a frame is pushed
\* only when executable code has made the call.
LEMMA ActivateStep ==
  ASSUME NEW r \in [Mutex -> Nat], IndInv(r), NEW t \in Task \union Isr, NEW ret,
         pc \in {"app", "raised", "irq"}, Activate(t, ret), pending' \in SUBSET Isr,
         \/ ret = pc
         \/ pc = "app" /\ ret = "chained" /\ Me # Idle
  PROVE  IndInv(r)'
<1> DEFINE high == BasePrio[t]
           low  == currprio[Me]
<1>1. /\ t \in Exe /\ high \in Prio /\ high \in 0 .. MaxPrio - 1 /\ Me \in Exe
      /\ queue \in [Prio -> Seq(Exe)] /\ low \in 0 .. MaxPrio + 1
      /\ frames \in Seq(FrameType)
  <2>1. t \in Exe /\ Me \in Exe
    BY DEF IndInv, TypeOK, Me
  <2>2. high \in 0 .. MaxPrio - 1 /\ low \in 0 .. MaxPrio + 1
    BY <2>1 DEF IndInv, TypeOK
  <2>3. high \in Prio
    BY <2>2
  <2> QED
    BY <2>1, <2>2, <2>3 DEF IndInv, TypeOK
<1>2. /\ queue' = Enqueue(queue, high, t)
      /\ UNCHANGED <<currprio, mutexlist, jb, owner, ntake, next, saveprio,
                     currentexe, irqlevel, panic>>
      /\ nact' \in [Exe -> Int] /\ state' \in [Exe -> {"suspended", "ready", "running"}]
  <2>1. nact' = [nact EXCEPT ![t] = @ + 1] /\ state' = StateActivated(t)
    BY DEF Activate
  <2>2. nact' \in [Exe -> Int]
    <3>1. nact \in [Exe -> Int]
      BY DEF IndInv, TypeOK
    <3>2. nact[t] + 1 \in Int
      BY <1>1, <3>1
    <3> QED
      BY <2>1, <3>1, <3>2
  <2>3. state' \in [Exe -> {"suspended", "ready", "running"}]
    BY <1>1, <2>1 DEF StateActivated, IndInv, TypeOK
  <2> QED
    BY <2>2, <2>3 DEF Activate, mutexVars
<1>3. CASE ~(high > low)
  <2>1. frames' = frames /\ pc' = ret
    BY <1>3 DEF Activate, RunQueued
  <2>2. \A e : OwnPrio(e)' = OwnPrio(e)
    BY <1>2, <2>1 DEF OwnPrio, Me, Top
  <2>3. FrameInv'
    <3>1. \A i \in 1 .. Len(frames) : \A e : e = frames[i].exe => OwnPrio(e)' = OwnPrio(e)
      BY <2>2
    <3>2. \/ pc' = pc /\ (pc \in {"irq", "raised"} => currprio'[Me] = currprio[Me])
          \/ /\ pc \in {"app", "chained"} /\ pc' \in {"app", "chained", "exit"}
             /\ pc' # "app" => Me # Idle
      BY <1>2, <2>1
    <3> QED
      BY <1>2, <2>1, <3>1, <3>2, KeepFrames
  <2>4. pc' \in Pcs /\ (pc = "raised" => pc' = "raised") /\ frames' \in Seq(FrameType)
    BY <1>1, <2>1
  <2> QED
    <3>1. TypeOK'
      <4>1. queue' \in [Prio -> Seq(Exe)]
        BY <1>1, <1>2, EnqueueType
      <4>2. nact' \in [Exe -> Int] /\ state' \in [Exe -> {"suspended", "ready", "running"}]
        BY <1>2
      <4> QED
        BY <1>2, <2>4, <4>1, <4>2 DEF IndInv, TypeOK
    <3>2. ListInv(r)' /\ Prios'
      BY <1>2, <2>2, KeepMutexes
    <3>3. Entries'
      <4>1. \A x \in Exe, q \in Prio : Reason(x, q) => Reason(x, q)'
        BY <1>2, <2>4 DEF Reason, Live, Me
      <4> QED
        BY <1>1, <1>2, <4>1, EntriesEnqueue DEF IndInv
    <3> QED
      BY <2>3, <3>1, <3>2, <3>3 DEF IndInv
<1>4. CASE high > low
  <2>1. pc = "app"
    BY <1>1, <1>4 DEF IndInv, FrameInv, Current
  <2> DEFINE f == Frame(high, low, ret, FALSE)
  <2>2. frames' = Append(frames, f) /\ pc' = "sched"
    BY <1>4 DEF Activate, RunQueued
  <2>3. low >= BasePrio[Me] /\ low \in 0 .. MaxPrio - 1
    <3>1. Live(Me)
      BY <2>1, CallersLive
    <3>2. OwnPrio(Me) = low
      BY <2>1 DEF OwnPrio
    <3>3. OwnPrio(Me) \in RunPrio[Me] .. MaxPrio - 1 /\ OwnPrio(Me) >= BasePrio[Me]
      BY <1>1, <3>1, OwnPrioBounds
    <3>4. RunPrio[Me] \in 0 .. MaxPrio - 1
      BY <1>1
    <3> QED
      BY <3>2, <3>3, <3>4
  <2>4. /\ f \in FrameType /\ f.exe = Me /\ f.e = None /\ f.low = low
        /\ f.ret = "chained" => Me # Idle
    BY <1>1, <2>1, <2>3 DEF Frame, FrameType, Me
  <2>5. FrameInv'
    <3>1. currprio' \in [Exe -> Int]
      BY <1>2 DEF IndInv, TypeOK
    <3> HIDE DEF f, low
    <3>2. f.low >= BasePrio[Me] /\ f.low = currprio'[Me]
      BY <1>2, <2>3, <2>4 DEF low
    <3> QED
      BY <1>2, <2>1, <2>2, <2>4, <3>1, <3>2, PushFrame
  <2>6. \A e : OwnPrio(e)' = OwnPrio(e)
    BY <1>2, <2>1, <2>2 DEF OwnPrio
  <2> QED
    <3>1. TypeOK'
      <4>1. queue' \in [Prio -> Seq(Exe)]
        BY <1>1, <1>2, EnqueueType
      <4>2. nact' \in [Exe -> Int] /\ state' \in [Exe -> {"suspended", "ready", "running"}]
        BY <1>2
      <4>3. frames' \in Seq(FrameType)
        <5> HIDE DEF f
        <5>1. f \in FrameType /\ frames' = Append(frames, f)
          BY <2>2, <2>4
        <5> QED
          BY <1>1, <5>1
      <4> QED
        BY <1>2, <2>2, <4>1, <4>2, <4>3 DEF IndInv, TypeOK
    <3>2. ListInv(r)' /\ Prios'
      BY <1>2, <2>6, KeepMutexes
    <3>3. Entries'
      <4>1. \A x \in Exe, q \in Prio : Reason(x, q) => Reason(x, q)'
        BY <1>2, <2>1 DEF Reason, Live, Me
      <4> QED
        BY <1>1, <1>2, <4>1, EntriesEnqueue DEF IndInv
    <3> QED
      BY <2>5, <3>1, <3>2, <3>3 DEF IndInv
<1> QED
  BY <1>3, <1>4

-----------------------------------------------------------------------------
(* Termination                                                             *)

\* dv_longjmp() lands in the newest frame, so that it discards nothing.
LEMMA LongjmpKeeps ==
  ASSUME NEW r, IndInv(r), pc \in {"app", "chained"}, jb[Me] # 0, LongjmpToExit
  PROVE  frames' = frames /\ pc' = "exit" /\ Me # Idle
<1>1. frames \in Seq(FrameType) /\ Me \in Exe
  BY DEF IndInv, TypeOK, Me
<1>2. frames # <<>>
  <2>1. jb[Me] \in 1 .. Len(frames)
    BY <1>1 DEF IndInv, FrameInv, Anchors, Occupied
  <2> QED
    BY <1>1, <2>1
<1>3. jb[Me] = Len(frames) /\ Me # Idle
  BY <1>2, MeOnTop
<1>4. SubSeq(frames, 1, Len(frames)) = frames
  BY <1>1
<1> QED
  BY <1>3, <1>4 DEF LongjmpToExit

LEMMA ExitStep ==
  ASSUME NEW r, IndInv(r), pc \in {"app", "chained"}, Me # Idle,
         frames' = frames, pc' = "exit",
         UNCHANGED <<queue, exeVars, mutexVars, currentexe, irqlevel, pending, panic>>
  PROVE  IndInv(r)'
<1> USE DEF exeVars, mutexVars
<1>1. TypeOK'
  BY DEF IndInv, TypeOK
<1>2. \A e : OwnPrio(e)' = OwnPrio(e)
  BY DEF OwnPrio
<1>3. FrameInv'
  <2>1. \A i \in 1 .. Len(frames) : \A e : e = frames[i].exe => OwnPrio(e)' = OwnPrio(e)
    BY <1>2
  <2>2. /\ pc \in {"app", "chained"} /\ pc' \in {"app", "chained", "exit"}
        /\ pc' # "app" => Me # Idle
    OBVIOUS
  <2> QED
    BY <2>1, <2>2, KeepFrames
<1>4. ListInv(r)' /\ Prios'
  BY <1>2, KeepMutexes
<1>5. Entries'
  <2>1. \A x \in Exe, q \in Prio : Reason(x, q) => Reason(x, q)'
    BY DEF Reason, Live, Me
  <2> QED
    BY <2>1, EntriesDequeue DEF IndInv
<1> QED
  BY <1>1, <1>3, <1>4, <1>5 DEF IndInv

-----------------------------------------------------------------------------
(* Mutexes                                                                 *)

\* Nested taking and dropping only counts.
LEMMA CountStep ==
  ASSUME NEW r, IndInv(r), ntake' \in [Mutex -> Nat],
         UNCHANGED <<queue, exeVars, owner, next, saveprio, cpuVars, panic>>
  PROVE  IndInv(r)'
<1> USE DEF exeVars, cpuVars
<1>1. TypeOK'
  BY DEF IndInv, TypeOK
<1>2. \A e : OwnPrio(e)' = OwnPrio(e)
  BY DEF OwnPrio, Top, Me
<1>3. FrameInv'
  <2>1. \A i \in 1 .. Len(frames) : \A e : e = frames[i].exe => OwnPrio(e)' = OwnPrio(e)
    BY <1>2
  <2> QED
    BY <2>1, KeepFrames
<1>4. ListInv(r)' /\ Prios'
  BY <1>2, KeepMutexes
<1>5. Entries'
  <2>1. \A x \in Exe, q \in Prio : Reason(x, q) => Reason(x, q)'
    BY DEF Reason, Live, Me
  <2> QED
    BY <2>1, EntriesDequeue DEF IndInv
<1> QED
  BY <1>1, <1>3, <1>4, <1>5 DEF IndInv

\* The head of the list of an executable is the last of its mutexes.
LEMMA ListFacts ==
  ASSUME NEW r, IndInv(r), NEW e \in Exe
  PROVE  /\ mutexlist[e] = None => \A k \in Mutex : owner[k] # e
         /\ mutexlist[e] # None =>
              /\ mutexlist[e] \in Mutex /\ owner[mutexlist[e]] = e
              /\ \A k \in Mutex : owner[k] = e /\ k # mutexlist[e] => r[k] < r[mutexlist[e]]
<1>1. mutexlist[e] \in Mutex \union {None}
  BY DEF IndInv, TypeOK
<1> QED
  BY <1>1 DEF IndInv, ListInv, ListHead

\* The mutex taken becomes the head of the caller's list, with the highest rank.
LEMMA TakeFreeStep ==
  ASSUME NEW r \in [Mutex -> Nat], IndInv(r), pc = "app",
         NEW m \in Mutex, owner[m] = None, TakeFree(m)
  PROVE  \E r2 \in [Mutex -> Nat] : IndInv(r2)'
<1> DEFINE c == Ceiling[m]
           h == mutexlist[Me]
           old == currprio[Me]
           raises == old < c
<1>1. CASE raises /\ Full(queue, c)
  BY <1>1, PanicStep DEF TakeFree, Panics
<1> SUFFICES ASSUME ~(raises /\ Full(queue, c))
             PROVE  \E r2 \in [Mutex -> Nat] : IndInv(r2)'
  BY <1>1
<1>2. /\ owner'     = [owner EXCEPT ![m] = Me]
      /\ ntake'     = [ntake EXCEPT ![m] = 1]
      /\ next'      = [next EXCEPT ![m] = h]
      /\ mutexlist' = [mutexlist EXCEPT ![Me] = m]
      /\ saveprio'  = [saveprio EXCEPT ![m] = old]
      /\ IF raises
         THEN /\ currprio' = [currprio EXCEPT ![Me] = c]
              /\ queue'    = Enqueue(queue, c, Me)
              /\ irqlevel' = Level(c)
         ELSE UNCHANGED <<currprio, queue, irqlevel>>
      /\ UNCHANGED <<nact, state, jb, currentexe, frames, pending, pc, panic>>
  BY DEF TakeFree
<1>3. TypeOK /\ Me \in Exe /\ Me' = Me /\ None \notin Exe /\ None \notin Mutex
  BY <1>2 DEF IndInv, TypeOK, Me
<1>4. c \in 0 .. MaxPrio - 1 /\ c \in Prio /\ \A k \in Mutex : Ceiling[k] \in Int
  OBVIOUS
<1>5. /\ Live(Me) /\ old = OwnPrio(Me) /\ old \in RunPrio[Me] .. MaxPrio - 1
      /\ RunPrio[Me] \in 0 .. MaxPrio - 1 /\ old \in Nat
  <2>1. Live(Me)
    BY CallersLive
  <2>2. old = OwnPrio(Me)
    BY DEF OwnPrio
  <2> QED
    BY <1>3, <2>1, <2>2, OwnPrioBounds
<1>6. /\ h = None => \A k \in Mutex : owner[k] # Me
      /\ h # None => /\ h \in Mutex /\ owner[h] = Me /\ h # m
                     /\ \A k \in Mutex : owner[k] = Me /\ k # h => r[k] < r[h]
  BY <1>3, ListFacts
<1>7. PICK r2 \in [Mutex -> Nat] :
        /\ \A k \in Mutex \ {m} : r2[k] = r[k]
        /\ \A k \in Mutex : owner[k] = Me => r[k] < r2[m]
  <2>1. PICK n \in Nat : n = IF h = None THEN 0 ELSE r[h] + 1
    BY <1>6
  <2> DEFINE r2 == [r EXCEPT ![m] = n]
  <2>2. r2 \in [Mutex -> Nat] /\ r2[m] = n /\ \A k \in Mutex \ {m} : r2[k] = r[k]
    OBVIOUS
  <2>3. ASSUME NEW k \in Mutex, owner[k] = Me PROVE r[k] < r2[m]
    <3>1. h # None /\ r2[m] = r[h] + 1
      BY <1>6, <2>1, <2>2, <2>3
    <3>2. r[k] \in Nat /\ r[h] \in Nat /\ r[k] <= r[h]
      BY <1>6, <2>3, <3>1
    <3> QED
      BY <3>1, <3>2
  <2> QED
    BY <2>2, <2>3
<1>8. /\ old = IF h = None THEN RunPrio[Me] ELSE TakenPrio(h)
      /\ \A k \in Mutex : owner[k] = Me => TakenPrio(k) <= old
  BY <1>3, <1>5, TakenBelow DEF IndInv, Prios
<1>9. /\ \A k \in Mutex \ {m} : /\ owner'[k] = owner[k] /\ next'[k] = next[k]
                                /\ saveprio'[k] = saveprio[k] /\ r2[k] = r[k]
                                /\ TakenPrio(k)' = TakenPrio(k)
      /\ owner'[m] = Me /\ next'[m] = h /\ saveprio'[m] = old
      /\ mutexlist'[Me] = m /\ \A e \in Exe \ {Me} : mutexlist'[e] = mutexlist[e]
  BY <1>2, <1>3, <1>7 DEF TypeOK, TakenPrio
<1>10. ListHead(r2)'
  <2> SUFFICES ASSUME NEW e \in Exe
               PROVE  IF mutexlist'[e] = None
                      THEN \A k \in Mutex : owner'[k] # e
                      ELSE /\ owner'[mutexlist'[e]] = e
                           /\ \A k \in Mutex : owner'[k] = e /\ k # mutexlist'[e]
                                => r2[k] < r2[mutexlist'[e]]
    BY DEF ListHead
  <2>1. CASE e = Me
    BY <1>3, <1>7, <1>9, <2>1
  <2>2. CASE e # Me
    <3>1. /\ mutexlist'[e] = mutexlist[e]
          /\ mutexlist[e] # None => mutexlist[e] \in Mutex \ {m}
      <4>1. mutexlist'[e] = mutexlist[e]
        BY <1>9, <2>2
      <4>2. mutexlist[e] # None => mutexlist[e] \in Mutex /\ owner[mutexlist[e]] = e
        BY ListFacts
      <4>3. e # None
        BY <1>3
      <4> QED
        BY <4>1, <4>2, <4>3
    <3>2. CASE mutexlist[e] = None
      BY <1>9, <2>2, <3>1, <3>2 DEF IndInv, ListInv, ListHead
    <3>3. CASE mutexlist[e] # None
      BY <1>9, <2>2, <3>1, <3>3 DEF IndInv, ListInv, ListHead
    <3> QED
      BY <3>2, <3>3
  <2> QED
    BY <2>1, <2>2
<1>11. ListNext(r2)'
  <2> SUFFICES ASSUME NEW k \in Mutex, owner'[k] # None
               PROVE  IF next'[k] = None
                      THEN /\ saveprio'[k] = RunPrio[owner'[k]]
                           /\ \A j \in Mutex : owner'[j] = owner'[k] /\ j # k => r2[k] < r2[j]
                      ELSE /\ owner'[next'[k]] = owner'[k]
                           /\ r2[next'[k]] < r2[k]
                           /\ saveprio'[k] = TakenPrio(next[k])'
                           /\ \A j \in Mutex : owner'[j] = owner'[k] /\ j # k /\ j # next'[k]
                                => r2[j] < r2[next'[k]] \/ r2[k] < r2[j]
    BY DEF ListNext
  <2>1. CASE k = m
    <3>1. CASE h = None
      BY <1>6, <1>8, <1>9, <2>1, <3>1
    <3>2. CASE h # None
      <4>1. /\ h \in Mutex \ {m} /\ owner[h] = Me /\ old = TakenPrio(h)
        BY <1>6, <1>8, <1>9, <3>2
      <4>2. TakenPrio(next[k])' = TakenPrio(h)
        BY <1>9, <2>1, <4>1 DEF TakenPrio
      <4>3. r2[h] < r2[m] /\ r2[h] = r[h]
        BY <1>7, <4>1
      <4>4. ASSUME NEW j \in Mutex, owner'[j] = Me, j # m, j # h PROVE r2[j] < r2[h]
        BY <1>6, <1>9, <3>2, <4>1, <4>4
      <4> QED
        BY <1>3, <1>9, <2>1, <3>2, <4>1, <4>2, <4>3, <4>4
    <3> QED
      BY <3>1, <3>2
  <2>2. CASE k # m
    <3>1. owner[k] # None /\ owner'[k] = owner[k] /\ next'[k] = next[k]
          /\ saveprio'[k] = saveprio[k] /\ r2[k] = r[k]
      BY <1>9, <2>2
    <3>2. CASE next[k] = None
      <4>1. /\ saveprio[k] = RunPrio[owner[k]]
            /\ \A j \in Mutex : owner[j] = owner[k] /\ j # k => r[k] < r[j]
        BY <3>1, <3>2 DEF IndInv, ListInv, ListNext
      <4>2. ASSUME NEW j \in Mutex, owner'[j] = owner'[k], j # k PROVE r2[k] < r2[j]
        BY <1>7, <1>9, <2>2, <3>1, <4>1, <4>2
      <4> QED
        BY <3>1, <3>2, <4>1, <4>2
    <3>3. CASE next[k] # None
      <4>1. /\ owner[next[k]] = owner[k]
            /\ r[next[k]] < r[k]
            /\ saveprio[k] = TakenPrio(next[k])
            /\ \A j \in Mutex : owner[j] = owner[k] /\ j # k /\ j # next[k]
                 => r[j] < r[next[k]] \/ r[k] < r[j]
        BY <3>1, <3>3 DEF IndInv, ListInv, ListNext
      <4>2. next[k] \in Mutex \ {m}
        BY <1>3, <3>1, <3>3, <4>1 DEF TypeOK
      <4>3. TakenPrio(next[k])' = TakenPrio(next[k])
        BY <1>9, <3>1, <4>2 DEF TakenPrio
      <4>4. ASSUME NEW j \in Mutex, owner'[j] = owner'[k], j # k, j # next[k]
            PROVE  r2[j] < r2[next[k]] \/ r2[k] < r2[j]
        BY <1>7, <1>9, <2>2, <3>1, <4>1, <4>2, <4>4
      <4> QED
        BY <1>9, <3>1, <3>3, <4>1, <4>2, <4>3, <4>4
    <3> QED
      BY <3>2, <3>3
  <2> QED
    BY <2>1, <2>2
<1>12. ListPrios(r2)'
  <2> SUFFICES ASSUME NEW k \in Mutex, owner'[k] # None
               PROVE  /\ saveprio'[k] >= RunPrio[owner'[k]]
                      /\ \A j \in Mutex : owner'[j] = owner'[k] /\ r2[j] < r2[k]
                           => TakenPrio(j)' <= saveprio'[k]
    BY DEF ListPrios
  <2>1. CASE k = m
    <3>1. ASSUME NEW j \in Mutex, owner'[j] = owner'[k], r2[j] < r2[k]
          PROVE  TakenPrio(j)' <= saveprio'[k]
      <4>1. j # m
        BY <1>7, <2>1, <3>1
      <4> QED
        BY <1>8, <1>9, <2>1, <3>1, <4>1
    <3> QED
      BY <1>5, <1>9, <2>1, <3>1
  <2>2. CASE k # m
    <3>1. /\ owner'[k] = owner[k] /\ saveprio'[k] = saveprio[k] /\ r2[k] = r[k]
          /\ saveprio[k] >= RunPrio[owner[k]]
          /\ \A j \in Mutex : owner[j] = owner[k] /\ r[j] < r[k] => TakenPrio(j) <= saveprio[k]
      BY <1>9, <2>2 DEF IndInv, ListInv, ListPrios
    <3>2. ASSUME NEW j \in Mutex, owner'[j] = owner'[k], r2[j] < r2[k]
          PROVE  TakenPrio(j)' <= saveprio'[k]
      <4>1. j # m
        BY <1>7, <1>9, <2>2, <3>1, <3>2
      <4> QED
        BY <1>9, <3>1, <3>2, <4>1
    <3> QED
      BY <3>1, <3>2
  <2> QED
    BY <2>1, <2>2
<1>13. currprio' \in [Exe -> 0 .. MaxPrio + 1] /\ currprio'[Me] = (IF raises THEN c ELSE old)
       /\ \A e \in Exe \ {Me} : currprio'[e] = currprio[e]
  <2>0. currprio \in [Exe -> 0 .. MaxPrio + 1]
    BY <1>3 DEF TypeOK
  <2>1. currprio \in [Exe -> 0 .. MaxPrio + 1] /\ c \in 0 .. MaxPrio + 1 /\ Me \in Exe
    BY <1>3, <1>4, <2>0
  <2>2. CASE raises
    BY <1>2, <2>1, <2>2
  <2>3. CASE ~raises
    BY <1>2, <2>1, <2>3
  <2> QED
    BY <2>2, <2>3
<1>14. TypeOK'
  <2>1. queue' \in [Prio -> Seq(Exe)]
    <3>1. queue \in [Prio -> Seq(Exe)]
      BY <1>3 DEF TypeOK
    <3>2. Enqueue(queue, c, Me) \in [Prio -> Seq(Exe)]
      BY <1>3, <1>4, <3>1, EnqueueType
    <3> QED
      BY <1>2, <3>1, <3>2
  <2>2. irqlevel' \in Nat
    <3>1. irqlevel \in Nat /\ Level(c) \in Nat
      BY <1>3, <1>4, LevelType DEF TypeOK
    <3> QED
      BY <1>2, <3>1
  <2>3. saveprio' \in [Mutex -> -1 .. MaxPrio - 1]
    <3>1. old \in -1 .. MaxPrio - 1
      BY <1>5
    <3> QED
      BY <1>2, <1>3, <3>1 DEF TypeOK
  <2>4. owner' \in [Mutex -> Exe \union {None}] /\ ntake' \in [Mutex -> Nat]
    BY <1>2, <1>3 DEF TypeOK
  <2>5. next' \in [Mutex -> Mutex \union {None}] /\ mutexlist' \in [Exe -> Mutex \union {None}]
    BY <1>2, <1>3, <1>6 DEF TypeOK
  <2> QED
    BY <1>2, <1>3, <1>13, <2>1, <2>2, <2>3, <2>4, <2>5 DEF TypeOK
<1>15. FrameInv'
  <2>1. ASSUME NEW i \in 1 .. Len(frames), NEW e, e = frames[i].exe
        PROVE  OwnPrio(e)' = OwnPrio(e)
    <3>1. e \in Exe \ {Me}
      BY <2>1, MeOnTop, CallersLive
    <3> QED
      BY <1>2, <1>13, <3>1 DEF OwnPrio
  <2> QED
    BY <1>2, <2>1, KeepFrames
<1>16. Prios'
  <2> SUFFICES ASSUME NEW e \in Exe
               PROVE  /\ ~Live(e) => mutexlist'[e] = None /\ currprio'[e] = BasePrio[e]
                      /\ Live(e) => currprio'[e] = IF mutexlist'[e] = None THEN RunPrio[e]
                                                   ELSE TakenPrio(mutexlist[e])'
    BY <1>2 DEF Prios, Live, OwnPrio
  <2>1. CASE e = Me
    <3>1. mutexlist'[e] = m /\ m # None /\ saveprio'[m] = old
      BY <1>3, <1>9, <2>1
    <3>2. TakenPrio(mutexlist[e])' = IF raises THEN c ELSE old
      BY <3>1 DEF TakenPrio
    <3> QED
      BY <1>5, <1>13, <2>1, <3>1, <3>2
  <2>2. CASE e # Me
    <3>1. /\ mutexlist'[e] = mutexlist[e] /\ currprio'[e] = currprio[e]
          /\ mutexlist[e] # None => mutexlist[e] \in Mutex \ {m}
      <4>1. mutexlist'[e] = mutexlist[e] /\ currprio'[e] = currprio[e]
        BY <1>9, <1>13, <2>2
      <4>2. mutexlist[e] # None => mutexlist[e] \in Mutex /\ owner[mutexlist[e]] = e
        BY ListFacts
      <4>3. e # None
        BY <1>3
      <4> QED
        BY <4>1, <4>2, <4>3
    <3>2. OwnPrio(e) = currprio[e]
      BY DEF OwnPrio
    <3>3. mutexlist[e] # None => TakenPrio(mutexlist[e])' = TakenPrio(mutexlist[e])
      BY <1>9, <3>1 DEF TakenPrio
    <3> QED
      BY <3>1, <3>2, <3>3 DEF IndInv, Prios
  <2> QED
    BY <2>1, <2>2
<1>17. Entries'
  <2>1. ASSUME NEW x \in Exe, NEW q \in Prio, Reason(x, q) PROVE Reason(x, q)'
    <3>1. Live(x)'
      BY <1>2, <2>1 DEF Reason, Live
    <3>2. ASSUME NEW k \in Mutex, owner[k] = x, saveprio[k] < Ceiling[k], Ceiling[k] = q
          PROVE  owner'[k] = x /\ saveprio'[k] < Ceiling[k]
      BY <1>3, <1>9, <3>2
    <3> QED
      BY <1>2, <2>1, <3>1, <3>2 DEF Reason
  <2>2. CASE ~raises
    BY <1>2, <2>1, <2>2, EntriesDequeue DEF IndInv
  <2>3. CASE raises
    <3>1. Live(Me)'
      BY <1>2, <1>5 DEF Live, Me
    <3>2. Reason(Me, c)'
      BY <1>3, <1>9, <2>3, <3>1 DEF Reason
    <3>3. ~Reason(Me, c)
      <4>1. Reason(Me, c) => c <= old
        BY <1>3, <1>4, <1>5, ReasonBelow
      <4> QED
        BY <1>4, <1>5, <2>3, <4>1
    <3> QED
      BY <1>2, <1>3, <1>4, <2>1, <2>3, <3>2, <3>3, EntriesEnqueue DEF IndInv
  <2> QED
    BY <2>2, <2>3
<1> QED
  BY <1>7, <1>10, <1>11, <1>12, <1>14, <1>15, <1>16, <1>17 DEF IndInv, ListInv

\* The head of the list of currentexe goes; the priority saved in it is that of
\* the rest of the list.
LEMMA DropHead ==
  ASSUME NEW r \in [Mutex -> Nat], IndInv(r), NEW m \in Mutex, mutexlist[Me] = m,
         pc \in {"app", "exit"}, pc' \in {"app", "sched", "exit"},
         owner' = [owner EXCEPT ![m] = None],
         mutexlist' = [mutexlist EXCEPT ![Me] = next[m]],
         next' = [next EXCEPT ![m] = None],
         currprio' = [currprio EXCEPT ![Me] = saveprio[m]],
         UNCHANGED <<saveprio, jb, currentexe>>,
         IF saveprio[m] < Ceiling[m]
         THEN IsHead(queue, Ceiling[m], Me) /\ queue' = Dequeue(queue, Ceiling[m])
         ELSE queue' = queue
  PROVE  /\ ListInv(r)' /\ Prios' /\ Entries'
         /\ queue' \in [Prio -> Seq(Exe)]
         /\ owner' \in [Mutex -> Exe \union {None}]
         /\ mutexlist' \in [Exe -> Mutex \union {None}]
         /\ next' \in [Mutex -> Mutex \union {None}]
         /\ currprio' \in [Exe -> 0 .. MaxPrio + 1]
         /\ saveprio[m] \in 0 .. MaxPrio - 1 /\ saveprio[m] >= BasePrio[Me]
<1> DEFINE c == Ceiling[m]
           old == saveprio[m]
<1>1. /\ TypeOK /\ Me \in Exe /\ Me' = Me /\ None \notin Exe /\ None \notin Mutex
      /\ owner[m] = Me /\ queue \in [Prio -> Seq(Exe)] /\ c \in Prio
  <2>1. TypeOK /\ Me \in Exe /\ Me' = Me
    BY DEF IndInv, TypeOK, Me
  <2>2. None \notin Exe /\ None \notin Mutex /\ c \in 0 .. MaxPrio - 1
    OBVIOUS
  <2>3. owner[m] = Me
    BY <2>1, <2>2, ListFacts
  <2> QED
    <3>1. queue \in [Prio -> Seq(Exe)]
      BY <2>1 DEF TypeOK
    <3>2. c \in Prio
      BY <2>2
    <3> QED
      BY <2>1, <2>2, <2>3, <3>1, <3>2
<1>2. /\ \A k \in Mutex : owner[k] = Me /\ k # m => r[k] < r[m]
      /\ Live(Me)
  BY <1>1, ListFacts, CallersLive
<1>3. old \in 0 .. MaxPrio - 1 /\ old >= RunPrio[Me] /\ old >= BasePrio[Me]
  <2>1. old >= RunPrio[Me] /\ old \in -1 .. MaxPrio - 1
    BY <1>1 DEF IndInv, ListInv, ListPrios, TypeOK
  <2>2. RunPrio[Me] \in 0 .. MaxPrio - 1 /\ BasePrio[Me] \in 0 .. MaxPrio - 1
        /\ RunPrio[Me] >= BasePrio[Me]
    BY <1>1
  <2> QED
    BY <2>1, <2>2
<1>4. /\ next[m] = None => /\ old = RunPrio[Me]
                           /\ \A k \in Mutex : owner[k] = Me => k = m
      /\ next[m] # None => /\ next[m] \in Mutex \ {m} /\ owner[next[m]] = Me
                           /\ old = TakenPrio(next[m])
                           /\ \A k \in Mutex : owner[k] = Me /\ k # m /\ k # next[m]
                                => r[k] < r[next[m]]
  <2>1. ASSUME NEW k \in Mutex, owner[k] = Me, k # m PROVE r[k] < r[m] /\ ~(r[m] < r[k])
    BY <1>2, <2>1
  <2>2. CASE next[m] = None
    <3>1. old = RunPrio[Me] /\ \A k \in Mutex : owner[k] = Me /\ k # m => r[m] < r[k]
      BY <1>1, <2>2 DEF IndInv, ListInv, ListNext
    <3> QED
      BY <2>1, <2>2, <3>1
  <2>3. CASE next[m] # None
    <3>1. /\ owner[next[m]] = Me /\ r[next[m]] < r[m] /\ old = TakenPrio(next[m])
          /\ \A k \in Mutex : owner[k] = Me /\ k # m /\ k # next[m] =>
               r[k] < r[next[m]] \/ r[m] < r[k]
      <4>1. ListNext(r) /\ owner[m] # None /\ owner[m] = Me
        BY <1>1 DEF IndInv, ListInv
      <4> QED
        BY <2>3, <4>1 DEF ListNext
    <3>2. next[m] \in Mutex
      BY <1>1, <2>3 DEF TypeOK
    <3>3. next[m] # m
      BY <3>1
    <3> QED
      BY <2>1, <2>3, <3>1, <3>2, <3>3
  <2> QED
    BY <2>2, <2>3
<1>5. /\ \A k \in Mutex \ {m} : owner'[k] = owner[k] /\ next'[k] = next[k]
      /\ owner'[m] = None /\ next'[m] = None
      /\ mutexlist'[Me] = next[m] /\ \A e \in Exe \ {Me} : mutexlist'[e] = mutexlist[e]
      /\ currprio'[Me] = old /\ \A e \in Exe \ {Me} : currprio'[e] = currprio[e]
  BY <1>1 DEF TypeOK
<1>6. /\ owner' \in [Mutex -> Exe \union {None}]
      /\ mutexlist' \in [Exe -> Mutex \union {None}]
      /\ next' \in [Mutex -> Mutex \union {None}]
      /\ currprio' \in [Exe -> 0 .. MaxPrio + 1]
  <2>1. next[m] \in Mutex \union {None}
    BY <1>1 DEF TypeOK
  <2>2. old \in 0 .. MaxPrio + 1
    BY <1>3
  <2> QED
    BY <1>1, <2>1, <2>2 DEF TypeOK
<1>7. queue' \in [Prio -> Seq(Exe)]
  <2>1. CASE saveprio[m] < Ceiling[m]
    <3>1. queue[Ceiling[m]] # <<>> /\ Ceiling[m] \in Prio
      BY <1>1, <2>1 DEF IsHead
    <3>2. Dequeue(queue, Ceiling[m]) \in [Prio -> Seq(Exe)]
      BY <1>1, <3>1, DequeueType DEF IndInv, TypeOK
    <3> QED
      BY <1>1, <2>1, <3>2
  <2> QED
    BY <1>1, <2>1
\* No other mutex of the list leads to m.
<1>8. ASSUME NEW k \in Mutex, owner[k] # None, k # m
      PROVE  /\ next[k] # m
             /\ next[k] # None => next[k] \in Mutex \ {m}
  <2>1. next[k] = m => owner[k] = Me /\ r[m] < r[k]
    BY <1>1, <1>8 DEF IndInv, ListInv, ListNext
  <2>2. next[k] # m
    BY <1>2, <1>8, <2>1
  <2> QED
    BY <1>1, <2>2 DEF TypeOK
<1>9. \A e \in Exe \ {Me} : mutexlist[e] # None => mutexlist[e] \in Mutex \ {m}
  BY <1>1, ListFacts
<1>10. ListHead(r)'
  <2> SUFFICES ASSUME NEW e \in Exe
               PROVE  IF mutexlist'[e] = None
                      THEN \A k \in Mutex : owner'[k] # e
                      ELSE /\ owner'[mutexlist'[e]] = e
                           /\ \A k \in Mutex : owner'[k] = e /\ k # mutexlist'[e]
                                => r[k] < r[mutexlist'[e]]
    BY DEF ListHead
  <2>1. CASE e = Me
    <3>1. mutexlist'[e] = next[m]
      BY <1>5, <2>1
    <3>2. \A k \in Mutex : owner'[k] = e => owner[k] = Me /\ k # m
      BY <1>1, <1>5, <2>1
    <3>3. CASE next[m] = None
      BY <1>4, <3>1, <3>2, <3>3
    <3>4. CASE next[m] # None
      <4>1. owner'[next[m]] = e
        BY <1>4, <1>5, <2>1, <3>4
      <4> QED
        BY <1>4, <3>1, <3>2, <3>4, <4>1
    <3> QED
      BY <3>3, <3>4
  <2>2. CASE e # Me
    <3>1. mutexlist'[e] = mutexlist[e]
      BY <1>5, <2>2
    <3>2. \A k \in Mutex : owner'[k] = e => owner[k] = e
      BY <1>1, <1>5
    <3>3. CASE mutexlist[e] = None
      BY <3>1, <3>2, <3>3, ListFacts
    <3>4. CASE mutexlist[e] # None
      <4>1. mutexlist[e] \in Mutex \ {m} /\ owner[mutexlist[e]] = e
        BY <1>9, <2>2, <3>4, ListFacts
      <4>2. \A k \in Mutex : owner[k] = e /\ k # mutexlist[e] => r[k] < r[mutexlist[e]]
        BY <3>4, ListFacts
      <4>3. owner'[mutexlist[e]] = e
        BY <1>5, <4>1
      <4> QED
        BY <3>1, <3>2, <3>4, <4>2, <4>3
    <3> QED
      BY <3>3, <3>4
  <2> QED
    BY <2>1, <2>2
<1>11. ListNext(r)'
  <2> SUFFICES ASSUME NEW k \in Mutex, owner'[k] # None
               PROVE  IF next'[k] = None
                      THEN /\ saveprio'[k] = RunPrio[owner'[k]]
                           /\ \A j \in Mutex : owner'[j] = owner'[k] /\ j # k => r[k] < r[j]
                      ELSE /\ owner'[next'[k]] = owner'[k]
                           /\ r[next'[k]] < r[k]
                           /\ saveprio'[k] = TakenPrio(next[k])'
                           /\ \A j \in Mutex : owner'[j] = owner'[k] /\ j # k /\ j # next'[k]
                                => r[j] < r[next'[k]] \/ r[k] < r[j]
    BY DEF ListNext
  <2>1. /\ k # m /\ owner[k] # None /\ owner'[k] = owner[k] /\ next'[k] = next[k]
        /\ next[k] # None => next[k] \in Mutex \ {m} /\ owner'[next[k]] = owner[next[k]]
    BY <1>5, <1>8
  <2>2. \A j \in Mutex : owner'[j] = owner'[k] => owner[j] = owner[k]
    BY <1>5, <2>1
  <2>3. next[k] # None => TakenPrio(next[k])' = TakenPrio(next[k])
    BY <2>1 DEF TakenPrio
  <2>4. IF next[k] = None
        THEN /\ saveprio[k] = RunPrio[owner[k]]
             /\ \A j \in Mutex : owner[j] = owner[k] /\ j # k => r[k] < r[j]
        ELSE /\ owner[next[k]] = owner[k]
             /\ r[next[k]] < r[k]
             /\ saveprio[k] = TakenPrio(next[k])
             /\ \A j \in Mutex : owner[j] = owner[k] /\ j # k /\ j # next[k]
                  => r[j] < r[next[k]] \/ r[k] < r[j]
    BY <2>1 DEF IndInv, ListInv, ListNext
  <2> QED
    BY <2>1, <2>2, <2>3, <2>4
<1>12. ListPrios(r)'
  <2> SUFFICES ASSUME NEW k \in Mutex, owner'[k] # None
               PROVE  /\ saveprio'[k] >= RunPrio[owner'[k]]
                      /\ \A j \in Mutex : owner'[j] = owner'[k] /\ r[j] < r[k]
                           => TakenPrio(j)' <= saveprio'[k]
    BY DEF ListPrios
  <2>1. k # m /\ owner[k] # None /\ owner'[k] = owner[k]
    BY <1>5
  <2>2. /\ saveprio[k] >= RunPrio[owner[k]]
        /\ \A j \in Mutex : owner[j] = owner[k] /\ r[j] < r[k] => TakenPrio(j) <= saveprio[k]
    BY <2>1 DEF IndInv, ListInv, ListPrios
  <2>3. \A j \in Mutex : TakenPrio(j)' = TakenPrio(j)
    BY DEF TakenPrio
  <2>4. \A j \in Mutex : owner'[j] = owner'[k] => owner[j] = owner[k]
    BY <1>5, <2>1
  <2> QED
    BY <2>1, <2>2, <2>3, <2>4
<1>13. Prios'
  <2> SUFFICES ASSUME NEW e \in Exe
               PROVE  /\ ~Live(e) => mutexlist'[e] = None /\ currprio'[e] = BasePrio[e]
                      /\ Live(e) => currprio'[e] = IF mutexlist'[e] = None THEN RunPrio[e]
                                                   ELSE TakenPrio(mutexlist[e])'
    BY DEF Prios, Live, OwnPrio
  <2>1. CASE e = Me
    <3>1. next[m] # None => TakenPrio(mutexlist[e])' = TakenPrio(next[m])
      BY <1>5, <2>1 DEF TakenPrio
    <3> QED
      BY <1>2, <1>4, <1>5, <2>1, <3>1
  <2>2. CASE e # Me
    <3>1. mutexlist'[e] = mutexlist[e] /\ currprio'[e] = currprio[e]
      BY <1>5, <2>2
    <3>2. OwnPrio(e) = currprio[e]
      BY DEF OwnPrio
    <3>3. TakenPrio(mutexlist[e])' = TakenPrio(mutexlist[e])
      BY <3>1 DEF TakenPrio
    <3> QED
      BY <3>1, <3>2, <3>3 DEF IndInv, Prios
  <2> QED
    BY <2>1, <2>2
<1>14. Entries'
  <2>1. \A q \in Prio : \/ queue'[q] = queue[q]
                        \/ queue[q] # <<>> /\ queue'[q] = Tail(queue[q])
    BY <1>1 DEF IsHead, Dequeue
  <2>2. ASSUME NEW x \in Exe, NEW q \in Prio, Reason(x, q)
        PROVE  \/ Reason(x, q)'
               \/ queue[q] # <<>> /\ queue'[q] = Tail(queue[q]) /\ Head(queue[q]) = x
    <3>1. Live(x)'
      BY <2>2 DEF Reason, Live
    <3>2. CASE q = RunPrio[x]
      BY <3>1, <3>2 DEF Reason
    <3>3. CASE \E k \in Mutex : owner[k] = x /\ saveprio[k] < Ceiling[k] /\ Ceiling[k] = q
      <4>1. PICK k \in Mutex : owner[k] = x /\ saveprio[k] < Ceiling[k] /\ Ceiling[k] = q
        BY <3>3
      <4>2. CASE k # m
        BY <1>5, <3>1, <4>1, <4>2 DEF Reason
      <4>3. CASE k = m
        BY <1>1, <4>1, <4>3 DEF IsHead, Dequeue
      <4> QED
        BY <4>2, <4>3
    <3> QED
      BY <2>2, <3>2, <3>3 DEF Reason
  <2> QED
    BY <1>1, <2>1, <2>2, EntriesDequeue DEF IndInv
<1> QED
  BY <1>3, <1>6, <1>7, <1>10, <1>11, <1>12, <1>13, <1>14 DEF ListInv

\* The last drop: the rest of dv_dropmutex(), including its call of dv_runqueued().
LEMMA DropLastStep ==
  ASSUME NEW r \in [Mutex -> Nat], IndInv(r), pc = "app",
         NEW m \in Mutex, mutexlist[Me] = m, DropLast(m)
  PROVE  IndInv(r)'
<1> DEFINE c == Ceiling[m]
           old == saveprio[m]
           lowers == old < c
<1>1. CASE lowers /\ ~IsHead(queue, c, Me)
  BY <1>1, PanicStep DEF DropLast, Panics
<1> SUFFICES ASSUME lowers => IsHead(queue, c, Me)
             PROVE  IndInv(r)'
  BY <1>1
<1>2. /\ ntake'     = [ntake EXCEPT ![m] = 0]
      /\ owner'     = [owner EXCEPT ![m] = None]
      /\ mutexlist' = [mutexlist EXCEPT ![Me] = next[m]]
      /\ next'      = [next EXCEPT ![m] = None]
      /\ currprio'  = [currprio EXCEPT ![Me] = old]
      /\ IF lowers
         THEN /\ irqlevel' = Level(old)
              /\ queue'    = Dequeue(queue, c)
              /\ RunQueued(c, old, "app")
         ELSE UNCHANGED <<irqlevel, queue, frames, pc>>
      /\ UNCHANGED <<nact, state, jb, saveprio, currentexe, pending, panic>>
  BY DEF DropLast
<1>3. TypeOK /\ Me \in Exe /\ Me' = Me /\ c \in 0 .. MaxPrio - 1 /\ frames \in Seq(FrameType)
  BY <1>2 DEF IndInv, TypeOK, Me
<1>4. pc' \in {"app", "sched"}
  BY <1>2 DEF RunQueued
<1>5. /\ ListInv(r)' /\ Prios' /\ Entries'
      /\ queue' \in [Prio -> Seq(Exe)]
      /\ owner' \in [Mutex -> Exe \union {None}]
      /\ mutexlist' \in [Exe -> Mutex \union {None}]
      /\ next' \in [Mutex -> Mutex \union {None}]
      /\ currprio' \in [Exe -> 0 .. MaxPrio + 1]
      /\ old \in 0 .. MaxPrio - 1 /\ old >= BasePrio[Me]
  BY <1>2, <1>4, DropHead
<1>6. currprio'[Me] = old /\ \A e \in Exe \ {Me} : currprio'[e] = currprio[e]
  BY <1>2, <1>3 DEF TypeOK
<1>7. irqlevel' \in Nat
  <2>1. old \in Prio
    BY <1>5
  <2>2. Level(old) \in Nat /\ irqlevel \in Nat
    BY <1>3, <2>1, LevelType DEF TypeOK
  <2> QED
    BY <1>2, <2>2
<1>8. CASE lowers
  <2> DEFINE f == Frame(c, old, "app", FALSE)
  <2>1. frames' = Append(frames, f) /\ pc' = "sched"
    <3>1. c > old
      BY <1>3, <1>5, <1>8
    <3> QED
      BY <1>2, <1>8, <3>1 DEF RunQueued
  <2>2. /\ f \in FrameType /\ f.exe = Me /\ f.e = None /\ f.low = old /\ f.ret = "app"
    BY <1>3, <1>5 DEF Frame, FrameType, Me
  <2> HIDE DEF f
  <2>3. frames' \in Seq(FrameType)
    BY <1>3, <2>1, <2>2
  <2>4. FrameInv'
    <3>1. currprio' \in [Exe -> Int]
      BY <1>5
    <3>2. f.low >= BasePrio[Me] /\ f.low = currprio'[Me]
      BY <1>5, <1>6, <2>2
    <3> QED
      BY <1>2, <1>6, <2>1, <2>2, <3>1, <3>2, PushFrame
  <2>5. TypeOK'
    <3>1. ntake' \in [Mutex -> Nat]
      BY <1>2, <1>3 DEF TypeOK
    <3> QED
      BY <1>2, <1>3, <1>5, <1>7, <2>1, <2>3, <3>1 DEF TypeOK
  <2> QED
    BY <1>5, <2>4, <2>5 DEF IndInv
<1>9. CASE ~lowers
  <2>1. frames' = frames /\ pc' = pc
    BY <1>2, <1>9
  <2>2. FrameInv'
    <3>1. ASSUME NEW i \in 1 .. Len(frames), NEW e, e = frames[i].exe
          PROVE  OwnPrio(e)' = OwnPrio(e)
      <4>1. e \in Exe \ {Me}
        BY <3>1, MeOnTop, CallersLive
      <4> QED
        BY <1>6, <2>1, <4>1 DEF OwnPrio
    <3> QED
      BY <1>2, <2>1, <3>1, KeepFrames
  <2>3. TypeOK'
    <3>1. ntake' \in [Mutex -> Nat]
      BY <1>2, <1>3 DEF TypeOK
    <3> QED
      BY <1>2, <1>3, <1>5, <1>7, <2>1, <3>1 DEF TypeOK
  <2> QED
    BY <1>5, <2>2, <2>3 DEF IndInv
<1> QED
  BY <1>8, <1>9

LEMMA TakeMutexStep ==
  ASSUME NEW r \in [Mutex -> Nat], IndInv(r), NEW m \in Mutex, TakeMutex(m)
  PROVE  \E r2 \in [Mutex -> Nat] : IndInv(r2)'
<1>1. pc = "app"
  BY DEF TakeMutex
<1>2. owner[m] = Me \/ owner[m] = None \/ (owner[m] # Me /\ owner[m] # None)
  OBVIOUS
<1>3. Me \in Exe /\ None \notin Exe /\ ntake \in [Mutex -> Nat]
  BY DEF IndInv, TypeOK, Me
<1>4. CASE owner[m] = Me
  <2>1. TakeAgain(m)
    BY <1>3, <1>4 DEF TakeMutex
  <2>2. ntake' \in [Mutex -> Nat]
    <3>1. ntake[m] + 1 \in Nat
      BY <1>3
    <3> QED
      BY <1>3, <2>1, <3>1 DEF TakeAgain
  <2> QED
    BY <2>1, <2>2, CountStep DEF TakeAgain
<1>5. CASE owner[m] = None
  <2>1. TakeFree(m)
    BY <1>3, <1>5 DEF TakeMutex
  <2> QED
    BY <1>1, <1>5, <2>1, TakeFreeStep
<1>6. CASE owner[m] # Me /\ owner[m] # None
  <2>1. Panic("MutexOccupied")
    BY <1>6 DEF TakeMutex
  <2> QED
    BY <2>1, PanicStep DEF Panics
<1> QED
  BY <1>4, <1>5, <1>6

LEMMA DropMutexStep ==
  ASSUME Lifo, NEW r \in [Mutex -> Nat], IndInv(r), NEW m \in Mutex, DropMutex(m)
  PROVE  IndInv(r)'
<1>1. pc = "app" /\ (DropOnce(m) \/ DropLast(m))
  BY DEF DropMutex
<1>2. CASE DropOnce(m)
  <2>1. ntake' \in [Mutex -> Nat]
    <3>1. ntake \in [Mutex -> Nat]
      BY DEF IndInv, TypeOK
    <3>2. ntake[m] - 1 \in Nat
      BY <1>2, <3>1 DEF DropOnce
    <3> QED
      BY <1>2, <3>1, <3>2 DEF DropOnce
  <2> QED
    BY <1>2, <2>1, CountStep DEF DropOnce
<1>3. CASE DropLast(m)
  <2>1. mutexlist[Me] = m
    BY <1>3 DEF DropLast, Lifo
  <2> QED
    BY <1>1, <1>3, <2>1, DropLastStep
<1> QED
  BY <1>1, <1>2, <1>3

-----------------------------------------------------------------------------
(* The end of an executable                                                *)

LEMMA ReleaseMutexStep ==
  ASSUME NEW r \in [Mutex -> Nat], IndInv(r), ReleaseMutex
  PROVE  IndInv(r)'
<1> DEFINE m == mutexlist[Top.e]
<1>1. pc = "exit" /\ m # None
  BY DEF ReleaseMutex
<1>2. Me = Top.e
  BY <1>1, MeOnTop DEF IndInv, FrameInv, Current
<1>3. TypeOK /\ Me \in Exe /\ m \in Mutex /\ mutexlist[Me] = m
  BY <1>1, <1>2 DEF IndInv, TypeOK, Me
<1>4. CASE saveprio[m] < Ceiling[m] /\ ~IsHead(queue, Ceiling[m], Top.e)
  BY <1>4, PanicStep DEF ReleaseMutex, Panics
<1> SUFFICES ASSUME saveprio[m] < Ceiling[m] => IsHead(queue, Ceiling[m], Me)
             PROVE  IndInv(r)'
  BY <1>2, <1>4
<1>5. /\ mutexlist' = [mutexlist EXCEPT ![Me] = next[m]]
      /\ ntake'     = [ntake EXCEPT ![m] = 0]
      /\ owner'     = [owner EXCEPT ![m] = None]
      /\ next'      = [next EXCEPT ![m] = None]
      /\ currprio'  = [currprio EXCEPT ![Me] = saveprio[m]]
      /\ queue'     = IF saveprio[m] < Ceiling[m] THEN Dequeue(queue, Ceiling[m]) ELSE queue
      /\ UNCHANGED <<nact, state, jb, saveprio, currentexe, irqlevel, frames, pending,
                     pc, panic>>
  BY <1>2 DEF ReleaseMutex, cpuVars
<1> HIDE DEF m
<1>6. /\ ListInv(r)' /\ Prios' /\ Entries'
      /\ queue' \in [Prio -> Seq(Exe)]
      /\ owner' \in [Mutex -> Exe \union {None}]
      /\ mutexlist' \in [Exe -> Mutex \union {None}]
      /\ next' \in [Mutex -> Mutex \union {None}]
      /\ currprio' \in [Exe -> 0 .. MaxPrio + 1]
  <2>1. IF saveprio[m] < Ceiling[m]
        THEN IsHead(queue, Ceiling[m], Me) /\ queue' = Dequeue(queue, Ceiling[m])
        ELSE queue' = queue
    BY <1>5
  <2> QED
    BY <1>1, <1>3, <1>5, <2>1, DropHead
<1>7. TypeOK'
  <2>1. ntake' \in [Mutex -> Nat]
    BY <1>3, <1>5 DEF TypeOK
  <2> QED
    BY <1>3, <1>5, <1>6, <2>1 DEF TypeOK
<1>8. FrameInv'
  <2>1. ASSUME NEW i \in 1 .. Len(frames), NEW e, e = frames[i].exe
        PROVE  OwnPrio(e)' = OwnPrio(e)
    <3>1. e \in Exe \ {Me}
      BY <1>1, <2>1, MeOnTop, CallersLive
    <3>2. currprio'[e] = currprio[e]
      BY <1>3, <1>5, <3>1 DEF TypeOK
    <3> QED
      BY <1>1, <1>5, <3>2 DEF OwnPrio
  <2> QED
    BY <1>1, <1>5, <2>1, KeepFrames
<1> QED
  BY <1>6, <1>7, <1>8 DEF IndInv

LEMMA FinishExitStep ==
  ASSUME NEW r \in [Mutex -> Nat], IndInv(r), FinishExit
  PROVE  IndInv(r)'
<1> DEFINE q == AfterRunPrio(Me)
           n == Len(frames)
<1>1. pc = "exit"
  BY DEF FinishExit
<1>2. /\ TypeOK /\ Me \in Exe /\ Me # Idle /\ frames # <<>> /\ Me = Top.e
      /\ n \in Nat \ {0} /\ jb[Me] = n /\ Top.eprio = RunPrio[Me] /\ Top \in FrameType
      /\ RunPrio[Me] \in Prio /\ BasePrio[Me] \in Prio
  <2>1. TypeOK /\ Me \in Exe /\ Me # Idle
    BY <1>1 DEF IndInv, TypeOK, FrameInv, Current, Me
  <2>2. frames # <<>> /\ Me = Top.e /\ jb[Me] = n /\ Top.eprio = RunPrio[Me]
    BY <1>1, <2>1, MeOnTop
  <2>3. RunPrio[Me] \in 0 .. MaxPrio - 1 /\ BasePrio[Me] \in 0 .. MaxPrio - 1
    BY <2>1
  <2>4. RunPrio[Me] \in Prio /\ BasePrio[Me] \in Prio
    BY <2>3
  <2> QED
    BY <2>1, <2>2, <2>4, TopType
<1>3. CASE \/ Top.eprio # BasePrio[Me] /\ ~IsHead(queue, Top.eprio, Me)
           \/ ~IsHead(q, BasePrio[Me], Me)
  <2>1. Panic("QueueCorrupt")
    BY <1>2, <1>3 DEF FinishExit
  <2> QED
    BY <2>1, PanicStep DEF Panics
<1> SUFFICES ASSUME /\ Top.eprio # BasePrio[Me] => IsHead(queue, Top.eprio, Me)
                    /\ IsHead(q, BasePrio[Me], Me)
             PROVE  IndInv(r)'
  BY <1>3
<1>4. /\ mutexlist[Me] = None
      /\ queue'    = Dequeue(q, BasePrio[Me])
      /\ nact'     = [nact EXCEPT ![Me] = @ - 1]
      /\ state'    = StateEnded(Me)
      /\ currprio' = [currprio EXCEPT ![Me] = BasePrio[Me]]
      /\ jb'       = [jb EXCEPT ![Me] = 0]
      /\ pc'       = "sched"
      /\ UNCHANGED <<mutexlist, owner, ntake, next, saveprio, currentexe, irqlevel,
                     frames, pending, panic>>
  BY <1>2 DEF FinishExit, mutexVars
<1>5. /\ jb'[Me] = 0 /\ \A e \in Exe \ {Me} : jb'[e] = jb[e]
      /\ currprio'[Me] = BasePrio[Me] /\ \A e \in Exe \ {Me} : currprio'[e] = currprio[e]
  BY <1>2, <1>4 DEF TypeOK
\* The two queues that the executable leaves.
<1>6. /\ queue \in [Prio -> Seq(Exe)] /\ queue' \in [Prio -> Seq(Exe)]
      /\ \A p \in Prio : IF p = BasePrio[Me] \/ p = RunPrio[Me]
                         THEN /\ queue[p] # <<>> /\ Head(queue[p]) = Me
                              /\ queue'[p] = Tail(queue[p])
                         ELSE queue'[p] = queue[p]
  <2>1. queue \in [Prio -> Seq(Exe)]
    BY <1>2 DEF TypeOK
  <2>2. CASE RunPrio[Me] = BasePrio[Me]
    <3>1. q = queue
      BY <1>2, <2>2 DEF AfterRunPrio
    <3>2. queue[BasePrio[Me]] # <<>> /\ Head(queue[BasePrio[Me]]) = Me
      BY <3>1 DEF IsHead
    <3>3. /\ Dequeue(queue, BasePrio[Me]) \in [Prio -> Seq(Exe)]
          /\ Dequeue(queue, BasePrio[Me])[BasePrio[Me]] = Tail(queue[BasePrio[Me]])
          /\ \A p \in Prio \ {BasePrio[Me]} : Dequeue(queue, BasePrio[Me])[p] = queue[p]
      BY <1>2, <2>1, <3>2, DequeueType
    <3>4. queue' = Dequeue(queue, BasePrio[Me])
      BY <1>4, <3>1
    <3> HIDE DEF q
    <3> QED
      BY <2>1, <2>2, <3>2, <3>3, <3>4
  <2>3. CASE RunPrio[Me] # BasePrio[Me]
    <3>1. q = Dequeue(queue, RunPrio[Me])
      BY <1>2, <2>3 DEF AfterRunPrio
    <3>2. queue[RunPrio[Me]] # <<>> /\ Head(queue[RunPrio[Me]]) = Me
      BY <1>2, <2>3 DEF IsHead
    <3>3. /\ q \in [Prio -> Seq(Exe)] /\ q[RunPrio[Me]] = Tail(queue[RunPrio[Me]])
          /\ \A p \in Prio \ {RunPrio[Me]} : q[p] = queue[p]
      <4>1. /\ Dequeue(queue, RunPrio[Me]) \in [Prio -> Seq(Exe)]
            /\ Dequeue(queue, RunPrio[Me])[RunPrio[Me]] = Tail(queue[RunPrio[Me]])
            /\ \A p \in Prio \ {RunPrio[Me]} : Dequeue(queue, RunPrio[Me])[p] = queue[p]
        BY <1>2, <2>1, <3>2, DequeueType
      <4> HIDE DEF q
      <4> QED
        BY <3>1, <4>1
    <3>4. q[BasePrio[Me]] # <<>> /\ Head(q[BasePrio[Me]]) = Me
      BY DEF IsHead
    <3> HIDE DEF q
    <3>5. /\ queue' = [q EXCEPT ![BasePrio[Me]] = Tail(q[BasePrio[Me]])]
      BY <1>4 DEF Dequeue
    <3>6. queue' \in [Prio -> Seq(Exe)]
      <4>1. Tail(q[BasePrio[Me]]) \in Seq(Exe)
        BY <1>2, <3>3, <3>4
      <4> QED
        BY <3>3, <3>5, <4>1
    <3>7. /\ queue'[BasePrio[Me]] = Tail(q[BasePrio[Me]])
          /\ \A p \in Prio \ {BasePrio[Me]} : queue'[p] = q[p]
      BY <1>2, <3>3, <3>5
    <3>8. ASSUME NEW p \in Prio
          PROVE  IF p = BasePrio[Me] \/ p = RunPrio[Me]
                 THEN /\ queue[p] # <<>> /\ Head(queue[p]) = Me
                      /\ queue'[p] = Tail(queue[p])
                 ELSE queue'[p] = queue[p]
      <4>1. CASE p = BasePrio[Me]
        <5>1. q[p] = queue[p]
          BY <2>3, <3>3, <4>1
        <5> QED
          BY <3>4, <3>7, <4>1, <5>1
      <4>2. CASE p = RunPrio[Me]
        <5>1. queue'[p] = q[p]
          BY <2>3, <3>7, <4>2
        <5> QED
          BY <3>2, <3>3, <4>2, <5>1
      <4>3. CASE p # BasePrio[Me] /\ p # RunPrio[Me]
        <5>1. queue'[p] = q[p]
          BY <3>7, <4>3
        <5>2. q[p] = queue[p]
          BY <3>3, <4>3
        <5> QED
          BY <4>3, <5>1, <5>2
      <4> QED
        BY <4>1, <4>2, <4>3
    <3> QED
      BY <2>1, <3>6, <3>8
  <2> QED
    BY <2>2, <2>3
<1>7. TypeOK'
  <2>1. nact' \in [Exe -> Int]
    <3>1. nact \in [Exe -> Int]
      BY <1>2 DEF TypeOK
    <3>2. nact[Me] - 1 \in Int
      BY <1>2, <3>1
    <3> QED
      BY <1>4, <3>1, <3>2
  <2>2. state' \in [Exe -> {"suspended", "ready", "running"}]
    BY <1>2, <1>4 DEF StateEnded, TypeOK
  <2>3. currprio' \in [Exe -> 0 .. MaxPrio + 1] /\ jb' \in [Exe -> Nat]
    <3>1. BasePrio[Me] \in 0 .. MaxPrio + 1
      BY <1>2
    <3> QED
      BY <1>2, <1>4, <3>1 DEF TypeOK
  <2> QED
    BY <1>2, <1>4, <1>6, <2>1, <2>2, <2>3 DEF TypeOK
<1>8. \A i : Occupied(i)' <=> Occupied(i) /\ i # n
  BY <1>1, <1>2, <1>4 DEF Occupied
<1>9. \A i \in 1 .. n : frames[i].exe \in Exe \ {Me}
  BY <1>1, MeOnTop, CallersLive
<1>10. FrameInv'
  <2> USE DEF IndInv, FrameInv
  <2>1. Chain'
    BY <1>4 DEF Chain
  <2>2. Lows'
    <3> SUFFICES ASSUME NEW i \in 1 .. n
                 PROVE  /\ frames[i].low = OwnPrio(frames[i].exe)'
                        /\ frames[i].low >= i - 1
                        /\ \A j \in 1 .. n : i < j => frames[i].low < frames[j].low
      BY <1>4 DEF Lows
    <3>1. frames[i].low = OwnPrio(frames[i].exe)
      BY DEF Lows
    <3>2. OwnPrio(frames[i].exe)' = OwnPrio(frames[i].exe)
      BY <1>1, <1>4, <1>5, <1>9 DEF OwnPrio
    <3> QED
      BY <3>1, <3>2 DEF Lows
  <2>3. Started'
    <3> SUFFICES ASSUME NEW i \in 1 .. n, Occupied(i), i # n
                 PROVE  /\ frames[i].e \in Exe
                        /\ frames[i].p = BasePrio[frames[i].e]
                        /\ frames[i].p > frames[i].low
                        /\ frames[i].eprio = RunPrio[frames[i].e]
                        /\ jb'[frames[i].e] = i
      BY <1>4, <1>8 DEF Started
    <3>1. /\ frames[i].e \in Exe
          /\ frames[i].p = BasePrio[frames[i].e]
          /\ frames[i].p > frames[i].low
          /\ frames[i].eprio = RunPrio[frames[i].e]
          /\ jb[frames[i].e] = i
      BY DEF Started
    <3>2. frames[i].e # Me
      BY <1>2, <3>1
    <3> QED
      BY <1>5, <3>1, <3>2
  <2>4. Anchors'
    <3> SUFFICES ASSUME NEW e \in Exe, jb'[e] # 0
                 PROVE  Occupied(jb[e])' /\ frames'[jb'[e]].e = e
      BY DEF Anchors
    <3>1. e # Me /\ jb'[e] = jb[e]
      BY <1>5
    <3>2. Occupied(jb[e]) /\ frames[jb[e]].e = e
      BY <3>1 DEF Anchors
    <3>3. jb[e] # n
      BY <1>2, <3>1, <3>2 DEF Top
    <3>4. Occupied(jb[e])'
      BY <1>1, <1>2, <1>4, <3>1, <3>2, <3>3 DEF Occupied
    <3> QED
      BY <1>4, <3>1, <3>2, <3>4
  <2>5. Current'
    <3>1. ~Live(Me)'
      BY <1>2, <1>4, <1>5 DEF Live, Me
    <3> QED
      BY <1>2, <1>4, <3>1 DEF Current
  <2> QED
    BY <2>1, <2>2, <2>3, <2>4, <2>5
<1>11. ListInv(r)'
  BY <1>4 DEF IndInv, ListInv, ListHead, ListNext, ListPrios, TakenPrio
<1>12. Prios'
  <2> SUFFICES ASSUME NEW e \in Exe
               PROVE  /\ ~Live(e)' => mutexlist[e] = None /\ currprio'[e] = BasePrio[e]
                      /\ Live(e)' => currprio'[e] = IF mutexlist[e] = None THEN RunPrio[e]
                                                    ELSE TakenPrio(mutexlist[e])
    BY <1>4 DEF Prios, OwnPrio, TakenPrio
  <2>1. CASE e = Me
    BY <1>2, <1>4, <1>5, <2>1 DEF Live
  <2>2. CASE e # Me
    <3>1. Live(e)' <=> Live(e)
      BY <1>5, <2>2 DEF Live
    <3>2. OwnPrio(e) = currprio[e] /\ currprio'[e] = currprio[e]
      BY <1>1, <1>5, <2>2 DEF OwnPrio
    <3> QED
      BY <3>1, <3>2 DEF IndInv, Prios
  <2> QED
    BY <2>1, <2>2
<1>13. Entries'
  <2>1. \A p \in Prio : \/ queue'[p] = queue[p]
                        \/ queue[p] # <<>> /\ queue'[p] = Tail(queue[p])
    BY <1>6
  <2>2. ASSUME NEW x \in Exe, NEW p \in Prio, Reason(x, p)
        PROVE  \/ Reason(x, p)'
               \/ queue[p] # <<>> /\ queue'[p] = Tail(queue[p]) /\ Head(queue[p]) = x
    <3>1. CASE x = Me
      <4>1. \A k \in Mutex : owner[k] # Me
        BY <1>2, <1>4, ListFacts
      <4>2. p = RunPrio[Me]
        BY <1>1, <2>2, <3>1, <4>1 DEF Reason
      <4> QED
        BY <1>6, <3>1, <4>2
    <3>2. CASE x # Me
      <4>1. Live(x)'
        BY <1>5, <2>2, <3>2 DEF Reason, Live
      <4> QED
        BY <1>1, <1>4, <2>2, <4>1 DEF Reason
    <3> QED
      BY <3>1, <3>2
  <2> QED
    BY <1>2, <2>1, <2>2, EntriesDequeue DEF IndInv
<1> QED
  BY <1>7, <1>10, <1>11, <1>12, <1>13 DEF IndInv

-----------------------------------------------------------------------------
(* The loop of dv_runqueued()                                              *)

\* What a live executable may run at is bounded by the newest frame's low when
\* the kernel looks for the next executable to start.
LEMMA LiveBelow ==
  ASSUME NEW r, IndInv(r), pc = "sched", NEW e \in Exe, Live(e), e # Idle \/ Len(frames) > 0
  PROVE  OwnPrio(e) <= Top.low
<1> USE DEF IndInv, FrameInv
<1> DEFINE n == Len(frames)
<1>1. frames # <<>> /\ n \in Nat \ {0} /\ Top = frames[n]
      /\ \A i \in 1 .. n : frames[i].low \in Int
  <2>1. frames # <<>>
    BY DEF Current
  <2>2. n \in Nat \ {0} /\ Top = frames[n]
    BY <2>1, TopType
  <2>3. \A i \in 1 .. n : frames[i] \in FrameType
    BY DEF TypeOK
  <2>4. \A i \in 1 .. n : frames[i].low \in Int
    BY <2>3 DEF FrameType
  <2> QED
    BY <2>1, <2>2, <2>4
<1>2. ASSUME NEW i \in 1 .. n, frames[i].exe = e PROVE OwnPrio(e) <= Top.low
  <2>1. frames[i].low = OwnPrio(e)
    BY <1>2 DEF Lows
  <2>2. i < n => frames[i].low < frames[n].low
    BY <1>1 DEF Lows
  <2> QED
    BY <1>1, <2>1, <2>2
<1>3. CASE e = Idle
  <2>1. 1 \in 1 .. n /\ frames[1].exe = Idle
    BY <1>1 DEF Chain
  <2> QED
    BY <1>2, <1>3, <2>1
<1>4. CASE e # Idle
  <2>1. Occupied(jb[e]) /\ frames[jb[e]].e = e
    BY <1>4 DEF Live, Anchors
  <2>2. jb[e] \in 1 .. n - 1
    BY <1>1, <2>1 DEF Occupied
  <2>3. frames[jb[e] + 1].exe = e /\ jb[e] + 1 \in 1 .. n
    <3>1. jb[e] + 1 \in 1 .. n /\ jb[e] + 1 > 1 /\ (jb[e] + 1) - 1 = jb[e]
      BY <1>1, <2>2
    <3>2. frames[jb[e] + 1].exe = frames[(jb[e] + 1) - 1].e
      BY <3>1 DEF Chain
    <3> QED
      BY <2>1, <3>1, <3>2
  <2> QED
    BY <1>2, <2>3
<1> QED
  BY <1>3, <1>4

\* The executable that the kernel starts is not live, so that it has been found
\* in the queue of its base priority.
LEMMA StartedFresh ==
  ASSUME NEW r \in [Mutex -> Nat], IndInv(r), pc = "sched", NEW p \in Waiting
  PROVE  /\ p \in 1 .. MaxPrio - 1 /\ p > Top.low
         /\ Head(queue[p]) \in Exe
         /\ Head(queue[p]) # Idle
         /\ ~Live(Head(queue[p]))
         /\ BasePrio[Head(queue[p])] = p
<1> DEFINE e == Head(queue[p])
<1>1. frames # <<>> /\ Top \in FrameType /\ Top.low \in Nat /\ Top.p \in 0 .. MaxPrio
  <2>1. frames # <<>>
    BY DEF IndInv, FrameInv, Current
  <2>2. Top \in FrameType
    BY <2>1, TopType DEF IndInv
  <2> QED
    BY <2>1, <2>2 DEF FrameType
<1>2. p \in 1 .. MaxPrio /\ p > Top.low /\ queue[p] # <<>>
  BY <1>1 DEF Waiting
<1>3. p # MaxPrio
  BY <1>2, HighestEmpty
<1>4. p \in 1 .. MaxPrio - 1 /\ p \in Prio /\ queue[p] \in Seq(Exe)
  <2>1. p \in 1 .. MaxPrio - 1 /\ p \in Prio
    BY <1>2, <1>3
  <2> QED
    BY <2>1 DEF IndInv, TypeOK
<1>5. e \in Exe /\ e = queue[p][1] /\ 1 \in 1 .. Len(queue[p])
  BY <1>2, <1>4
<1> HIDE DEF e
<1>6. ASSUME Live(e) PROVE OwnPrio(e) <= Top.low /\ OwnPrio(e) \in Int
                           /\ BasePrio[e] <= OwnPrio(e) /\ BasePrio[e] \in Int
  <2>1. OwnPrio(e) <= Top.low
    <3>1. Len(frames) > 0
      BY <1>1, TopType DEF IndInv
    <3> QED
      BY <1>5, <1>6, <3>1, LiveBelow
  <2>2. OwnPrio(e) \in RunPrio[e] .. MaxPrio - 1 /\ OwnPrio(e) >= BasePrio[e]
    BY <1>5, <1>6, OwnPrioBounds
  <2> QED
    BY <1>5, <2>1, <2>2
<1>7. BasePrio[e] = p
  <2> SUFFICES ASSUME BasePrio[e] # p PROVE FALSE
    OBVIOUS
  <2>1. Reason(e, p)
    BY <1>4, <1>5 DEF IndInv, Entries
  <2>2. Live(e) /\ p <= OwnPrio(e)
    BY <1>4, <1>5, <2>1, ReasonBelow
  <2> QED
    BY <1>1, <1>2, <1>6, <2>2
<1>8. ~Live(e)
  BY <1>1, <1>2, <1>6, <1>7
<1>9. e # Idle
  BY <1>8 DEF Live
<1> QED
  BY <1>2, <1>4, <1>5, <1>7, <1>8, <1>9 DEF e

LEMMA StartStep ==
  ASSUME NEW r \in [Mutex -> Nat], IndInv(r), pc = "sched", NEW p \in Waiting,
         Start(p, Head(queue[p]))
  PROVE  IndInv(r)'
<1> DEFINE n == Len(frames)
<1>1. PICK e \in Exe : e = Head(queue[p])
  BY StartedFresh
<1>2. p \in 1 .. MaxPrio - 1 /\ p > Top.low /\ e # Idle /\ ~Live(e) /\ BasePrio[e] = p
  BY <1>1, StartedFresh
<1>3. CASE BasePrio[e] < RunPrio[e] /\ Full(queue, RunPrio[e])
  BY <1>1, <1>3, PanicStep DEF Start, Panics
<1> SUFFICES ASSUME ~(BasePrio[e] < RunPrio[e] /\ Full(queue, RunPrio[e]))
             PROVE  IndInv(r)'
  BY <1>3
<1>4. /\ frames'     = [frames EXCEPT ![n].p = p, ![n].e = e, ![n].eprio = RunPrio[e]]
      /\ queue'      = QueueStarted(e)
      /\ state'      = StateStarted(e)
      /\ currentexe' = e
      /\ currprio'   = [currprio EXCEPT ![e] = RunPrio[e]]
      /\ jb'         = [jb EXCEPT ![e] = n]
      /\ irqlevel'   = Level(RunPrio[e])
      /\ pc'         = "app"
      /\ UNCHANGED <<nact, mutexlist, owner, ntake, next, saveprio, pending, panic>>
  BY <1>1 DEF Start, mutexVars
<1>5. /\ TypeOK /\ frames # <<>> /\ n \in Nat \ {0} /\ Top = frames[n] /\ Top \in FrameType
      /\ frames \in Seq(FrameType) /\ frames \in [1 .. n -> FrameType]
  <2>1. TypeOK /\ frames # <<>>
    BY DEF IndInv, FrameInv, Current
  <2>2. frames \in Seq(FrameType)
    BY <2>1 DEF TypeOK
  <2> QED
    BY <2>1, <2>2, TopType
<1>6. RunPrio[e] \in 0 .. MaxPrio - 1 /\ RunPrio[e] \in Prio /\ BasePrio[e] \in 0 .. MaxPrio - 1
  <2>1. RunPrio[e] \in 0 .. MaxPrio - 1 /\ BasePrio[e] \in 0 .. MaxPrio - 1
    OBVIOUS
  <2> QED
    BY <2>1
<1>7. /\ jb'[e] = n /\ \A x \in Exe \ {e} : jb'[x] = jb[x]
      /\ currprio'[e] = RunPrio[e] /\ \A x \in Exe \ {e} : currprio'[x] = currprio[x]
      /\ jb' \in [Exe -> Nat] /\ currprio' \in [Exe -> 0 .. MaxPrio + 1]
  <2>1. jb \in [Exe -> Nat] /\ currprio \in [Exe -> 0 .. MaxPrio + 1]
    BY <1>5 DEF TypeOK
  <2>2. RunPrio[e] \in 0 .. MaxPrio + 1
    BY <1>6
  <2> QED
    BY <1>4, <1>5, <2>1, <2>2
<1>8. PICK f \in FrameType :
        /\ frames' = [frames EXCEPT ![n] = f]
        /\ f.exe = frames[n].exe /\ f.low = frames[n].low /\ f.ret = frames[n].ret
        /\ f.p = p /\ f.e = e /\ f.eprio = RunPrio[e]
  <2> DEFINE g == [frames[n] EXCEPT !.p = p, !.e = e, !.eprio = RunPrio[e]]
  <2>1. frames' = [frames EXCEPT ![n] = g]
    BY <1>4, <1>5
  <2>2. p \in 0 .. MaxPrio
    BY <1>2
  <2>3. g \in FrameType
    BY <1>5, <1>6, <2>2 DEF FrameType
  <2>4. /\ g.exe = frames[n].exe /\ g.low = frames[n].low /\ g.ret = frames[n].ret
        /\ g.p = p /\ g.e = e /\ g.eprio = RunPrio[e]
    BY <1>5 DEF FrameType
  <2> QED
    BY <2>1, <2>3, <2>4
<1>9. /\ frames' \in Seq(FrameType) /\ Len(frames') = n
      /\ frames'[n] = f /\ \A i \in 1 .. n : i # n => frames'[i] = frames[i]
      /\ \A i \in 1 .. n : /\ frames'[i].exe = frames[i].exe
                           /\ frames'[i].low = frames[i].low
                           /\ frames'[i].ret = frames[i].ret
  <2>1. frames' \in Seq(FrameType) /\ Len(frames') = n
    BY <1>5, <1>8
  <2>2. frames'[n] = f /\ \A i \in 1 .. n : i # n => frames'[i] = frames[i]
    BY <1>5, <1>8
  <2> QED
    BY <1>8, <2>1, <2>2
<1>10. \A i : Occupied(i)' <=> (i \in 1 .. n)
  BY <1>4, <1>5, <1>9 DEF Occupied
<1>11. \A i : i \in 1 .. n /\ i # n => Occupied(i) /\ frames[i].e \in Exe \ {e}
  <2> SUFFICES ASSUME NEW i \in 1 .. n, i # n PROVE Occupied(i) /\ frames[i].e \in Exe \ {e}
    OBVIOUS
  <2>1. Occupied(i)
    BY <1>5 DEF Occupied
  <2>2. frames[i].e \in Exe /\ jb[frames[i].e] = i
    BY <2>1 DEF IndInv, FrameInv, Started
  <2> QED
    BY <1>2, <2>1, <2>2 DEF Live
<1>12. \A i \in 1 .. n : frames[i].exe \in Exe \ {e}
  BY <1>2, CallersLive
<1>13. FrameInv'
  <2> USE DEF IndInv, FrameInv
  <2>1. Chain'
    <3> SUFFICES ASSUME NEW i \in 1 .. n
                 PROVE  /\ i = 1 => frames'[i].exe = Idle
                        /\ i > 1 => frames'[i].exe = frames'[i-1].e
                        /\ frames'[i].ret = "chained" => frames'[i].exe # Idle
      BY <1>9 DEF Chain
    <3>1. i > 1 => i - 1 \in 1 .. n /\ i - 1 # n
      BY <1>5
    <3>2. i > 1 => frames'[i-1] = frames[i-1]
      BY <1>9, <3>1
    <3>3. /\ i = 1 => frames[i].exe = Idle
          /\ i > 1 => frames[i].exe = frames[i-1].e
          /\ frames[i].ret = "chained" => frames[i].exe # Idle
      BY DEF Chain
    <3> QED
      BY <1>9, <3>2, <3>3
  <2>2. Lows'
    <3> SUFFICES ASSUME NEW i \in 1 .. n
                 PROVE  /\ frames'[i].low = OwnPrio(frames[i].exe)'
                        /\ frames'[i].low >= i - 1
                        /\ \A j \in 1 .. n : i < j => frames'[i].low < frames'[j].low
      BY <1>9 DEF Lows
    <3>1. /\ frames[i].low = OwnPrio(frames[i].exe)
          /\ frames[i].low >= i - 1
          /\ \A j \in 1 .. n : i < j => frames[i].low < frames[j].low
      BY DEF Lows
    <3>2. OwnPrio(frames[i].exe)' = OwnPrio(frames[i].exe)
      BY <1>4, <1>7, <1>9, <1>12 DEF OwnPrio
    <3> QED
      BY <1>9, <3>1, <3>2
  <2>3. Started'
    <3> SUFFICES ASSUME NEW i \in 1 .. n
                 PROVE  /\ frames'[i].e \in Exe
                        /\ frames'[i].p = BasePrio[frames'[i].e]
                        /\ frames'[i].p > frames'[i].low
                        /\ frames'[i].eprio = RunPrio[frames'[i].e]
                        /\ jb'[frames'[i].e] = i
      BY <1>10 DEF Started
    <3>1. CASE i = n
      BY <1>2, <1>5, <1>7, <1>8, <1>9, <3>1
    <3>2. CASE i # n
      <4>1. /\ frames[i].p = BasePrio[frames[i].e]
            /\ frames[i].p > frames[i].low
            /\ frames[i].eprio = RunPrio[frames[i].e]
            /\ jb[frames[i].e] = i
        BY <1>11, <3>2 DEF Started
      <4> QED
        BY <1>7, <1>9, <1>11, <3>2, <4>1
    <3> QED
      BY <3>1, <3>2
  <2>4. Anchors'
    <3> SUFFICES ASSUME NEW x \in Exe, jb'[x] # 0
                 PROVE  Occupied(jb[x])' /\ frames'[jb'[x]].e = x
      BY DEF Anchors
    <3>1. PICK k : k = jb'[x]
      OBVIOUS
    <3>2. CASE x = e
      BY <1>5, <1>7, <1>8, <1>9, <1>10, <3>2 DEF Occupied
    <3>3. CASE x # e
      <4>1. k = jb[x] /\ Occupied(k) /\ frames[k].e = x
        BY <1>7, <3>1, <3>3 DEF Anchors
      <4>2. k \in 1 .. n /\ k # n
        BY <4>1 DEF Occupied
      <4>3. Occupied(k)' /\ frames'[k] = frames[k]
        BY <1>9, <1>10, <4>2
      <4> QED
        BY <3>1, <4>1, <4>3 DEF Occupied
    <3> QED
      BY <3>2, <3>3
  <2>5. Current'
    <3>1. frames' # <<>> /\ Top' = f /\ Me' = e
      BY <1>4, <1>5, <1>9 DEF Top, Me
    <3> QED
      BY <1>4, <1>8, <3>1 DEF Current
  <2> QED
    BY <2>1, <2>2, <2>3, <2>4, <2>5
<1>14. ListInv(r)'
  BY <1>4 DEF IndInv, ListInv, ListHead, ListNext, ListPrios, TakenPrio
<1>15. Prios'
  <2> SUFFICES ASSUME NEW x \in Exe
               PROVE  /\ ~Live(x)' => mutexlist[x] = None /\ currprio'[x] = BasePrio[x]
                      /\ Live(x)' => currprio'[x] = IF mutexlist[x] = None THEN RunPrio[x]
                                                    ELSE TakenPrio(mutexlist[x])
    BY <1>4 DEF Prios, OwnPrio, TakenPrio
  <2>1. CASE x = e
    <3>1. mutexlist[e] = None /\ Live(x)'
      BY <1>2, <1>5, <1>7, <2>1 DEF IndInv, Prios, Live
    <3> QED
      BY <1>7, <2>1, <3>1
  <2>2. CASE x # e
    <3>1. (Live(x)' <=> Live(x)) /\ currprio'[x] = currprio[x] /\ OwnPrio(x) = currprio[x]
      BY <1>7, <2>2 DEF Live, OwnPrio
    <3> QED
      BY <3>1 DEF IndInv, Prios
  <2> QED
    BY <2>1, <2>2
<1>16. \A x \in Exe : Live(x) => Live(x)'
  BY <1>2, <1>7 DEF Live
<1>17. \A x \in Exe, q \in Prio : Reason(x, q) => Reason(x, q)'
  BY <1>4, <1>16 DEF Reason
<1>18. queue' \in [Prio -> Seq(Exe)] /\ Entries'
  <2>1. CASE BasePrio[e] < RunPrio[e]
    <3>1. queue' = Enqueue(queue, RunPrio[e], e)
      BY <1>4, <2>1 DEF QueueStarted
    <3>2. Live(e)'
      BY <1>5, <1>7 DEF Live
    <3>3. Reason(e, RunPrio[e])' /\ ~Reason(e, RunPrio[e])
      BY <1>2, <3>2 DEF Reason
    <3>4. queue' \in [Prio -> Seq(Exe)]
      BY <1>5, <1>6, <3>1, EnqueueType DEF TypeOK
    <3>5. Entries'
      BY <1>5, <1>6, <1>17, <3>1, <3>3, EntriesEnqueue DEF IndInv
    <3> QED
      BY <3>4, <3>5
  <2>2. CASE ~(BasePrio[e] < RunPrio[e])
    <3>1. queue' = queue
      BY <1>4, <2>2 DEF QueueStarted
    <3>2. Entries'
      BY <1>5, <1>17, <3>1, EntriesDequeue DEF IndInv
    <3> QED
      BY <1>5, <3>1, <3>2 DEF TypeOK
  <2> QED
    BY <2>1, <2>2
<1>19. TypeOK'
  <2>1. irqlevel' \in Nat
    BY <1>4, <1>6, LevelType
  <2>2. state' \in [Exe -> {"suspended", "ready", "running"}]
    <3>1. Top.exe \in Exe
      BY <1>5 DEF FrameType
    <3> QED
      BY <1>4, <1>5, <3>1 DEF StateStarted, TypeOK
  <2> QED
    BY <1>4, <1>5, <1>7, <1>9, <1>18, <2>1, <2>2 DEF TypeOK
<1> QED
  BY <1>13, <1>14, <1>15, <1>18, <1>19 DEF IndInv

LEMMA ReturnStep ==
  ASSUME NEW r \in [Mutex -> Nat], IndInv(r), Return
  PROVE  IndInv(r)'
<1> DEFINE n == Len(frames)
<1>1. pc = "sched" /\ frames # <<>>
  BY DEF Return, IndInv, FrameInv, Current
<1>2. /\ TypeOK /\ n \in Nat \ {0} /\ Top = frames[n] /\ Top \in FrameType
      /\ frames \in Seq(FrameType) /\ Me \in Exe
  <2>1. TypeOK /\ frames \in Seq(FrameType) /\ Me \in Exe
    BY DEF IndInv, TypeOK, Me
  <2> QED
    BY <1>1, <2>1, TopType
<1>3. /\ frames'     = SubSeq(frames, 1, n - 1)
      /\ currentexe' = Top.exe
      /\ state'      = IF Me # Top.exe THEN [state EXCEPT ![Top.exe] = "running"] ELSE state
      /\ irqlevel'   = IF Me # Top.exe \/ Top.relevel THEN Level(currprio[Top.exe])
                                                      ELSE irqlevel
      /\ pc'         = Top.ret
      /\ UNCHANGED <<queue, nact, currprio, mutexlist, jb, owner, ntake, next, saveprio,
                     pending, panic>>
  BY DEF Return, mutexVars
<1>4. /\ frames' \in Seq(FrameType) /\ Len(frames') = n - 1
      /\ \A i \in 1 .. n - 1 : frames'[i] = frames[i]
  <2>1. PICK k \in Nat : k = n - 1
    <3>1. n \in Nat \ {0}
      BY <1>2
    <3> HIDE DEF n
    <3>2. n - 1 \in Nat
      BY <3>1
    <3> QED
      BY <3>2
  <2>2. frames \in Seq(FrameType) /\ k <= Len(frames)
    BY <1>2, <2>1 DEF IndInv, TypeOK
  <2>3. /\ frames' \in Seq(FrameType) /\ Len(frames') = k
        /\ \A i \in 1 .. k : frames'[i] = frames[i]
    BY <1>3, <2>1, <2>2, SubSeqFacts
  <2> QED
    BY <2>1, <2>3
<1>5. pc' \in {"app", "chained"} /\ Top.exe \in Exe
  BY <1>2, <1>3 DEF FrameType
<1>6. \A i : Occupied(i)' <=> i \in 1 .. n - 1
  BY <1>2, <1>4, <1>5 DEF Occupied
<1>7. \A i : i \in 1 .. n - 1 <=> Occupied(i)
  BY <1>1, <1>2 DEF Occupied
<1>8. \A e \in Exe : OwnPrio(e)' = OwnPrio(e) /\ OwnPrio(e) = currprio[e]
  BY <1>1, <1>3, <1>5 DEF OwnPrio
<1>9. FrameInv'
  <2> USE DEF IndInv, FrameInv
  <2>1. Chain'
    <3> SUFFICES ASSUME NEW i \in 1 .. n - 1
                 PROVE  /\ i = 1 => frames'[i].exe = Idle
                        /\ i > 1 => frames'[i].exe = frames'[i-1].e
                        /\ frames'[i].ret = "chained" => frames'[i].exe # Idle
      BY <1>4 DEF Chain
    <3>1. i \in 1 .. n /\ (i > 1 => i - 1 \in 1 .. n - 1)
      BY <1>2
    <3>2. frames'[i] = frames[i] /\ (i > 1 => frames'[i-1] = frames[i-1])
      BY <1>4, <3>1
    <3> QED
      BY <3>1, <3>2 DEF Chain
  <2>2. Lows'
    <3> SUFFICES ASSUME NEW i \in 1 .. n - 1
                 PROVE  /\ frames'[i].low = OwnPrio(frames[i].exe)'
                        /\ frames'[i].low >= i - 1
                        /\ \A j \in 1 .. n - 1 : i < j => frames'[i].low < frames'[j].low
      BY <1>4 DEF Lows
    <3>1. i \in 1 .. n /\ \A j \in 1 .. n - 1 : j \in 1 .. n
      BY <1>2
    <3>2. /\ frames[i].low = OwnPrio(frames[i].exe)
          /\ frames[i].low >= i - 1
          /\ \A j \in 1 .. n : i < j => frames[i].low < frames[j].low
      BY <3>1 DEF Lows
    <3>3. OwnPrio(frames[i].exe)' = OwnPrio(frames[i].exe)
      BY <1>1, <1>3, <1>4, <1>5 DEF OwnPrio
    <3> QED
      BY <1>4, <3>1, <3>2, <3>3
  <2>3. Started'
    <3> SUFFICES ASSUME NEW i \in 1 .. n - 1
                 PROVE  /\ frames'[i].e \in Exe
                        /\ frames'[i].p = BasePrio[frames'[i].e]
                        /\ frames'[i].p > frames'[i].low
                        /\ frames'[i].eprio = RunPrio[frames'[i].e]
                        /\ jb'[frames'[i].e] = i
      BY <1>6 DEF Started
    <3>1. i \in 1 .. Len(frames) /\ Occupied(i)
      <4>1. i \in 1 .. Len(frames)
        BY <1>2
      <4>2. Occupied(i)
        BY <1>7
      <4> QED
        BY <4>1, <4>2
    <3>2. /\ frames[i].e \in Exe
          /\ frames[i].p = BasePrio[frames[i].e]
          /\ frames[i].p > frames[i].low
          /\ frames[i].eprio = RunPrio[frames[i].e]
          /\ jb[frames[i].e] = i
      BY <3>1 DEF Started
    <3>3. frames'[i] = frames[i]
      BY <1>4
    <3> QED
      BY <1>3, <3>2, <3>3
  <2>4. Anchors'
    <3> SUFFICES ASSUME NEW x \in Exe, jb[x] # 0
                 PROVE  Occupied(jb[x])' /\ frames'[jb'[x]].e = x
      BY <1>3 DEF Anchors
    <3>1. Occupied(jb[x]) /\ frames[jb[x]].e = x
      BY DEF Anchors
    <3>2. jb[x] \in 1 .. n - 1 /\ jb'[x] = jb[x]
      BY <1>3, <1>7, <3>1
    <3>3. Occupied(jb[x])'
      BY <1>2, <1>4, <1>5, <3>2 DEF Occupied
    <3> QED
      BY <1>4, <3>1, <3>2, <3>3
  <2>5. Current'
    <3>1. Me' = IF frames' = <<>> THEN Idle ELSE frames'[Len(frames')].e
      <4>1. Me' = frames[n].exe /\ n \in 1 .. n
        BY <1>2, <1>3 DEF Me
      <4>2. CASE n = 1
        BY <1>4, <4>1, <4>2 DEF Chain
      <4>3. CASE n > 1
        <5>1. frames[n].exe = frames[n - 1].e
          BY <4>1, <4>3 DEF Chain
        <5>2. frames' # <<>> /\ n - 1 \in 1 .. n - 1
          BY <1>2, <1>4, <4>3
        <5> QED
          BY <1>4, <4>1, <5>1, <5>2
      <4>4. n = 1 \/ n > 1
        <5>1. n \in Nat \ {0}
          BY <1>2
        <5> HIDE DEF n, IndInv, FrameInv
        <5> QED
          BY <5>1
      <4> QED
        BY <4>2, <4>3, <4>4
    <3>2. pc' = "chained" => Me' # Idle
      <4>1. n \in 1 .. n /\ Me' = frames[n].exe /\ pc' = frames[n].ret
        BY <1>2, <1>3 DEF Me
      <4> QED
        BY <4>1 DEF Chain
    <3> QED
      BY <1>5, <3>1, <3>2 DEF Current, Top
  <2> QED
    BY <2>1, <2>2, <2>3, <2>4, <2>5
<1>10. ListInv(r)' /\ Prios'
  BY <1>3, <1>8, KeepMutexes
<1>11. Entries'
  <2>1. \A x \in Exe, q \in Prio : Reason(x, q) => Reason(x, q)'
    BY <1>1, <1>3 DEF Reason, Live
  <2> QED
    BY <1>2, <1>3, <2>1, EntriesDequeue DEF IndInv
<1>12. TypeOK'
  <2>1. irqlevel' \in Nat
    <3>1. currprio[Top.exe] \in Prio
      <4>1. Live(Top.exe)
        BY <1>2, CallersLive
      <4>2. OwnPrio(Top.exe) \in RunPrio[Top.exe] .. MaxPrio - 1
        BY <1>5, <4>1, OwnPrioBounds
      <4>3. RunPrio[Top.exe] \in 0 .. MaxPrio - 1
        BY <1>5
      <4> QED
        BY <1>5, <1>8, <4>2, <4>3
    <3>2. Level(currprio[Top.exe]) \in Nat /\ irqlevel \in Nat
      BY <1>2, <3>1, LevelType DEF TypeOK
    <3> QED
      BY <1>3, <3>2
  <2>2. state' \in [Exe -> {"suspended", "ready", "running"}]
    BY <1>2, <1>3, <1>5 DEF TypeOK
  <2> QED
    BY <1>2, <1>3, <1>4, <1>5, <2>1, <2>2 DEF TypeOK
<1> QED
  BY <1>9, <1>10, <1>11, <1>12 DEF IndInv

-----------------------------------------------------------------------------
(* Interrupts and batches                                                  *)

LEMMA CatchIrqStep ==
  ASSUME NEW r \in [Mutex -> Nat], IndInv(r), CatchIrq
  PROVE  IndInv(r)'
<1> DEFINE f == Frame(MaxPrio, currprio[Me], pc, TRUE)
<1>1. /\ pc \in {"app", "chained"} /\ pending' \in SUBSET Isr
      /\ frames' = Append(frames, f)
      /\ currprio' = [currprio EXCEPT ![Me] = MaxPrio + 1]
      /\ pc' = "irq"
      /\ UNCHANGED <<queue, nact, state, mutexlist, jb, owner, ntake, next, saveprio,
                     currentexe, irqlevel, panic>>
  BY DEF CatchIrq, mutexVars
<1>2. TypeOK /\ Me \in Exe /\ Me' = Me /\ frames \in Seq(FrameType)
  BY <1>1 DEF IndInv, TypeOK, Me
<1>3. currprio[Me] \in 0 .. MaxPrio - 1 /\ currprio[Me] >= BasePrio[Me]
  <2>1. Live(Me) /\ OwnPrio(Me) = currprio[Me]
    BY <1>1, CallersLive DEF OwnPrio
  <2>2. OwnPrio(Me) \in RunPrio[Me] .. MaxPrio - 1 /\ OwnPrio(Me) >= BasePrio[Me]
    BY <1>2, <2>1, OwnPrioBounds
  <2>3. RunPrio[Me] \in 0 .. MaxPrio - 1
    BY <1>2
  <2> QED
    BY <2>1, <2>2, <2>3
<1>4. /\ f \in FrameType /\ f.exe = Me /\ f.e = None /\ f.low = currprio[Me]
      /\ f.p = MaxPrio /\ f.ret = pc
  BY <1>1, <1>2, <1>3 DEF Frame, FrameType, Me
<1>5. pc = "chained" => Me # Idle
  BY DEF IndInv, FrameInv, Current
<1> HIDE DEF f
<1>6. /\ currprio' \in [Exe -> 0 .. MaxPrio + 1] /\ currprio'[Me] = MaxPrio + 1
      /\ \A e \in Exe \ {Me} : currprio'[e] = currprio[e]
  <2>1. currprio \in [Exe -> 0 .. MaxPrio + 1] /\ MaxPrio + 1 \in 0 .. MaxPrio + 1
    BY <1>2 DEF TypeOK
  <2> QED
    BY <1>1, <1>2, <2>1
<1>7. FrameInv'
  <2>1. currprio' \in [Exe -> Int] /\ currprio'[Me] >= MaxPrio
    BY <1>6
  <2>2. f.low >= BasePrio[Me]
    BY <1>3, <1>4
  <2> QED
    BY <1>1, <1>4, <1>5, <1>6, <2>1, <2>2, PushFrame
<1>8. frames' \in Seq(FrameType) /\ Top' = f
  BY <1>1, <1>2, <1>4 DEF Top
<1>9. ListInv(r)' /\ Prios'
  <2>1. ASSUME NEW e \in Exe
        PROVE  /\ Live(e) => OwnPrio(e)' = OwnPrio(e)
               /\ ~Live(e) => currprio'[e] = currprio[e]
    <3>1. CASE e = Me
      <4>1. Live(e) /\ OwnPrio(e) = currprio[Me]
        BY <1>1, <3>1, CallersLive DEF OwnPrio
      <4>2. OwnPrio(e)' = currprio[Me]
        BY <1>1, <1>2, <1>4, <1>8, <3>1 DEF OwnPrio
      <4> QED
        BY <4>1, <4>2
    <3>2. CASE e # Me
      BY <1>1, <1>2, <1>6, <3>2 DEF OwnPrio
    <3> QED
      BY <3>1, <3>2
  <2> QED
    BY <1>1, <2>1, KeepMutexes
<1>10. Entries'
  <2>1. \A x \in Exe, q \in Prio : Reason(x, q) => Reason(x, q)'
    BY <1>1 DEF Reason, Live
  <2> QED
    BY <1>1, <1>2, <2>1, EntriesDequeue DEF IndInv
<1>11. TypeOK'
  BY <1>1, <1>2, <1>6, <1>8 DEF TypeOK
<1> QED
  BY <1>7, <1>9, <1>10, <1>11 DEF IndInv

LEMMA VectorIrqStep ==
  ASSUME NEW r \in [Mutex -> Nat], IndInv(r), NEW i \in Isr, VectorIrq(i)
  PROVE  IndInv(r)'
<1>1. pc = "irq" /\ pending \ {i} \in SUBSET Isr
  BY DEF VectorIrq, IndInv, TypeOK
<1>2. CASE ~CanActivate(i)
  <2>1. /\ pending' = pending \ {i}
        /\ UNCHANGED <<queue, nact, state, currprio, mutexlist, jb, owner, ntake, next,
                       saveprio, currentexe, irqlevel, frames, pc, panic>>
    BY <1>2 DEF VectorIrq, exeVars, mutexVars
  <2>2. TypeOK'
    BY <1>1, <2>1 DEF IndInv, TypeOK
  <2>3. \A e : OwnPrio(e)' = OwnPrio(e)
    BY <2>1 DEF OwnPrio, Top, Me
  <2>4. FrameInv'
    <3>1. \A j \in 1 .. Len(frames) : \A e : e = frames[j].exe => OwnPrio(e)' = OwnPrio(e)
      BY <2>3
    <3> QED
      BY <2>1, <3>1, KeepFrames
  <2>5. ListInv(r)' /\ Prios'
    BY <2>1, <2>3, KeepMutexes
  <2>6. Entries'
    <3>1. \A x \in Exe, q \in Prio : Reason(x, q) => Reason(x, q)'
      BY <2>1 DEF Reason, Live, Me
    <3> QED
      BY <2>1, <3>1, EntriesDequeue DEF IndInv
  <2> QED
    BY <2>2, <2>4, <2>5, <2>6 DEF IndInv
<1>3. CASE CanActivate(i) /\ Full(queue, BasePrio[i])
  BY <1>3, PanicStep DEF VectorIrq, Panics
<1>4. CASE CanActivate(i) /\ ~Full(queue, BasePrio[i])
  <2>1. pending' = pending \ {i} /\ Activate(i, "irq")
    BY <1>4 DEF VectorIrq
  <2> QED
    BY <1>1, <2>1, ActivateStep
<1> QED
  BY <1>2, <1>3, <1>4

\* The priority that was pushed out of the way is restored.
LEMMA RestoreStep ==
  ASSUME NEW r \in [Mutex -> Nat], IndInv(r), pc \in {"irq", "raised"}, pc' = "sched",
         currprio' = [currprio EXCEPT ![Me] = Top.low],
         UNCHANGED <<nact, state, mutexlist, jb, owner, ntake, next, saveprio, currentexe,
                     irqlevel, frames, pending, panic>>,
         queue' \in [Prio -> Seq(Exe)], Entries'
  PROVE  IndInv(r)'
<1>1. TypeOK /\ Me \in Exe /\ Me' = Me /\ Top' = Top /\ frames # <<>> /\ Top \in FrameType
  <2>1. TypeOK /\ Me \in Exe /\ Me' = Me /\ Top' = Top /\ frames # <<>>
    BY DEF IndInv, TypeOK, FrameInv, Current, Me, Top
  <2> QED
    BY <2>1, TopType
<1>2. /\ currprio' \in [Exe -> 0 .. MaxPrio + 1] /\ currprio'[Me] = Top.low
      /\ \A e \in Exe \ {Me} : currprio'[e] = currprio[e]
  <2>1. Top.low \in 0 .. MaxPrio - 1
    BY <1>1 DEF FrameType
  <2>2. Top.low \in 0 .. MaxPrio + 1 /\ currprio \in [Exe -> 0 .. MaxPrio + 1]
    <3>1. currprio \in [Exe -> 0 .. MaxPrio + 1]
      BY <1>1 DEF TypeOK
    <3>2. MaxPrio \in Nat
      OBVIOUS
    <3> QED
      BY <2>1, <3>1, <3>2
  <2> QED
    BY <1>1, <2>2
<1>3. \A e \in Exe : OwnPrio(e)' = OwnPrio(e)
  BY <1>1, <1>2 DEF OwnPrio
<1>4. FrameInv'
  <2>1. ASSUME NEW i \in 1 .. Len(frames), NEW e, e = frames[i].exe
        PROVE  OwnPrio(e)' = OwnPrio(e)
    BY <1>3, <2>1, CallersLive
  <2> QED
    BY <2>1, KeepFrames
<1>5. ListInv(r)' /\ Prios'
  <2>1. ASSUME NEW e \in Exe, ~Live(e) PROVE currprio'[e] = currprio[e]
    BY <1>2, <2>1, CallersLive
  <2> QED
    BY <1>3, <2>1, KeepMutexes
<1>6. TypeOK'
  BY <1>1, <1>2 DEF TypeOK
<1> QED
  BY <1>4, <1>5, <1>6 DEF IndInv

LEMMA IrqDoneStep ==
  ASSUME NEW r \in [Mutex -> Nat], IndInv(r), IrqDone
  PROVE  IndInv(r)'
<1>1. CASE Me # Top.exe
  BY <1>1, PanicStep DEF IrqDone, Panics
<1>2. CASE Me = Top.exe
  <2>1. /\ pc = "irq" /\ pc' = "sched"
        /\ currprio' = [currprio EXCEPT ![Me] = Top.low]
        /\ UNCHANGED <<queue, nact, state, mutexlist, jb, owner, ntake, next, saveprio,
                       currentexe, irqlevel, frames, pending, panic>>
    BY <1>2 DEF IrqDone, mutexVars
  <2>2. Entries'
    <3>1. \A x \in Exe, q \in Prio : Reason(x, q) => Reason(x, q)'
      BY <2>1 DEF Reason, Live
    <3> QED
      BY <2>1, <3>1, EntriesDequeue DEF IndInv
  <2>3. queue' \in [Prio -> Seq(Exe)]
    BY <2>1 DEF IndInv, TypeOK
  <2> QED
    BY <2>1, <2>2, <2>3, RestoreStep
<1> QED
  BY <1>1, <1>2

LEMMA LowerPrioStep ==
  ASSUME NEW r \in [Mutex -> Nat], IndInv(r), LowerPrio
  PROVE  IndInv(r)'
<1>1. CASE ~IsHead(queue, MaxPrio, Me)
  BY <1>1, PanicStep DEF LowerPrio, Panics
<1>2. CASE IsHead(queue, MaxPrio, Me)
  <2>1. /\ pc = "raised" /\ pc' = "sched"
        /\ queue' = Dequeue(queue, MaxPrio)
        /\ currprio' = [currprio EXCEPT ![Me] = Top.low]
        /\ UNCHANGED <<nact, state, mutexlist, jb, owner, ntake, next, saveprio,
                       currentexe, irqlevel, frames, pending, panic>>
    BY <1>2 DEF LowerPrio, mutexVars
  <2>2. queue \in [Prio -> Seq(Exe)] /\ MaxPrio \in Prio
        /\ queue[MaxPrio] # <<>> /\ Head(queue[MaxPrio]) = Me
    BY <1>2 DEF IndInv, TypeOK, IsHead
  <2>3. /\ queue' \in [Prio -> Seq(Exe)] /\ queue'[MaxPrio] = Tail(queue[MaxPrio])
        /\ \A q \in Prio \ {MaxPrio} : queue'[q] = queue[q]
    BY <2>1, <2>2, DequeueType
  <2>4. Entries'
    <3>1. \A q \in Prio : \/ queue'[q] = queue[q]
                          \/ queue[q] # <<>> /\ queue'[q] = Tail(queue[q])
      BY <2>2, <2>3
    <3>2. ASSUME NEW x \in Exe, NEW q \in Prio, Reason(x, q)
          PROVE  \/ Reason(x, q)'
                 \/ queue[q] # <<>> /\ queue'[q] = Tail(queue[q]) /\ Head(queue[q]) = x
      <4>1. CASE q = MaxPrio /\ x = Me
        BY <2>2, <2>3, <4>1
      <4>2. CASE q # MaxPrio \/ x # Me
        BY <2>1, <3>2, <4>2 DEF Reason, Live
      <4> QED
        BY <4>1, <4>2
    <3> QED
      BY <3>1, <3>2, EntriesDequeue DEF IndInv
  <2> QED
    BY <2>1, <2>3, <2>4, RestoreStep
<1> QED
  BY <1>1, <1>2

LEMMA RaisePrioStep ==
  ASSUME NEW r \in [Mutex -> Nat], IndInv(r), RaisePrio
  PROVE  IndInv(r)'
<1> DEFINE f == Frame(MaxPrio - 1, currprio[Me], "app", FALSE)
<1>1. CASE Full(queue, MaxPrio)
  BY <1>1, PanicStep DEF RaisePrio, Panics
<1> SUFFICES ASSUME ~Full(queue, MaxPrio) PROVE IndInv(r)'
  BY <1>1
<1>2. /\ pc = "app"
      /\ frames' = Append(frames, f)
      /\ currprio' = [currprio EXCEPT ![Me] = MaxPrio]
      /\ queue' = Enqueue(queue, MaxPrio, Me)
      /\ pc' = "raised"
      /\ UNCHANGED <<nact, state, mutexlist, jb, owner, ntake, next, saveprio,
                     currentexe, irqlevel, pending, panic>>
  BY DEF RaisePrio, mutexVars
<1>3. TypeOK /\ Me \in Exe /\ Me' = Me /\ frames \in Seq(FrameType) /\ MaxPrio \in Prio
  <2>1. TypeOK /\ Me \in Exe /\ Me' = Me /\ frames \in Seq(FrameType)
    BY <1>2 DEF IndInv, TypeOK, Me
  <2> QED
    BY <2>1
<1>4. Live(Me) /\ currprio[Me] \in 0 .. MaxPrio - 1 /\ currprio[Me] >= BasePrio[Me]
  <2>1. Live(Me) /\ OwnPrio(Me) = currprio[Me]
    BY <1>2, CallersLive DEF OwnPrio
  <2>2. OwnPrio(Me) \in RunPrio[Me] .. MaxPrio - 1 /\ OwnPrio(Me) >= BasePrio[Me]
    BY <1>3, <2>1, OwnPrioBounds
  <2>3. RunPrio[Me] \in 0 .. MaxPrio - 1
    BY <1>3
  <2> QED
    BY <2>1, <2>2, <2>3
<1>5. /\ f \in FrameType /\ f.exe = Me /\ f.e = None /\ f.low = currprio[Me]
      /\ f.p = MaxPrio - 1 /\ f.ret = "app"
  BY <1>3, <1>4 DEF Frame, FrameType, Me
<1> HIDE DEF f
<1>6. /\ currprio' \in [Exe -> 0 .. MaxPrio + 1] /\ currprio'[Me] = MaxPrio
      /\ \A e \in Exe \ {Me} : currprio'[e] = currprio[e]
  <2>1. currprio \in [Exe -> 0 .. MaxPrio + 1] /\ MaxPrio \in 0 .. MaxPrio + 1
    BY <1>3 DEF TypeOK
  <2> QED
    BY <1>2, <1>3, <2>1
<1>7. FrameInv'
  <2>1. currprio' \in [Exe -> Int] /\ currprio'[Me] >= MaxPrio
    BY <1>6
  <2>2. f.low >= BasePrio[Me]
    BY <1>4, <1>5
  <2> QED
    BY <1>2, <1>5, <1>6, <2>1, <2>2, PushFrame
<1>8. frames' \in Seq(FrameType) /\ Top' = f
  BY <1>2, <1>3, <1>5 DEF Top
<1>9. ListInv(r)' /\ Prios'
  <2>1. ASSUME NEW e \in Exe
        PROVE  /\ Live(e) => OwnPrio(e)' = OwnPrio(e)
               /\ ~Live(e) => currprio'[e] = currprio[e]
    <3>1. CASE e = Me
      <4>1. Live(e) /\ OwnPrio(e) = currprio[Me]
        BY <1>2, <1>4, <3>1 DEF OwnPrio
      <4>2. OwnPrio(e)' = currprio[Me]
        BY <1>2, <1>3, <1>5, <1>8, <3>1 DEF OwnPrio
      <4> QED
        BY <4>1, <4>2
    <3>2. CASE e # Me
      BY <1>2, <1>3, <1>6, <3>2 DEF OwnPrio
    <3> QED
      BY <3>1, <3>2
  <2> QED
    BY <1>2, <2>1, KeepMutexes
<1>10. queue' \in [Prio -> Seq(Exe)] /\ Entries'
  <2>1. \A x \in Exe, q \in Prio : Reason(x, q) => Reason(x, q)'
    BY <1>2 DEF Reason, Live
  <2>2. Reason(Me, MaxPrio)'
    BY <1>2, <1>3, <1>4 DEF Reason, Live, Me
  <2>3. ~Reason(Me, MaxPrio)
    <3>1. Reason(Me, MaxPrio) => MaxPrio <= currprio[Me]
      BY <1>2, <1>3, ReasonBelow DEF OwnPrio
    <3> QED
      BY <1>4, <3>1
  <2>4. Entries'
    BY <1>2, <1>3, <2>1, <2>2, <2>3, EntriesEnqueue DEF IndInv
  <2> QED
    BY <1>2, <1>3, <2>4, EnqueueType DEF TypeOK
<1>11. TypeOK'
  BY <1>2, <1>3, <1>6, <1>8, <1>10 DEF TypeOK
<1> QED
  BY <1>7, <1>9, <1>10, <1>11 DEF IndInv

LEMMA BoundedMax ==
  ASSUME NEW T, T # {}, NEW b \in Nat, T \subseteq 0 .. b
  PROVE  Max(T) \in T /\ \A y \in T : y <= Max(T)
<1> DEFINE D == {b - x : x \in T}
<1>1. D \subseteq Nat /\ D # {}
  <2>1. \A x \in T : x \in Nat /\ x <= b
    OBVIOUS
  <2>2. \A x \in T : b - x \in Nat
    BY <2>1
  <2>3. D \subseteq Nat
    BY <2>2
  <2>4. PICK x : x \in T
    OBVIOUS
  <2>5. b - x \in D
    BY <2>4
  <2> QED
    BY <2>3, <2>5
<1>2. \E d \in D : \A c \in D : ~(<<c, d>> \in OpToRel(<, Nat))
  <2> HIDE DEF D
  <2> QED
    BY <1>1, NatLessThanWellFounded, WFMin
<1>3. PICK d \in D : \A c \in D : ~(<<c, d>> \in OpToRel(<, Nat))
  BY <1>2
<1>4. \A c \in D : ~(c < d)
  BY <1>1, <1>3 DEF OpToRel
<1>5. PICK x \in T : d = b - x
  OBVIOUS
<1>6. \A y \in T : x >= y
  <2> TAKE y \in T
  <2>1. ~(b - y < b - x)
    BY <1>4, <1>5
  <2>2. x \in Nat /\ y \in Nat
    OBVIOUS
  <2> QED
    BY <2>1, <2>2
<1>7. Max(T) \in T /\ \A y \in T : Max(T) >= y
  BY <1>6 DEF Max
<1> QED
  <2>1. \A y \in T : y \in Nat
    OBVIOUS
  <2> QED
    BY <1>7, <2>1

\* The scan of dv_runqueued() stops at the highest queue that is not empty.
LEMMA WaitingMax ==
  ASSUME NEW r, IndInv(r), pc = "sched", Waiting # {}
  PROVE  /\ Max(Waiting) \in Waiting
         /\ \A q \in Waiting : q <= Max(Waiting)
<1>1. Top.low \in Nat /\ Top.p \in Nat
  <2>1. frames # <<>>
    BY DEF IndInv, FrameInv, Current
  <2>2. Top \in FrameType
    BY <2>1, TopType DEF IndInv
  <2>3. Top.low \in 0 .. MaxPrio - 1 /\ Top.p \in 0 .. MaxPrio
    BY <2>2 DEF FrameType
  <2> QED
    BY <2>3
<1>2. Waiting \subseteq 0 .. Top.p
  BY <1>1 DEF Waiting
<1> QED
  BY <1>1, <1>2, BoundedMax

-----------------------------------------------------------------------------
(* Every step keeps the invariant                                          *)

LEMMA NextStep ==
  ASSUME Lifo, NEW r \in [Mutex -> Nat], IndInv(r), Next
  PROVE  \E r2 \in [Mutex -> Nat] : IndInv(r2)'
<1>1. ASSUME NEW t \in Task, ActivateTask(t) PROVE IndInv(r)'
  <2>1. CASE Full(queue, BasePrio[t])
    BY <1>1, <2>1, PanicStep DEF ActivateTask, Panics
  <2>2. CASE ~Full(queue, BasePrio[t])
    <3>1. Activate(t, pc) /\ pending' = pending /\ pc \in {"app", "raised"}
      BY <1>1, <2>2 DEF ActivateTask
    <3> QED
      <4>1. pending' \in SUBSET Isr
        BY <3>1 DEF IndInv, TypeOK
      <4> QED
        BY <3>1, <4>1, ActivateStep
  <2> QED
    BY <2>1, <2>2
<1>2. ASSUME NEW t \in Task, ChainTask(t) PROVE IndInv(r)'
  <2>1. CASE jb[Me] = 0
    BY <1>2, <2>1, PanicStep DEF ChainTask, Panics
  <2>2. CASE jb[Me] # 0 /\ Full(queue, BasePrio[t])
    BY <1>2, <2>2, PanicStep DEF ChainTask, Panics
  <2>3. CASE jb[Me] # 0 /\ ~Full(queue, BasePrio[t])
    <3>1. Activate(t, "chained") /\ pending' = pending /\ pc = "app" /\ Me # Idle
      BY <1>2, <2>3 DEF ChainTask, MayExit
    <3> QED
      <4>1. pending' \in SUBSET Isr
        BY <3>1 DEF IndInv, TypeOK
      <4> QED
        BY <3>1, <4>1, ActivateStep
  <2> QED
    BY <2>1, <2>2, <2>3
<1>3. CASE TerminateTask
  <2>1. CASE jb[Me] = 0
    BY <1>3, <2>1, PanicStep DEF TerminateTask, Panics
  <2>2. CASE jb[Me] # 0
    <3>1. /\ pc = "app" /\ LongjmpToExit
          /\ UNCHANGED <<queue, exeVars, mutexVars, currentexe, irqlevel, pending, panic>>
      BY <1>3, <2>2 DEF TerminateTask
    <3> QED
      BY <2>2, <3>1, LongjmpKeeps, ExitStep
  <2> QED
    BY <2>1, <2>2
<1>4. CASE ReturnFromMain
  BY <1>4, ExitStep DEF ReturnFromMain, MayExit
<1>5. CASE ChainExit
  <2>1. /\ pc = "chained" /\ LongjmpToExit
        /\ UNCHANGED <<queue, exeVars, mutexVars, currentexe, irqlevel, pending, panic>>
    BY <1>5 DEF ChainExit
  <2>2. jb[Me] # 0
    BY <2>1, CallersLive DEF Live, IndInv, FrameInv, Current
  <2> QED
    BY <2>1, <2>2, LongjmpKeeps, ExitStep
<1>6. CASE Dispatch
  <2>1. PICK p \in Waiting : \/ Panic("QueueCorrupt")
                             \/ Start(p, Head(queue[p]))
    <3>1. Max(Waiting) \in Waiting
      BY <1>6, WaitingMax DEF Dispatch
    <3> QED
      BY <1>6, <3>1 DEF Dispatch
  <2> QED
    BY <1>6, <2>1, StartStep, PanicStep DEF Dispatch, Panics
<1> QED
  BY <1>1, <1>2, <1>3, <1>4, <1>5, <1>6, TakeMutexStep, DropMutexStep, RaisePrioStep,
     CatchIrqStep, ReturnStep, ReleaseMutexStep, FinishExitStep, LowerPrioStep,
     IrqDoneStep, VectorIrqStep
     DEF Next, Call, End, Kernel

Inv == \E r \in [Mutex -> Nat] : IndInv(r)

LEMMA InvStart == Init => Inv
<1> SUFFICES ASSUME Init PROVE Inv
  OBVIOUS
<1> DEFINE r == [m \in Mutex |-> 0]
<1>1. r \in [Mutex -> Nat]
  OBVIOUS
<1> QED
  BY <1>1, InitInv DEF Inv

LEMMA InvStep ==
  ASSUME Lifo
  PROVE  Inv /\ [Next]_vars => Inv'
<1> SUFFICES ASSUME NEW r \in [Mutex -> Nat], IndInv(r), [Next]_vars PROVE Inv'
  BY DEF Inv
<1>1. CASE Next
  BY <1>1, NextStep DEF Inv
<1>2. CASE UNCHANGED vars
  <2>1. IndInv(r)'
    BY <1>2, CountStep DEF vars, exeVars, mutexVars, cpuVars, IndInv, TypeOK
  <2> QED
    BY <2>1 DEF Inv
<1> QED
  BY <1>1, <1>2

\* The invariant holds in every reachable state of an application that drops
\* its mutexes in LIFO order, with any groups and any number of executables.
THEOREM Invariance ==
  ASSUME Lifo
  PROVE  Spec => []Inv
BY InvStart, InvStep, PTL DEF Spec

\* Type correctness.
THEOREM TypeCorrect ==
  ASSUME Lifo
  PROVE  Spec => []TypeOK
<1>1. Inv => TypeOK
  BY DEF Inv, IndInv
<1> QED
  BY <1>1, Invariance, PTL

-----------------------------------------------------------------------------
(* Part two: the safety properties of Davroska                             *)

-----------------------------------------------------------------------------
(* Consequences of the invariant alone                                     *)

LEMMA MeLive ==
  ASSUME NEW r, IndInv(r), pc \in {"app", "chained", "exit"}
  PROVE  Live(Me)
BY CallersLive

\* Below the executable that runs there are only executables that it preempts.
LEMMA PreemptedBelow ==
  ASSUME NEW r \in [Mutex -> Nat], IndInv(r), pc \in {"app", "chained", "exit"},
         NEW o \in Exe, o # Me, Live(o)
  PROVE  OwnPrio(o) < BasePrio[Me]
<1> USE DEF IndInv, FrameInv
<1> DEFINE n == Len(frames)
<1>1. n \in Nat /\ \A i \in 1 .. n : frames[i] \in FrameType
  BY DEF TypeOK
<1>2. frames # <<>>
  <2> SUFFICES ASSUME frames = <<>> PROVE FALSE
    OBVIOUS
  <2>1. jb[o] # 0
    BY MeOnTop DEF Live
  <2> QED
    BY <2>1 DEF Anchors, Occupied
<1>3. /\ n \in Nat \ {0} /\ Top = frames[n] /\ Me = Top.e /\ jb[Me] = n
      /\ BasePrio[Me] = Top.p /\ Top.p > Top.low
      /\ \A i \in 1 .. n : frames[i].low \in Int
      /\ Top.p \in Int
  <2>1. Top \in FrameType /\ Top = frames[n] /\ n \in Nat \ {0}
    BY <1>2, TopType
  <2>2. Top.p \in Int /\ \A i \in 1 .. n : frames[i].low \in Int
    BY <1>1, <2>1 DEF FrameType
  <2>3. Me = Top.e /\ jb[Me] = n /\ BasePrio[Me] = Top.p /\ Top.p > Top.low
    BY <1>2, MeOnTop
  <2> QED
    BY <2>1, <2>2, <2>3
<1>4. ASSUME NEW i \in 1 .. n, frames[i].exe = o PROVE OwnPrio(o) < BasePrio[Me]
  <2>1. frames[i].low = OwnPrio(o)
    BY <1>4 DEF Lows
  <2>2. n \in 1 .. n /\ (i = n \/ i < n)
    BY <1>3
  <2>3. i < n => frames[i].low < frames[n].low
    BY <2>2 DEF Lows
  <2>4. frames[n].low < BasePrio[Me] /\ BasePrio[Me] \in Int
    BY <1>3
  <2> QED
    BY <1>3, <2>1, <2>2, <2>3, <2>4
<1>5. CASE o = Idle
  <2>1. 1 \in 1 .. n /\ frames[1].exe = Idle
    BY <1>3 DEF Chain
  <2> QED
    BY <1>4, <1>5, <2>1
<1>6. CASE o # Idle
  <2>1. Occupied(jb[o]) /\ frames[jb[o]].e = o
    BY <1>6 DEF Live, Anchors
  <2>2. jb[o] # n
    BY <1>3, <2>1
  <2>3. jb[o] \in 1 .. n - 1
    BY <1>3, <2>1, <2>2 DEF Occupied
  <2>4. jb[o] + 1 \in 1 .. n /\ jb[o] + 1 > 1 /\ (jb[o] + 1) - 1 = jb[o]
    BY <1>3, <2>3
  <2>5. frames[jb[o] + 1].exe = frames[(jb[o] + 1) - 1].e
    BY <2>4 DEF Chain
  <2> QED
    BY <1>4, <2>1, <2>4, <2>5
<1> QED
  BY <1>5, <1>6

LEMMA Excluded ==
  ASSUME NEW r \in [Mutex -> Nat], IndInv(r)
  PROVE  MutualExclusion
<1> SUFFICES ASSUME pc = "app", NEW m \in Mutex, owner[m] \notin {None, Me}
             PROVE  BasePrio[Me] > Ceiling[m]
  BY DEF MutualExclusion
<1>1. PICK o \in Exe : o = owner[m]
  BY DEF IndInv, TypeOK
<1>2. Live(o)
  <2>1. mutexlist[o] # None
    BY <1>1, ListFacts
  <2> QED
    BY <1>1, <2>1 DEF IndInv, Prios
<1>3. TakenPrio(m) <= OwnPrio(o) /\ OwnPrio(o) < BasePrio[Me]
  BY <1>1, <1>2, TakenBelow, PreemptedBelow
<1>4. OwnPrio(o) \in Int /\ BasePrio[Me] \in Int /\ Ceiling[m] \in Int /\ saveprio[m] \in Int
  <2>1. OwnPrio(o) \in RunPrio[o] .. MaxPrio - 1
    BY <1>2, OwnPrioBounds
  <2>2. Me \in Exe /\ saveprio[m] \in -1 .. MaxPrio - 1
    BY DEF IndInv, TypeOK, Me
  <2> QED
    BY <1>1, <2>1, <2>2
<1>5. Ceiling[m] <= TakenPrio(m) /\ TakenPrio(m) \in Int
  BY <1>4 DEF TakenPrio
<1> QED
  BY <1>3, <1>4, <1>5

\* While an executable owns a mutex, no executable that may take the mutex runs.
THEOREM Exclusion ==
  ASSUME Lifo
  PROVE  Spec => []MutualExclusion
<1>1. Inv => MutualExclusion
  BY Excluded DEF Inv
<1> QED
  BY <1>1, Invariance, PTL

\* A termination lands in the frame that started the executable.
THEOREM Landing ==
  ASSUME Lifo
  PROVE  Spec => []JumpTarget
<1>1. Inv => JumpTarget
  <2> SUFFICES ASSUME NEW r \in [Mutex -> Nat], IndInv(r) PROVE JumpTarget
    BY DEF Inv
  <2>1. ASSUME Running, Me # Idle PROVE jb[Me] = Len(frames)
    BY <2>1, MeOnTop DEF Running
  <2>2. ASSUME NEW e \in Exe, jb[e] # 0 PROVE jb[e] <= Len(frames) /\ frames[jb[e]].e = e
    <3>1. Occupied(jb[e]) /\ frames[jb[e]].e = e
      BY <2>2 DEF IndInv, FrameInv, Anchors
    <3> QED
      BY <3>1 DEF Occupied
  <2> QED
    BY <2>1, <2>2 DEF JumpTarget
<1> QED
  BY <1>1, Invariance, PTL

\* The kernel stack: dv_runqueued() is never nested deeper than MaxPrio.
THEOREM BoundedNesting ==
  ASSUME Lifo
  PROVE  Spec => []NestingBound
<1>1. Inv => NestingBound
  <2> SUFFICES ASSUME NEW r \in [Mutex -> Nat], IndInv(r) PROVE Len(frames) <= MaxPrio
    BY DEF Inv, NestingBound
  <2>1. CASE frames = <<>>
    BY <2>1
  <2>2. CASE frames # <<>>
    <3>1. Len(frames) \in Nat \ {0} /\ Top = frames[Len(frames)] /\ Top \in FrameType
      BY <2>2, TopType DEF IndInv
    <3>2. Top.low \in 0 .. MaxPrio - 1 /\ Len(frames) \in 1 .. Len(frames)
      BY <3>1 DEF FrameType
    <3>3. Top.low >= Len(frames) - 1
      BY <3>1, <3>2 DEF IndInv, FrameInv, Lows
    <3> QED
      BY <3>1, <3>2, <3>3
  <2> QED
    BY <2>1, <2>2
<1> QED
  BY <1>1, Invariance, PTL

\* The kernel takes back the mutexes of an executable that ends.
THEOREM NothingHeldByTheDead ==
  ASSUME Lifo
  PROVE  Spec => []HeldByLive
<1>1. Inv => HeldByLive
  <2> SUFFICES ASSUME NEW r \in [Mutex -> Nat], IndInv(r), NEW m \in Mutex, owner[m] # None
               PROVE  owner[m] = Idle \/ jb[owner[m]] # 0
    BY DEF Inv, HeldByLive
  <2>1. PICK o \in Exe : o = owner[m]
    BY DEF IndInv, TypeOK
  <2>2. mutexlist[o] # None
    BY <2>1, ListFacts
  <2> QED
    BY <2>1, <2>2 DEF IndInv, Prios, Live
<1> QED
  BY <1>1, Invariance, PTL

\* An executable that is started is more urgent than every one that it preempts.
THEOREM PreemptionOnlyByHigher ==
  ASSUME Lifo
  PROVE  Spec => OnlyHigherPreempts
<1> DEFINE A == (pc = "sched" /\ pc' = "app" /\ Len(frames') = Len(frames)) =>
                  \A i \in 1 .. Len(frames) : BasePrio[currentexe'] > currprio[frames[i].exe]
<1>1. Inv /\ [Next]_vars => A \/ UNCHANGED vars
  <2> SUFFICES ASSUME NEW r \in [Mutex -> Nat], IndInv(r), Next,
                      pc = "sched", pc' = "app", Len(frames') = Len(frames),
                      NEW i \in 1 .. Len(frames)
               PROVE  BasePrio[currentexe'] > currprio[frames[i].exe]
    BY DEF Inv
  <2>1. Dispatch \/ Return
    BY DEF Next, Call, End, Kernel, ActivateTask, ChainTask, TakeMutex, DropMutex, RaisePrio,
           TerminateTask, ReturnFromMain, CatchIrq, ReleaseMutex, FinishExit, ChainExit,
           LowerPrio, IrqDone, VectorIrq
  <2>2. frames # <<>> /\ Len(frames) \in Nat \ {0} /\ Top = frames[Len(frames)]
        /\ \A j \in 1 .. Len(frames) : frames[j].low \in Int
    <3>1. frames # <<>>
      BY DEF IndInv, FrameInv, Current
    <3>2. \A j \in 1 .. Len(frames) : frames[j] \in FrameType
      BY DEF IndInv, TypeOK
    <3>3. \A j \in 1 .. Len(frames) : frames[j].low \in Int
      BY <3>2 DEF FrameType
    <3> QED
      BY <3>1, <3>3, TopType DEF IndInv
  <2>3. ~Return
    <3> SUFFICES ASSUME Return PROVE FALSE
      OBVIOUS
    <3>0. Len(frames) - 1 \in Nat
      BY <2>2
    <3>1. PICK k \in Nat : k = Len(frames) - 1
      BY <3>0
    <3>2. \A j \in 1 .. k : frames[j] \in FrameType
      BY <2>2, <3>1 DEF IndInv, TypeOK
    <3>3. Len(SubSeq(frames, 1, k)) = IF 1 <= k THEN k - 1 + 1 ELSE 0
      BY <3>2, SubSeqProperties
    <3>4. frames' = SubSeq(frames, 1, k)
      BY <3>1 DEF Return
    <3> QED
      BY <2>2, <3>1, <3>3, <3>4
  <2>4. PICK p \in Waiting : Start(p, Head(queue[p])) \/ Panic("QueueCorrupt")
    <3>1. Waiting # {}
      BY <2>1, <2>3 DEF Dispatch
    <3>2. Max(Waiting) \in Waiting
      BY <3>1, WaitingMax
    <3> QED
      BY <2>1, <2>3, <3>2 DEF Dispatch
  <2>5. currentexe' = Head(queue[p])
    BY <2>4 DEF Start, Panic, cpuVars
  <2>6. BasePrio[currentexe'] = p /\ p > Top.low /\ p \in Int
    BY <2>5, StartedFresh
  <2>7. currprio[frames[i].exe] = frames[i].low
    BY DEF IndInv, FrameInv, Lows, OwnPrio
  <2>8. frames[i].low <= Top.low
    <3>1. Len(frames) \in 1 .. Len(frames) /\ (i = Len(frames) \/ i < Len(frames))
      BY <2>2
    <3>2. i < Len(frames) => frames[i].low < frames[Len(frames)].low
      BY <3>1 DEF IndInv, FrameInv, Lows
    <3> QED
      BY <2>2, <3>1, <3>2
  <2>9. frames[i].low \in Int /\ Top.low \in Int
    BY <2>2
  <2> QED
    BY <2>6, <2>7, <2>8, <2>9
<1>2. Inv /\ [Next]_vars => [A]_vars
  BY <1>1
<1> QED
  BY <1>2, Invariance, PTL DEF Spec, OnlyHigherPreempts

-----------------------------------------------------------------------------
(* The interrupt lock level                                                *)

\* A call of dv_runqueued() that does not set the level on its return is made
\* at the level of its caller.
LEMMA LevelsPush ==
  ASSUME Levels, frames \in Seq(FrameType), pc \in {"app", "chained"},
         NEW f, frames' = Append(frames, f), pc' \in {"irq", "raised", "sched"},
         currentexe' = currentexe, f.low = currprio[Me],
         irqlevel' = irqlevel
  PROVE  Levels'
<1>1. Top' = f /\ Me' = Me
  BY DEF Top, Me
<1>2. irqlevel = Level(currprio[Me])
  BY DEF Levels, Running
<1> QED
  BY <1>1, <1>2 DEF Levels, Running

\* Nothing that the level depends on changes.
LEMMA LevelsKeep ==
  ASSUME Levels, UNCHANGED <<frames, irqlevel, currentexe>>,
         \/ pc \in {"app", "chained"} /\ pc' \in {"app", "chained", "exit"}
            /\ currprio'[Me] = currprio[Me]
         \/ pc \in {"irq", "raised"} /\ pc' \in {pc, "sched"}
         \/ pc = "exit" /\ pc' = "exit"
         \/ pc = "sched" /\ pc' = "sched"
  PROVE  Levels'
<1>1. Top' = Top /\ Me' = Me
  BY DEF Top, Me
<1> QED
  BY <1>1 DEF Levels, Running

LEMMA LevelsActivate ==
  ASSUME NEW r \in [Mutex -> Nat], IndInv(r), Levels, NEW t \in Task \union Isr, NEW ret,
         pc \in {"app", "raised", "irq"}, Activate(t, ret),
         ret = pc \/ (pc = "app" /\ ret = "chained")
  PROVE  Levels'
<1>1. UNCHANGED <<currprio, currentexe, irqlevel>> /\ frames \in Seq(FrameType)
      /\ Me \in Exe
  BY DEF Activate, IndInv, TypeOK, Me
<1>2. CASE BasePrio[t] > currprio[Me]
  <2>1. pc = "app"
    <3>1. t \in Exe /\ currprio[Me] \in Int /\ BasePrio[t] < MaxPrio /\ BasePrio[t] \in Int
      <4>1. t \in Exe /\ BasePrio[t] \in 0 .. MaxPrio - 1
        OBVIOUS
      <4>2. currprio[Me] \in 0 .. MaxPrio + 1
        BY <1>1 DEF IndInv, TypeOK
      <4> QED
        BY <4>1, <4>2
    <3> QED
      BY <1>2, <3>1 DEF IndInv, FrameInv, Current
  <2> DEFINE f == Frame(BasePrio[t], currprio[Me], ret, FALSE)
  <2>2. frames' = Append(frames, f) /\ pc' = "sched"
    BY <1>2 DEF Activate, RunQueued
  <2>3. f.low = currprio[Me]
    BY DEF Frame
  <2> HIDE DEF f
  <2> QED
    BY <1>1, <2>1, <2>2, <2>3, LevelsPush
<1>3. CASE ~(BasePrio[t] > currprio[Me])
  <2>1. frames' = frames /\ pc' = ret
    BY <1>3 DEF Activate, RunQueued
  <2> QED
    BY <1>1, <2>1, LevelsKeep
<1> QED
  BY <1>2, <1>3

LEMMA LevelsNext ==
  ASSUME Lifo, NEW r \in [Mutex -> Nat], IndInv(r), Levels, Next
  PROVE  Levels'
<1>0. /\ frames \in Seq(FrameType) /\ Me \in Exe /\ currprio \in [Exe -> 0 .. MaxPrio + 1]
      /\ \A e \in Exe : currprio[e] \in Int
  BY DEF IndInv, TypeOK, Me
<1>1. ASSUME NEW t \in Task, ActivateTask(t) PROVE Levels'
  <2>1. CASE Full(queue, BasePrio[t])
    BY <1>1, <2>1 DEF ActivateTask, Panic, exeVars, cpuVars, Levels, Running, Top, Me
  <2>2. CASE ~Full(queue, BasePrio[t])
    <3>1. Activate(t, pc) /\ pc \in {"app", "raised"}
      BY <1>1, <2>2 DEF ActivateTask
    <3> QED
      BY <3>1, LevelsActivate
  <2> QED
    BY <2>1, <2>2
<1>2. ASSUME NEW t \in Task, ChainTask(t) PROVE Levels'
  <2>1. CASE jb[Me] = 0 \/ Full(queue, BasePrio[t])
    <3>1. UNCHANGED <<currprio, currentexe, irqlevel, frames, pc>>
      BY <1>2, <2>1 DEF ChainTask, Panic, exeVars, cpuVars
    <3> QED
      BY <3>1 DEF Levels, Running, Top, Me
  <2>2. CASE ~(jb[Me] = 0 \/ Full(queue, BasePrio[t]))
    <3>1. Activate(t, "chained") /\ pc = "app"
      BY <1>2, <2>2 DEF ChainTask
    <3> QED
      BY <3>1, LevelsActivate
  <2> QED
    BY <2>1, <2>2
<1>3. ASSUME TerminateTask \/ ReturnFromMain \/ ChainExit PROVE Levels'
  <2>1. CASE pc' = "exit"
    <3>1. Running' <=> FALSE
      BY <2>1 DEF Running
    <3> QED
      BY <2>1, <3>1 DEF Levels
  <2>2. CASE pc' # "exit"
    <3>1. UNCHANGED <<currprio, currentexe, irqlevel, frames, pc>>
      BY <1>3, <2>2 DEF TerminateTask, ReturnFromMain, ChainExit, LongjmpToExit, Panic,
                        exeVars, cpuVars
    <3> QED
      BY <3>1 DEF Levels, Running, Top, Me
  <2> QED
    BY <2>1, <2>2
<1>4. ASSUME NEW m \in Mutex, TakeMutex(m) PROVE Levels'
  <2>1. pc = "app" /\ irqlevel = Level(currprio[Me])
    BY <1>4 DEF TakeMutex, Levels, Running
  <2>2. UNCHANGED <<pc, currentexe>>
    BY <1>4 DEF TakeMutex, TakeAgain, TakeFree, Panic, cpuVars
  <2>3. irqlevel' = Level(currprio'[Me])
    <3>1. CASE UNCHANGED <<currprio, irqlevel>>
      BY <2>1, <3>1
    <3>2. CASE currprio' = [currprio EXCEPT ![Me] = Ceiling[m]] /\ irqlevel' = Level(Ceiling[m])
      BY <1>0, <3>2
    <3> QED
      BY <1>4, <3>1, <3>2 DEF TakeMutex, TakeAgain, TakeFree, Panic, cpuVars, exeVars
  <2> QED
    BY <2>1, <2>2, <2>3 DEF Levels, Running, Me
<1>5. ASSUME NEW m \in Mutex, DropMutex(m) PROVE Levels'
  <2>1. pc = "app" /\ irqlevel = Level(currprio[Me]) /\ Me' = Me
    BY <1>5 DEF DropMutex, DropOnce, DropLast, Panic, cpuVars, Levels, Running, Me
  <2>2. CASE UNCHANGED <<currprio, irqlevel, frames, pc>>
    BY <2>1, <2>2 DEF Levels, Running
  <2>3. CASE ~UNCHANGED <<currprio, irqlevel, frames, pc>>
    <3>1. /\ DropLast(m) /\ mutexlist[Me] = m
          /\ saveprio[m] < Ceiling[m] => IsHead(queue, Ceiling[m], Me)
      BY <1>5, <2>3 DEF DropMutex, DropOnce, DropLast, Panic, cpuVars, exeVars, Lifo
    <3>2. currprio' = [currprio EXCEPT ![Me] = saveprio[m]]
      BY <3>1 DEF DropLast
    <3>3. currprio'[Me] = saveprio[m]
      BY <1>0, <3>2
    <3>4. CASE saveprio[m] < Ceiling[m]
      <4>1. irqlevel' = Level(saveprio[m]) /\ RunQueued(Ceiling[m], saveprio[m], "app")
        BY <3>1, <3>4 DEF DropLast
      <4>2. CASE pc' = "app"
        BY <2>1, <3>3, <4>1, <4>2 DEF Levels, Running
      <4>3. CASE pc' # "app"
        <5> DEFINE f == Frame(Ceiling[m], saveprio[m], "app", FALSE)
        <5>1. frames' = Append(frames, f) /\ pc' = "sched"
          BY <4>1, <4>3 DEF RunQueued
        <5>2. f.low = saveprio[m]
          BY DEF Frame
        <5> HIDE DEF f
        <5>3. Top' = f
          BY <1>0, <5>1 DEF Top
        <5> QED
          BY <4>1, <5>1, <5>2, <5>3 DEF Levels, Running
      <4> QED
        BY <4>2, <4>3
    <3>5. CASE ~(saveprio[m] < Ceiling[m])
      <4>1. UNCHANGED <<irqlevel, frames, pc>>
        BY <3>1, <3>5 DEF DropLast
      <4>2. currprio[Me] = saveprio[m]
        <5>1. OwnPrio(Me) = TakenPrio(m) /\ OwnPrio(Me) = currprio[Me]
          <6>1. Live(Me) /\ mutexlist[Me] # None
            BY <1>0, <2>1, <3>1, CallersLive
          <6> QED
            BY <1>0, <2>1, <3>1, <6>1 DEF IndInv, Prios, OwnPrio
        <5> QED
          BY <3>5, <5>1 DEF TakenPrio
      <4> QED
        BY <2>1, <3>3, <4>1, <4>2 DEF Levels, Running
    <3> QED
      BY <3>4, <3>5
  <2> QED
    BY <2>2, <2>3
<1>6. ASSUME RaisePrio PROVE Levels'
  <2>1. CASE Full(queue, MaxPrio)
    BY <1>6, <2>1 DEF RaisePrio, Panic, exeVars, cpuVars, Levels, Running, Top, Me
  <2>2. CASE ~Full(queue, MaxPrio)
    <3> DEFINE f == Frame(MaxPrio - 1, currprio[Me], "app", FALSE)
    <3>1. frames' = Append(frames, f) /\ pc = "app" /\ pc' = "raised"
          /\ UNCHANGED <<currentexe, irqlevel>>
      BY <1>6, <2>2 DEF RaisePrio
    <3>2. f.low = currprio[Me]
      BY DEF Frame
    <3> HIDE DEF f
    <3> QED
      BY <1>0, <3>1, <3>2, LevelsPush
  <2> QED
    BY <2>1, <2>2
<1>7. ASSUME CatchIrq PROVE Levels'
  <2> DEFINE f == Frame(MaxPrio, currprio[Me], pc, TRUE)
  <2>1. frames' = Append(frames, f) /\ pc \in {"app", "chained"} /\ pc' = "irq"
        /\ UNCHANGED <<currentexe, irqlevel>>
    BY <1>7 DEF CatchIrq
  <2>2. f.low = currprio[Me]
    BY DEF Frame
  <2> HIDE DEF f
  <2> QED
    BY <1>0, <2>1, <2>2, LevelsPush
<1>8. ASSUME NEW i \in Isr, VectorIrq(i) PROVE Levels'
  <2>1. CASE CanActivate(i) /\ ~Full(queue, BasePrio[i])
    <3>1. Activate(i, "irq") /\ pc = "irq"
      BY <1>8, <2>1 DEF VectorIrq
    <3> QED
      BY <3>1, LevelsActivate
  <2>2. CASE ~(CanActivate(i) /\ ~Full(queue, BasePrio[i]))
    <3>1. UNCHANGED <<currprio, currentexe, irqlevel, frames, pc>>
      BY <1>8, <2>2 DEF VectorIrq, Panic, exeVars, cpuVars
    <3> QED
      BY <3>1 DEF Levels, Running, Top, Me
  <2> QED
    BY <2>1, <2>2
<1>9. ASSUME LowerPrio \/ IrqDone PROVE Levels'
  <2>1. /\ UNCHANGED <<currentexe, irqlevel, frames>>
        /\ pc \in {"irq", "raised"} /\ pc' \in {pc, "sched"}
    BY <1>9 DEF LowerPrio, IrqDone, Panic, cpuVars
  <2> QED
    BY <2>1, LevelsKeep
<1>10. ASSUME Dispatch PROVE Levels'
  <2>1. PICK p \in Waiting : Start(p, Head(queue[p])) \/ Panic("QueueCorrupt")
    <3>1. Max(Waiting) \in Waiting
      BY <1>10, WaitingMax DEF Dispatch
    <3> QED
      BY <1>10, <3>1 DEF Dispatch
  <2>2. CASE UNCHANGED cpuVars
    <3>1. UNCHANGED <<currentexe, irqlevel, frames, pc>> /\ pc = "sched"
      BY <1>10, <2>2 DEF Dispatch, cpuVars
    <3> QED
      BY <3>1, LevelsKeep
  <2>3. CASE ~UNCHANGED cpuVars
    <3>1. PICK e \in Exe : e = Head(queue[p])
      BY <1>10, StartedFresh DEF Dispatch
    <3>2. /\ currentexe' = e /\ pc' = "app" /\ irqlevel' = Level(RunPrio[e])
          /\ currprio' = [currprio EXCEPT ![e] = RunPrio[e]]
      BY <2>1, <2>3, <3>1 DEF Start, Panic
    <3>3. currprio'[e] = RunPrio[e] /\ Me' = e
      BY <1>0, <3>2 DEF Me
    <3> QED
      BY <3>2, <3>3 DEF Levels, Running
  <2> QED
    BY <2>2, <2>3
<1>11. ASSUME Return PROVE Levels'
  <2>1. /\ pc = "sched" /\ frames # <<>> /\ Top.ret \in {"app", "chained"} /\ Top.exe \in Exe
        /\ currprio[Top.exe] = Top.low
    <3>1. pc = "sched" /\ frames # <<>>
      BY <1>11 DEF Return, IndInv, FrameInv, Current
    <3>2. Len(frames) \in 1 .. Len(frames) /\ Top = frames[Len(frames)] /\ Top \in FrameType
      BY <3>1, TopType DEF IndInv
    <3>3. frames[Len(frames)].low = OwnPrio(frames[Len(frames)].exe)
      BY <3>2 DEF IndInv, FrameInv, Lows
    <3> QED
      BY <3>1, <3>2, <3>3 DEF FrameType, OwnPrio
  <2>2. /\ currentexe' = Top.exe /\ pc' = Top.ret /\ currprio' = currprio
        /\ irqlevel' = IF Me # Top.exe \/ Top.relevel THEN Level(currprio[Top.exe])
                                                      ELSE irqlevel
    BY <1>11 DEF Return
  <2>3. irqlevel' = Level(currprio'[Top.exe])
    <3>1. ASSUME Me = Top.exe, ~Top.relevel PROVE irqlevel = Level(Top.low)
      BY <2>1, <3>1 DEF Levels
    <3> QED
      BY <2>1, <2>2, <3>1
  <2> QED
    BY <2>1, <2>2, <2>3 DEF Levels, Running, Me
<1>12. ASSUME ReleaseMutex PROVE Levels'
  <2>1. pc' = "exit"
    BY <1>12 DEF ReleaseMutex, Panic, cpuVars
  <2> QED
    BY <2>1 DEF Levels, Running
<1>13. ASSUME FinishExit PROVE Levels'
  <2>1. pc = "exit" /\ UNCHANGED <<currentexe, frames>> /\ (pc' = "exit" \/ pc' = "sched")
    BY <1>13 DEF FinishExit, Panic, cpuVars
  <2>2. Me' # Top'.exe
    <3>1. Me # Idle
      BY <2>1 DEF IndInv, FrameInv, Current
    <3>2. Len(frames) \in 1 .. Len(frames) /\ Top = frames[Len(frames)]
      BY <2>1, <3>1, MeOnTop, TopType DEF IndInv
    <3>3. frames[Len(frames)].exe # Me
      BY <2>1, <3>2, MeOnTop
    <3> QED
      BY <2>1, <3>2, <3>3 DEF Top, Me
  <2> QED
    BY <2>1, <2>2 DEF Levels, Running
<1> QED
  BY <1>1, <1>2, <1>3, <1>4, <1>5, <1>6, <1>7, <1>8, <1>9, <1>10, <1>11, <1>12, <1>13
     DEF Next, Call, End, Kernel

\* While executable code runs, the lock level is that of its priority.
THEOREM RightLevel ==
  ASSUME Lifo
  PROVE  Spec => []LevelMatches
<1>1. Init => Levels
  BY DEF Init, Levels, Running, Top
<1>2. Levels /\ Inv /\ [Next]_vars => Levels'
  <2> SUFFICES ASSUME Levels, Inv, [Next]_vars PROVE Levels'
    OBVIOUS
  <2>1. CASE Next
    BY <2>1, LevelsNext DEF Inv
  <2>2. CASE UNCHANGED vars
    BY <2>2 DEF vars, exeVars, cpuVars, Levels, Running, Top, Me
  <2> QED
    BY <2>1, <2>2
<1>3. Levels => LevelMatches
  BY DEF Levels, LevelMatches
<1> QED
  BY <1>1, <1>2, <1>3, Invariance, PTL DEF Spec

\* The three together: dv_runqueued() unwinds as it has nested, at the right levels.
THEOREM SoundFrames ==
  ASSUME Lifo
  PROVE  Spec => []FramesSound
<1>1. JumpTarget /\ NestingBound /\ LevelMatches => FramesSound
  BY DEF FramesSound
<1> QED
  BY <1>1, Landing, BoundedNesting, RightLevel, PTL

-----------------------------------------------------------------------------
(* Strict priority, for an application that keeps all the rules (LIFO      *)
(* order of mutexes, no end with a mutex held) and configures no group of  *)
(* executables.  Without these conditions it does not hold.                *)

LEMMA Rules ==
  ASSUME Disciplined
  PROVE  Lifo /\ (MayExit => mutexlist[Me] = None)
BY DEF Disciplined, Lifo, MayExit

-----------------------------------------------------------------------------
(* An executable that is about to end holds no mutex.                      *)

LEMMA ChainedKeep ==
  ASSUME ChainedFree, frames' = frames,
         \A i \in 1 .. Len(frames) : mutexlist'[frames[i].exe] = mutexlist[frames[i].exe],
         pc' \in {"chained", "exit"} => mutexlist'[Me'] = None
  PROVE  ChainedFree'
BY DEF ChainedFree

LEMMA ChainedPush ==
  ASSUME ChainedFree, frames \in Seq(FrameType), NEW f, frames' = Append(frames, f),
         \A i \in 1 .. Len(frames) : mutexlist'[frames[i].exe] = mutexlist[frames[i].exe],
         f.ret = "chained" => mutexlist'[f.exe] = None,
         pc' \notin {"chained", "exit"}
  PROVE  ChainedFree'
<1>1. Len(frames) \in Nat /\ Len(frames') = Len(frames) + 1
  OBVIOUS
<1>2. ASSUME NEW i \in 1 .. Len(frames'), frames'[i].ret = "chained"
      PROVE  mutexlist'[frames'[i].exe] = None
  <2>1. CASE i \in 1 .. Len(frames)
    <3>1. frames'[i] = frames[i]
      BY <2>1
    <3> QED
      BY <1>2, <2>1, <3>1 DEF ChainedFree
  <2>2. CASE i = Len(frames) + 1
    <3>1. frames'[i] = f
      BY <2>2
    <3> QED
      BY <1>2, <3>1
  <2> QED
    BY <1>1, <2>1, <2>2
<1> QED
  BY <1>2 DEF ChainedFree

LEMMA ChainedActivate ==
  ASSUME NEW r, IndInv(r), ChainedFree, NEW t, NEW ret, Activate(t, ret),
         ret = "chained" => mutexlist[Me] = None, ret # "exit"
  PROVE  ChainedFree'
<1>1. mutexlist' = mutexlist /\ currentexe' = currentexe /\ Me' = Me
      /\ frames \in Seq(FrameType)
  BY DEF Activate, Me, IndInv, TypeOK
<1>2. CASE BasePrio[t] > currprio[Me]
  <2> DEFINE f == Frame(BasePrio[t], currprio[Me], ret, FALSE)
  <2>1. frames' = Append(frames, f) /\ pc' = "sched"
    BY <1>2 DEF Activate, RunQueued
  <2>2. f.ret = ret /\ f.exe = Me
    BY DEF Frame, Me
  <2> HIDE DEF f
  <2> QED
    BY <1>1, <2>1, <2>2, ChainedPush
<1>3. CASE ~(BasePrio[t] > currprio[Me])
  <2>1. frames' = frames /\ pc' = ret
    BY <1>3 DEF Activate, RunQueued
  <2> QED
    BY <1>1, <2>1, ChainedKeep
<1> QED
  BY <1>2, <1>3

LEMMA ChainedNext ==
  ASSUME Disciplined, NEW r \in [Mutex -> Nat], IndInv(r), ChainedFree, Next
  PROVE  ChainedFree'
<1>0. frames \in Seq(FrameType) /\ Me \in Exe /\ mutexlist \in [Exe -> Mutex \union {None}]
  BY DEF IndInv, TypeOK, Me
<1> USE DEF exeVars, mutexVars, cpuVars
<1>p. ASSUME UNCHANGED <<frames, mutexlist, currentexe, pc>> PROVE ChainedFree'
  BY <1>p DEF ChainedFree, Me
<1>1. ASSUME NEW t \in Task, ActivateTask(t) PROVE ChainedFree'
  <2>1. CASE Full(queue, BasePrio[t])
    BY <1>1, <1>p, <2>1 DEF ActivateTask, Panic
  <2>2. CASE ~Full(queue, BasePrio[t])
    <3>1. Activate(t, pc) /\ pc \in {"app", "raised"}
      BY <1>1, <2>2 DEF ActivateTask
    <3> QED
      BY <3>1, ChainedActivate
  <2> QED
    BY <2>1, <2>2
<1>2. ASSUME NEW t \in Task, ChainTask(t) PROVE ChainedFree'
  <2>1. CASE jb[Me] = 0 \/ Full(queue, BasePrio[t])
    BY <1>2, <1>p, <2>1 DEF ChainTask, Panic
  <2>2. CASE ~(jb[Me] = 0 \/ Full(queue, BasePrio[t]))
    <3>1. Activate(t, "chained") /\ MayExit
      BY <1>2, <2>2 DEF ChainTask
    <3> QED
      BY <3>1, Rules, ChainedActivate
  <2> QED
    BY <2>1, <2>2
<1>3. ASSUME TerminateTask \/ ReturnFromMain \/ ChainExit PROVE ChainedFree'
  <2>1. CASE Panic("CurrentExeDead")
    BY <1>p, <2>1 DEF Panic
  <2>2. CASE ~Panic("CurrentExeDead")
    <3>1. UNCHANGED <<mutexlist, currentexe>> /\ pc \in {"app", "chained"}
      BY <1>3, <2>2 DEF TerminateTask, ReturnFromMain, ChainExit
    <3>2. mutexlist[Me] = None
      BY <1>3, Rules DEF TerminateTask, ReturnFromMain, ChainExit, ChainedFree
    <3>3. frames' = frames
      <4>1. CASE ReturnFromMain
        BY <4>1 DEF ReturnFromMain
      <4>2. CASE ~ReturnFromMain
        <5>1. LongjmpToExit
          BY <1>3, <2>2, <4>2 DEF TerminateTask, ChainExit
        <5>2. jb[Me] # 0
          <6>1. CASE TerminateTask
            BY <2>2, <6>1 DEF TerminateTask
          <6>2. CASE ChainExit
            BY <6>2, MeOnTop DEF ChainExit, IndInv, FrameInv, Current
          <6> QED
            BY <1>3, <4>2, <6>1, <6>2
        <5> QED
          BY <3>1, <5>1, <5>2, LongjmpKeeps
      <4> QED
        BY <4>1, <4>2
    <3> QED
      BY <3>1, <3>2, <3>3, ChainedKeep DEF Me
  <2> QED
    BY <2>1, <2>2
<1>4. ASSUME NEW m \in Mutex, TakeMutex(m) \/ DropMutex(m) PROVE ChainedFree'
  <2>1. pc = "app" /\ \A i \in 1 .. Len(frames) : frames[i].exe \in Exe \ {Me}
    <3>1. pc = "app"
      BY <1>4 DEF TakeMutex, DropMutex
    <3> QED
      BY <3>1, MeOnTop, CallersLive
  <2>2. \A e \in Exe \ {Me} : mutexlist'[e] = mutexlist[e]
    BY <1>0, <1>4 DEF TakeMutex, TakeAgain, TakeFree, DropMutex, DropOnce, DropLast, Panic
  <2>3. \A i \in 1 .. Len(frames) : mutexlist'[frames[i].exe] = mutexlist[frames[i].exe]
    BY <2>1, <2>2
  <2>4. CASE frames' = frames /\ pc' = "app"
    BY <2>3, <2>4, ChainedKeep
  <2>5. CASE ~(frames' = frames /\ pc' = "app")
    <3>1. DropLast(m) /\ RunQueued(Ceiling[m], saveprio[m], "app")
      BY <1>4, <2>1, <2>5 DEF TakeMutex, TakeAgain, TakeFree, DropMutex, DropOnce, DropLast, Panic
    <3> DEFINE f == Frame(Ceiling[m], saveprio[m], "app", FALSE)
    <3>2. frames' = Append(frames, f) /\ pc' = "sched"
      BY <2>5, <3>1 DEF RunQueued
    <3>3. f.ret = "app"
      BY DEF Frame
    <3> HIDE DEF f
    <3> QED
      BY <1>0, <2>3, <3>2, <3>3, ChainedPush
  <2> QED
    BY <2>4, <2>5
<1>5. ASSUME RaisePrio PROVE ChainedFree'
  <2>1. CASE Full(queue, MaxPrio)
    BY <1>5, <1>p, <2>1 DEF RaisePrio, Panic
  <2>2. CASE ~Full(queue, MaxPrio)
    <3> DEFINE f == Frame(MaxPrio - 1, currprio[Me], "app", FALSE)
    <3>1. frames' = Append(frames, f) /\ pc' = "raised" /\ mutexlist' = mutexlist
      BY <1>5, <2>2 DEF RaisePrio
    <3>2. f.ret = "app"
      BY DEF Frame
    <3> HIDE DEF f
    <3> QED
      BY <1>0, <3>1, <3>2, ChainedPush
  <2> QED
    BY <2>1, <2>2
<1>6. ASSUME CatchIrq PROVE ChainedFree'
  <2> DEFINE f == Frame(MaxPrio, currprio[Me], pc, TRUE)
  <2>1. frames' = Append(frames, f) /\ pc' = "irq" /\ mutexlist' = mutexlist
    BY <1>6 DEF CatchIrq
  <2>2. f.ret = pc /\ f.exe = Me
    BY DEF Frame, Me
  <2>3. pc = "chained" => mutexlist[Me] = None
    BY DEF ChainedFree
  <2> HIDE DEF f
  <2> QED
    BY <1>0, <2>1, <2>2, <2>3, ChainedPush
<1>7. ASSUME NEW i \in Isr, VectorIrq(i) PROVE ChainedFree'
  <2>1. CASE CanActivate(i) /\ ~Full(queue, BasePrio[i])
    <3>1. Activate(i, "irq")
      BY <1>7, <2>1 DEF VectorIrq
    <3> QED
      BY <3>1, ChainedActivate
  <2>2. CASE ~(CanActivate(i) /\ ~Full(queue, BasePrio[i]))
    BY <1>7, <1>p, <2>2 DEF VectorIrq, Panic
  <2> QED
    BY <2>1, <2>2
<1>8. ASSUME LowerPrio \/ IrqDone \/ FinishExit PROVE ChainedFree'
  <2>1. UNCHANGED <<frames, mutexlist, currentexe>> /\ (pc' = "sched" \/ pc' = pc)
    BY <1>8 DEF LowerPrio, IrqDone, FinishExit, Panic
  <2> QED
    BY <1>p, <2>1, ChainedKeep
<1>9. ASSUME Dispatch PROVE ChainedFree'
  <2>1. CASE UNCHANGED cpuVars /\ mutexlist' = mutexlist
    BY <1>p, <2>1
  <2>2. CASE ~(UNCHANGED cpuVars /\ mutexlist' = mutexlist)
    <3>1. PICK p, e : Start(p, e) /\ ~Panic("QueueOverflow")
      BY <1>9, <2>2 DEF Dispatch, Panic
    <3>2. frames # <<>>
      BY <1>9 DEF Dispatch, IndInv, FrameInv, Current
    <3>3. PICK n \in 1 .. Len(frames) : n = Len(frames)
      BY <1>0, <3>2
    <3>4. /\ frames' = [frames EXCEPT ![n].p = p, ![n].e = e, ![n].eprio = RunPrio[e]]
          /\ pc' = "app" /\ mutexlist' = mutexlist
      BY <3>1, <3>3 DEF Start
    <3>5. /\ Len(frames') = Len(frames)
          /\ \A i \in 1 .. Len(frames) : /\ frames'[i].ret = frames[i].ret
                                         /\ frames'[i].exe = frames[i].exe
      <4>1. \A i \in 1 .. Len(frames) : frames[i] \in FrameType
        BY <1>0
      <4>2. Len(frames') = Len(frames)
        BY <1>0, <3>4
      <4>3. \A i \in 1 .. Len(frames) : i # n => frames'[i] = frames[i]
        BY <1>0, <3>4
      <4>4. frames'[n].ret = frames[n].ret /\ frames'[n].exe = frames[n].exe
        BY <1>0, <3>3, <3>4, <4>1 DEF FrameType
      <4> QED
        BY <4>2, <4>3, <4>4
    <3> QED
      BY <3>4, <3>5 DEF ChainedFree
  <2> QED
    BY <2>1, <2>2
<1>10. ASSUME Return PROVE ChainedFree'
  <2>1. pc = "sched" /\ frames # <<>>
    BY <1>10 DEF Return, IndInv, FrameInv, Current
  <2>2. Len(frames) \in Nat \ {0} /\ Top = frames[Len(frames)]
    BY <2>1, TopType DEF IndInv
  <2>3. PICK k \in Nat : k = Len(frames) - 1
    <3>1. Len(frames) - 1 \in Nat
      BY <2>2
    <3> QED
      BY <3>1
  <2>4. \A j \in 1 .. k : frames[j] \in FrameType
    BY <1>0, <2>3
  <2>5. /\ Len(SubSeq(frames, 1, k)) = IF 1 <= k THEN k - 1 + 1 ELSE 0
        /\ \A j \in 1 .. k : SubSeq(frames, 1, k)[j] = frames[1 + j - 1]
    <3>1. Len(SubSeq(frames, 1, k)) = IF 1 <= k THEN k - 1 + 1 ELSE 0
      BY <2>4, SubSeqProperties
    <3>2. ASSUME NEW j \in 1 .. k PROVE SubSeq(frames, 1, k)[j] = frames[1 + j - 1]
      <4>1. k - 1 + 1 = k /\ 1 <= k
        BY <2>3
      <4> QED
        BY <2>4, <3>2, <4>1, SubSeqProperties
    <3> QED
      BY <3>1, <3>2
  <2>6. /\ frames' = SubSeq(frames, 1, k) /\ mutexlist' = mutexlist
        /\ pc' = Top.ret /\ currentexe' = Top.exe
    BY <1>10, <2>3 DEF Return
  <2>7. Top.ret = "chained" => mutexlist[Top.exe] = None
    <3>1. Len(frames) \in 1 .. Len(frames)
      BY <2>2
    <3> QED
      BY <2>2, <3>1 DEF ChainedFree
  <2>8. Top.ret # "exit"
    BY <2>1, TopType DEF IndInv, FrameType
  <2>9. ASSUME NEW j \in 1 .. Len(frames'), frames'[j].ret = "chained"
        PROVE  mutexlist'[frames'[j].exe] = None
    <3>1. j \in 1 .. k /\ j \in 1 .. Len(frames) /\ 1 + j - 1 = j
      BY <2>2, <2>3, <2>5, <2>6
    <3>2. frames'[j] = frames[j]
      BY <2>5, <2>6, <3>1
    <3> QED
      BY <2>6, <2>9, <3>1, <3>2 DEF ChainedFree
  <2> QED
    BY <2>6, <2>7, <2>8, <2>9 DEF ChainedFree, Me
<1>11. ~ReleaseMutex
  <2> SUFFICES ASSUME ReleaseMutex PROVE FALSE
    OBVIOUS
  <2>1. pc = "exit" /\ mutexlist[Top.e] # None
    BY DEF ReleaseMutex
  <2>2. Me = Top.e
    BY <2>1, MeOnTop DEF IndInv, FrameInv, Current
  <2> QED
    BY <2>1, <2>2 DEF ChainedFree
<1> QED
  BY <1>1, <1>2, <1>3, <1>4, <1>5, <1>6, <1>7, <1>8, <1>9, <1>10, <1>11
     DEF Next, Call, End, Kernel
-----------------------------------------------------------------------------
(* Nothing urgent waits.                                                   *)

\* The newest frame's position and bound.
LEMMA SettledNumbers ==
  ASSUME NEW r, IndInv(r), frames # <<>>
  PROVE  Top.p \in 0 .. MaxPrio /\ Top.low \in 0 .. MaxPrio - 1
BY TopType DEF IndInv, FrameType

\* A call of dv_runqueued() scans from a priority that nothing is queued above.
LEMMA SettledPush ==
  ASSUME NEW f, frames \in Seq(FrameType), frames' = Append(frames, f), pc' = "sched",
         f.p > f.low, \A q \in Prio : q > f.p => queue'[q] = <<>>
  PROVE  Settled'
<1>1. Top' = f
  BY DEF Top
<1> QED
  BY <1>1 DEF Settled, EmptyAbove

LEMMA SettledActivate ==
  ASSUME NEW r, IndInv(r), Settled, pc = "app", NEW t \in Task, NEW ret, Activate(t, ret),
         ret \in {"app", "chained"}
  PROVE  Settled'
<1>1. PICK c \in Int : c = currprio[Me]
  <2>1. Me \in Exe /\ currprio \in [Exe -> 0 .. MaxPrio + 1]
    BY DEF IndInv, TypeOK, Me
  <2>2. currprio[Me] \in Int
    BY <2>1
  <2> QED
    BY <2>2
<1>2. PICK b \in Prio : b = BasePrio[t] /\ b \in Int
  OBVIOUS
<1>3. \A p \in Prio : p > c => queue[p] = <<>>
  BY <1>1 DEF Settled, EmptyAbove
<1>4. queue \in [Prio -> Seq(Exe)] /\ frames \in Seq(FrameType)
  BY DEF IndInv, TypeOK
<1>5. currprio' = currprio /\ Me' = Me
  BY DEF Activate, Me
<1>6. \A p \in Prio : p # b => queue'[p] = queue[p]
  <2>1. queue' = Enqueue(queue, b, t)
    BY <1>2 DEF Activate
  <2>2. t \in Exe
    OBVIOUS
  <2>3. \A p \in Prio \ {b} : Enqueue(queue, b, t)[p] = queue[p]
    BY <1>2, <1>4, <2>2, EnqueueType
  <2> QED
    BY <2>1, <2>3
<1>7. CASE b > c
  <2> DEFINE f == Frame(b, c, ret, FALSE)
  <2>1. frames' = Append(frames, f) /\ pc' = "sched"
    BY <1>1, <1>2, <1>7 DEF Activate, RunQueued
  <2>2. f.p = b /\ f.low = c
    BY DEF Frame
  <2>3. ASSUME NEW p \in Prio, p > b PROVE queue'[p] = <<>>
    <3>1. p \in Int /\ b \in Int /\ c \in Int
      BY <1>2
    <3>2. p # b /\ p > c
      BY <1>7, <2>3, <3>1
    <3> QED
      BY <1>3, <1>6, <3>2
  <2>4. \A p \in Prio : p > f.p => queue'[p] = <<>>
    BY <2>2, <2>3
  <2> HIDE DEF f
  <2> QED
    BY <1>4, <1>7, <2>1, <2>2, <2>4, SettledPush
<1>8. CASE ~(b > c)
  <2>1. pc' = ret
    BY <1>1, <1>2, <1>8 DEF Activate, RunQueued
  <2>2. \A p \in Prio : p > c => queue'[p] = <<>>
    BY <1>2, <1>3, <1>6, <1>8
  <2> QED
    BY <1>1, <1>5, <2>1, <2>2 DEF Settled, EmptyAbove
<1> QED
  BY <1>7, <1>8

LEMMA SettledMutex ==
  ASSUME Disciplined, NEW r \in [Mutex -> Nat], IndInv(r), Settled, NEW m \in Mutex,
         TakeMutex(m) \/ DropMutex(m)
  PROVE  Settled'
<1> DEFINE c == Ceiling[m]
<1>1. /\ queue \in [Prio -> Seq(Exe)] /\ frames \in Seq(FrameType) /\ Me \in Exe
      /\ currprio \in [Exe -> 0 .. MaxPrio + 1] /\ saveprio[m] \in Int
      /\ c \in Prio /\ c \in Int /\ currprio[Me] \in Int
  <2>1. /\ queue \in [Prio -> Seq(Exe)] /\ frames \in Seq(FrameType) /\ Me \in Exe
        /\ currprio \in [Exe -> 0 .. MaxPrio + 1] /\ saveprio \in [Mutex -> -1 .. MaxPrio - 1]
    BY DEF IndInv, TypeOK, Me
  <2>2. saveprio[m] \in Int /\ currprio[Me] \in Int
    BY <2>1
  <2>3. c \in Prio /\ c \in Int
    OBVIOUS
  <2> QED
    BY <2>1, <2>2, <2>3
<1>2. pc = "app" /\ \A p \in Prio : p > currprio[Me] => queue[p] = <<>>
  BY DEF TakeMutex, DropMutex, Settled, EmptyAbove
<1>3. ASSUME UNCHANGED <<queue, currprio, currentexe, pc>> PROVE Settled'
  BY <1>2, <1>3 DEF Settled, EmptyAbove, Me
<1>4. CASE TakeMutex(m)
  <2>1. CASE TakeFree(m) /\ currprio[Me] < c /\ ~Full(queue, c)
    <3>1. /\ currprio'[Me] = c /\ queue' = Enqueue(queue, c, Me)
          /\ pc' = "app" /\ Me' = Me
      BY <1>1, <1>2, <2>1 DEF TakeFree, Me
    <3>2. \A p \in Prio \ {c} : queue'[p] = queue[p]
      <4>1. \A p \in Prio \ {c} : Enqueue(queue, c, Me)[p] = queue[p]
        BY <1>1, EnqueueType, ZenonT(30)
      <4> QED
        BY <3>1, <4>1
    <3>3. ASSUME NEW p \in Prio, p > c PROVE queue'[p] = <<>>
      <4>0. p \in Int /\ c \in Int /\ currprio[Me] \in Int
        BY <1>1
      <4>1. p # c /\ p > currprio[Me]
        BY <2>1, <3>3, <4>0
      <4> QED
        BY <1>2, <3>2, <4>1
    <3> QED
      BY <3>1, <3>3 DEF Settled, EmptyAbove
  <2>2. CASE ~(TakeFree(m) /\ currprio[Me] < c /\ ~Full(queue, c))
    BY <1>3, <1>4, <2>2 DEF TakeMutex, TakeAgain, TakeFree, Panic, exeVars, cpuVars
  <2> QED
    BY <2>1, <2>2
<1>5. CASE DropMutex(m)
  <2>1. CASE DropLast(m) /\ saveprio[m] < c /\ IsHead(queue, c, Me)
    <3>1. mutexlist[Me] = m /\ owner[m] = Me
      BY <1>5, <2>1, Rules DEF DropMutex, DropLast, Lifo
    <3>2. currprio[Me] = c
      <4>1. Live(Me) /\ mutexlist[Me] # None
        BY <1>1, <1>2, <3>1, CallersLive
      <4> QED
        BY <1>1, <1>2, <2>1, <3>1, <4>1 DEF IndInv, Prios, OwnPrio, TakenPrio
    <3>3. queue' = Dequeue(queue, c) /\ RunQueued(c, saveprio[m], "app")
      BY <2>1 DEF DropLast
    <3> DEFINE f == Frame(c, saveprio[m], "app", FALSE)
    <3>4. frames' = Append(frames, f) /\ pc' = "sched"
      BY <2>1, <3>3 DEF RunQueued
    <3>5. f.p = c /\ f.low = saveprio[m]
      BY DEF Frame
    <3>6. \A p \in Prio : p # c => queue'[p] = queue[p]
      <4>1. queue[c] # <<>>
        BY <2>1 DEF IsHead
      <4>2. \A p \in Prio \ {c} : Dequeue(queue, c)[p] = queue[p]
        BY <1>1, <4>1, DequeueType
      <4> QED
        BY <3>3, <4>2
    <3>7. \A p \in Prio : p > f.p => queue'[p] = <<>>
      <4>1. \A p \in Prio : p > c => p # c
        BY <1>1
      <4> QED
        BY <1>2, <3>2, <3>5, <3>6, <4>1
    <3> HIDE DEF f
    <3> QED
      BY <1>1, <2>1, <3>4, <3>5, <3>7, SettledPush
  <2>2. CASE DropLast(m) /\ ~(saveprio[m] < c)
    <3>1. mutexlist[Me] = m
      BY <2>2, Rules DEF DropLast, Lifo
    <3>2. currprio[Me] = saveprio[m]
      <4>1. Live(Me) /\ mutexlist[Me] # None
        BY <1>1, <1>2, <3>1, CallersLive
      <4> QED
        BY <1>1, <1>2, <2>2, <3>1, <4>1 DEF IndInv, Prios, OwnPrio, TakenPrio
    <3>3. /\ currprio' = [currprio EXCEPT ![Me] = saveprio[m]]
          /\ UNCHANGED <<queue, pc, currentexe>>
      BY <2>2 DEF DropLast
    <3>4. currprio' = currprio
      BY <1>1, <3>2, <3>3
    <3> QED
      BY <1>3, <3>3, <3>4
  <2>3. CASE ~(DropLast(m) /\ (saveprio[m] < c => IsHead(queue, c, Me)))
    BY <1>3, <1>5, <2>3 DEF DropMutex, DropOnce, DropLast, Panic, exeVars, cpuVars
  <2> QED
    BY <2>1, <2>2, <2>3
<1> QED
  BY <1>4, <1>5

LEMMA SettledDispatch ==
  ASSUME Disciplined, NEW r \in [Mutex -> Nat], IndInv(r), Settled, Dispatch
  PROVE  Settled'
<1>1. /\ pc = "sched" /\ frames # <<>> /\ Waiting # {}
      /\ currprio \in [Exe -> 0 .. MaxPrio + 1]
  BY DEF Dispatch, IndInv, FrameInv, Current, TypeOK
<1>2. PICK p \in Waiting : p = Max(Waiting) /\ \A q \in Waiting : q <= p
  BY <1>1, WaitingMax
<1>3. PICK e : e = Head(queue[p])
  OBVIOUS
<1>4. e \in Exe /\ BasePrio[e] = p /\ p > Top.low /\ p \in Prio /\ p \in Int
  <2>1. p \in 1 .. MaxPrio - 1
    BY <1>1, StartedFresh
  <2>2. Head(queue[p]) \in Exe /\ BasePrio[Head(queue[p])] = p /\ p > Top.low
    BY <1>1, StartedFresh
  <2> QED
    BY <1>3, <2>1, <2>2
<1>5. RunPrio[e] = p
  BY <1>4 DEF Disciplined
<1>6. CASE Panic("QueueCorrupt") \/ Panic("QueueOverflow")
  BY <1>1, <1>6 DEF Panic, exeVars, cpuVars, Settled, EmptyAbove, Me, Top
<1>7. CASE ~(Panic("QueueCorrupt") \/ Panic("QueueOverflow"))
  <2>1. Start(p, e)
    BY <1>2, <1>3, <1>7 DEF Dispatch
  <2>2. /\ queue' = queue /\ currentexe' = e /\ pc' = "app"
        /\ currprio' = [currprio EXCEPT ![e] = p]
    BY <1>4, <1>5, <1>7, <2>1 DEF Start, QueueStarted
  <2>3. Top.p \in Int /\ Top.low \in Int
    BY <1>1, SettledNumbers
  <2>4. p <= Top.p
    BY DEF Waiting
  <2>5. EmptyAbove(Top.p)
    BY <1>1, <1>4, <2>3, <2>4 DEF Settled
  <2>6. ASSUME NEW q \in Prio, q > p PROVE queue[q] = <<>>
    <3>1. CASE q > Top.p
      BY <2>5, <3>1 DEF EmptyAbove
    <3>2. CASE q <= Top.p
      <4>1. q \in Top.low + 1 .. Top.p /\ ~(q <= p)
        BY <1>4, <2>3, <2>6, <3>2
      <4> QED
        BY <1>2, <4>1 DEF Waiting
    <3> QED
      BY <2>3, <3>1, <3>2
  <2>7. currprio'[e] = p /\ Me' = e
    BY <1>1, <1>4, <2>2 DEF Me
  <2> QED
    BY <2>2, <2>6, <2>7 DEF Settled, EmptyAbove
<1> QED
  BY <1>6, <1>7

LEMMA SettledReturn ==
  ASSUME NEW r \in [Mutex -> Nat], IndInv(r), Settled, Return
  PROVE  Settled'
<1>1. pc = "sched" /\ Waiting = {} /\ frames # <<>>
  BY DEF Return, IndInv, FrameInv, Current
<1>2. Top.p \in Int /\ Top.low \in Int /\ Top.ret \in {"app", "chained"}
  <2>1. Top.p \in Int /\ Top.low \in Int
    BY <1>1, SettledNumbers
  <2> QED
    BY <1>1, <2>1, TopType DEF IndInv, FrameType
<1>3. ASSUME NEW q \in Prio, q > Top.low PROVE queue[q] = <<>>
  <2>1. CASE q <= Top.p
    <3>1. q \in Top.low + 1 .. Top.p
      BY <1>2, <1>3, <2>1
    <3> QED
      BY <1>1, <3>1 DEF Waiting
  <2>2. CASE q > Top.p
    BY <1>1, <1>2, <1>3, <2>2 DEF Settled, EmptyAbove
  <2> QED
    BY <1>2, <2>1, <2>2
<1>4. currprio[Top.exe] = Top.low
  <2>1. Len(frames) \in 1 .. Len(frames) /\ Top = frames[Len(frames)]
    BY <1>1, TopType DEF IndInv
  <2> QED
    BY <1>1, <2>1 DEF IndInv, FrameInv, Lows, OwnPrio
<1>5. UNCHANGED <<queue, currprio>> /\ Me' = Top.exe /\ pc' = Top.ret
  BY DEF Return, Me
<1> QED
  BY <1>2, <1>3, <1>4, <1>5 DEF Settled, EmptyAbove

LEMMA SettledLower ==
  ASSUME NEW r \in [Mutex -> Nat], IndInv(r), Settled, LowerPrio
  PROVE  Settled'
<1>1. /\ pc = "raised" /\ frames # <<>> /\ Me \in Exe /\ Top.p = MaxPrio - 1
      /\ Top.low \in 0 .. MaxPrio - 1 /\ queue \in [Prio -> Seq(Exe)]
  <2>1. pc = "raised" /\ frames # <<>> /\ Top.p = MaxPrio - 1
    BY DEF LowerPrio, IndInv, FrameInv, Current
  <2> QED
    BY <2>1, SettledNumbers DEF IndInv, TypeOK, Me
<1>2. CASE ~IsHead(queue, MaxPrio, Me)
  BY <1>1, <1>2 DEF LowerPrio, Panic, exeVars, cpuVars, Settled
<1>3. CASE IsHead(queue, MaxPrio, Me)
  <2>1. queue' = Dequeue(queue, MaxPrio) /\ pc' = "sched" /\ UNCHANGED <<frames, currentexe>>
    BY <1>3 DEF LowerPrio
  <2>2. MaxPrio \in Prio /\ queue[MaxPrio] # <<>> /\ queue[MaxPrio] \in Seq(Exe)
    BY <1>1, <1>3 DEF IsHead
  <2>3. Len(queue[MaxPrio]) = 1
    <3>1. Len(queue[MaxPrio]) \in Nat \ {0}
      BY <2>2
    <3>2. \A i \in 1 .. Len(queue[MaxPrio]) : queue[MaxPrio][i] = Me
      BY HighestEmpty
    <3>3. BasePrio[Me] # MaxPrio
      BY <1>1
    <3>4. \A i, j \in 1 .. Len(queue[MaxPrio]) : i = j
      BY <2>2, <3>2, <3>3, ZenonT(30) DEF IndInv, Entries
    <3>5. 1 \in 1 .. Len(queue[MaxPrio]) /\ Len(queue[MaxPrio]) \in 1 .. Len(queue[MaxPrio])
      BY <3>1
    <3> QED
      BY <3>4, <3>5
  <2>4. queue'[MaxPrio] = <<>>
    <3>1. queue'[MaxPrio] = Tail(queue[MaxPrio])
      BY <1>1, <2>1, <2>2, DequeueType
    <3>2. Tail(queue[MaxPrio]) \in Seq(Exe) /\ Len(Tail(queue[MaxPrio])) = 0
      BY <2>2, <2>3
    <3>3. PICK s \in Seq(Exe) : s = Tail(queue[MaxPrio])
      BY <3>2
    <3>4. s = <<>>
      BY <3>2, <3>3, EmptySeq
    <3> QED
      BY <3>1, <3>3, <3>4
  <2>5. ASSUME NEW q \in Prio, q > MaxPrio - 1 PROVE queue'[q] = <<>>
    BY <2>4, <2>5
  <2>6. Top' = Top /\ (Top.p > Top.low \/ Top.p = Top.low)
    BY <1>1, <2>1 DEF Top
  <2> QED
    BY <1>1, <2>1, <2>5, <2>6 DEF Settled, EmptyAbove
<1> QED
  BY <1>2, <1>3

LEMMA SettledFinish ==
  ASSUME Disciplined, NEW r \in [Mutex -> Nat], IndInv(r), Settled, FinishExit
  PROVE  Settled'
<1>1. pc = "exit" /\ Me # Idle /\ mutexlist[Top.e] = None
  BY DEF FinishExit, IndInv, FrameInv, Current
<1>2. CASE UNCHANGED <<queue, exeVars, cpuVars>>
  BY <1>1, <1>2 DEF exeVars, cpuVars, Settled, EmptyAbove, Me
<1>3. CASE ~UNCHANGED <<queue, exeVars, cpuVars>>
  <2>1. /\ Me = Top.e /\ Top.p > Top.low /\ BasePrio[Me] = Top.p /\ frames # <<>>
        /\ Me \in Exe /\ Live(Me) /\ queue \in [Prio -> Seq(Exe)]
    <3>1. frames # <<>>
      BY <1>1, MeOnTop
    <3> QED
      BY <1>1, <3>1, MeOnTop, CallersLive DEF IndInv, TypeOK, Me
  <2>2. RunPrio[Me] = BasePrio[Me]
    BY <2>1 DEF Disciplined
  <2>3. Top.eprio = BasePrio[Me]
    <3>1. Len(frames) \in 1 .. Len(frames) /\ Top = frames[Len(frames)]
      BY <2>1, TopType DEF IndInv
    <3>2. Occupied(Len(frames))
      BY <1>1, <3>1 DEF Occupied
    <3> QED
      BY <2>1, <2>2, <3>1, <3>2 DEF IndInv, FrameInv, Started
  <2>4. currprio[Me] = BasePrio[Me]
    BY <1>1, <2>1, <2>2 DEF IndInv, Prios, OwnPrio
  <2>5. /\ queue' = Dequeue(queue, BasePrio[Me]) /\ IsHead(queue, BasePrio[Me], Me)
        /\ pc' = "sched" /\ UNCHANGED frames
    BY <1>3, <2>1, <2>3 DEF FinishExit, AfterRunPrio, Panic, exeVars, cpuVars
  <2>6. \A q \in Prio \ {BasePrio[Me]} : queue'[q] = queue[q]
    <3>1. BasePrio[Me] \in Prio /\ queue[BasePrio[Me]] # <<>>
      BY <2>1, <2>5 DEF IsHead
    <3> QED
      BY <2>1, <2>5, <3>1, DequeueType, SMTT(30)
  <2>7. BasePrio[Me] \in Int
    BY <2>1
  <2>8. ASSUME NEW q \in Prio, q > BasePrio[Me] PROVE queue'[q] = <<>>
    <3>1. q # BasePrio[Me]
      BY <2>7, <2>8
    <3>2. queue[q] = <<>>
      BY <1>1, <2>4, <2>8 DEF Settled, EmptyAbove
    <3> QED
      BY <2>6, <3>1, <3>2
  <2>9. Top' = Top
    BY <2>5 DEF Top
  <2> QED
    BY <2>1, <2>5, <2>8, <2>9 DEF Settled, EmptyAbove
<1> QED
  BY <1>2, <1>3

\* An executable that ends holds no mutex.
LEMMA NothingReleased ==
  ASSUME NEW r, IndInv(r), ChainedFree
  PROVE  ~ReleaseMutex
<1> SUFFICES ASSUME ReleaseMutex PROVE FALSE
  OBVIOUS
<1>1. pc = "exit" /\ mutexlist[Top.e] # None
  BY DEF ReleaseMutex
<1>2. Me = Top.e
  BY <1>1, MeOnTop DEF IndInv, FrameInv, Current
<1> QED
  BY <1>1, <1>2 DEF ChainedFree

LEMMA SettledNext ==
  ASSUME Disciplined, NEW r \in [Mutex -> Nat], IndInv(r), Urgent, Next
  PROVE  Settled'
<1> USE DEF exeVars, cpuVars
<1>0. Settled /\ ChainedFree
  BY DEF Urgent
<1>p. ASSUME UNCHANGED <<queue, frames, currprio, currentexe, pc>> PROVE Settled'
  BY <1>p, <1>0 DEF Settled, EmptyAbove, Me, Top
<1>q. ASSUME pc' \in {"irq", "raised"} PROVE Settled'
  BY <1>q DEF Settled
<1>1. ASSUME NEW t \in Task, ActivateTask(t) \/ ChainTask(t) PROVE Settled'
  <2>1. CASE Panic("QueueOverflow") \/ Panic("CurrentExeDead")
    BY <1>p, <2>1 DEF Panic
  <2>2. CASE ~(Panic("QueueOverflow") \/ Panic("CurrentExeDead"))
    <3>1. \/ pc = "app" /\ (Activate(t, "app") \/ Activate(t, "chained"))
          \/ pc = "raised" /\ Activate(t, pc)
      BY <1>1, <2>2 DEF ActivateTask, ChainTask
    <3>2. CASE pc = "app"
      BY <1>0, <3>1, <3>2, SettledActivate
    <3>3. CASE pc = "raised"
      <4>1. currprio[Me] >= MaxPrio /\ currprio[Me] \in Int
        BY <3>3 DEF IndInv, FrameInv, Current, TypeOK, Me
      <4>2. ~(BasePrio[t] > currprio[Me])
        BY <4>1
      <4>3. pc' = "raised"
        BY <3>1, <3>3, <4>2 DEF Activate, RunQueued
      <4> QED
        BY <1>q, <4>3
    <3> QED
      BY <3>1, <3>2, <3>3
  <2> QED
    BY <2>1, <2>2
<1>2. ASSUME TerminateTask \/ ReturnFromMain \/ ChainExit PROVE Settled'
  <2>1. CASE Panic("CurrentExeDead")
    BY <1>p, <2>1 DEF Panic
  <2>2. CASE ~Panic("CurrentExeDead")
    <3>1. /\ UNCHANGED <<queue, currprio, currentexe>>
          /\ pc \in {"app", "chained"} /\ pc' = "exit"
      BY <1>2, <2>2 DEF TerminateTask, ReturnFromMain, ChainExit, LongjmpToExit
    <3> QED
      BY <1>0, <3>1 DEF Settled, EmptyAbove, Me
  <2> QED
    BY <2>1, <2>2
<1>3. ASSUME RaisePrio \/ CatchIrq PROVE Settled'
  <2>1. pc' \in {"irq", "raised"} \/ Panic("QueueOverflow")
    BY <1>3 DEF RaisePrio, CatchIrq
  <2> QED
    BY <1>p, <1>q, <2>1 DEF Panic
<1>4. ASSUME NEW i \in Isr, VectorIrq(i) PROVE Settled'
  <2>1. currprio[Me] >= MaxPrio /\ currprio[Me] \in Int
    BY <1>4 DEF VectorIrq, IndInv, FrameInv, Current, TypeOK, Me
  <2>2. ~(BasePrio[i] > currprio[Me])
    BY <2>1
  <2>3. pc' = "irq"
    BY <1>4, <2>2 DEF VectorIrq, Activate, RunQueued, Panic
  <2> QED
    BY <1>q, <2>3
<1>5. ASSUME IrqDone PROVE Settled'
  <2>1. CASE Panic("QueueCorrupt")
    BY <1>p, <2>1 DEF Panic
  <2>2. CASE ~Panic("QueueCorrupt")
    <3>1. pc = "irq" /\ pc' = "sched" /\ frames' = frames /\ Top' = Top
      BY <1>5, <2>2 DEF IrqDone, Top
    <3>2. Top.p = MaxPrio /\ Top.p > Top.low
      <4>1. frames # <<>> /\ Top.p = MaxPrio
        BY <3>1 DEF IndInv, FrameInv, Current
      <4>2. Top.low \in 0 .. MaxPrio - 1
        BY <4>1, SettledNumbers
      <4> QED
        BY <4>1, <4>2
    <3>3. \A q \in Prio : ~(q > MaxPrio)
      OBVIOUS
    <3> QED
      BY <3>1, <3>2, <3>3 DEF Settled, EmptyAbove
  <2> QED
    BY <2>1, <2>2
<1>6. ~ReleaseMutex
  BY <1>0, NothingReleased
<1> QED
  BY <1>0, <1>1, <1>2, <1>3, <1>4, <1>5, <1>6, SettledMutex, SettledDispatch, SettledReturn,
     SettledLower, SettledFinish DEF Next, Call, End, Kernel

\* While an executable's code runs nothing more urgent is queued.
THEOREM PriorityOrder ==
  ASSUME Disciplined
  PROVE  Spec => []StrictPriority
<1>1. Init => Urgent
  BY DEF Init, Urgent, Settled, ChainedFree
<1>2. Urgent /\ Inv /\ [Next]_vars => Urgent'
  <2> SUFFICES ASSUME Urgent, Inv, [Next]_vars PROVE Urgent'
    OBVIOUS
  <2>1. CASE Next
    BY <2>1, SettledNext, ChainedNext DEF Inv, Urgent
  <2>2. CASE UNCHANGED vars
    BY <2>2 DEF vars, exeVars, cpuVars, Urgent, Settled, ChainedFree, EmptyAbove, Top, Me
  <2> QED
    BY <2>1, <2>2
<1>3. Urgent => StrictPriority
  BY DEF Urgent, Settled, EmptyAbove, StrictPriority, Running
<1>4. Lifo
  BY Rules
<1> QED
  BY <1>1, <1>2, <1>3, <1>4, Invariance, PTL DEF Spec

-----------------------------------------------------------------------------
(* Part three: the queues entry by entry                                   *)

-----------------------------------------------------------------------------
(* Counting the entries of a queue                                         *)

Copies(q, x) == {i \in DOMAIN q : q[i] = x}

LEMMA CopiesFinite ==
  ASSUME NEW q \in Seq(Exe), NEW x
  PROVE  /\ IsFiniteSet(Copies(q, x)) /\ Cardinality(Copies(q, x)) \in Nat
         /\ \A i \in DOMAIN q : q[i] = x => Cardinality(Copies(q, x)) > 0
<1>1. IsFiniteSet(1 .. Len(q)) /\ Copies(q, x) \in SUBSET (1 .. Len(q))
  <2>1. Len(q) \in Int /\ 1 \in Int /\ DOMAIN q = 1 .. Len(q)
    OBVIOUS
  <2> QED
    BY <2>1, FS_Interval DEF Copies
<1>2. IsFiniteSet(Copies(q, x)) /\ Cardinality(Copies(q, x)) \in Nat
  BY <1>1, FS_Subset, FS_CardinalityType
<1>3. ASSUME NEW i \in DOMAIN q, q[i] = x PROVE Cardinality(Copies(q, x)) > 0
  <2>1. Copies(q, x) # {}
    BY <1>3 DEF Copies
  <2>2. Cardinality(Copies(q, x)) # 0
    BY <1>2, <2>1, FS_EmptySet
  <2> QED
    BY <1>2, <2>2
<1> QED
  BY <1>2, <1>3

LEMMA CopiesEnqueue ==
  ASSUME queue \in [Prio -> Seq(Exe)], NEW p \in Prio, NEW e \in Exe, NEW x \in Exe,
         queue' = Enqueue(queue, p, e)
  PROVE  Cardinality(Copies(queue'[p], x)) =
           Cardinality(Copies(queue[p], x)) + (IF x = e THEN 1 ELSE 0)
<1>0. PICK q \in Seq(Exe) : q = queue[p]
  OBVIOUS
<1>1. PICK t \in Seq(Exe) : t = Append(q, e) /\ t = queue'[p]
  <2>1. Append(q, e) \in Seq(Exe)
    OBVIOUS
  <2>2. queue'[p] = Append(queue[p], e)
    BY DEF Enqueue
  <2> QED
    BY <1>0, <2>1, <2>2
<1>2. PICK n \in Nat : n = Len(q)
  OBVIOUS
<1>3. /\ DOMAIN q = 1 .. n /\ DOMAIN t = 1 .. n + 1
      /\ \A i \in 1 .. n : t[i] = q[i]
      /\ t[n + 1] = e
  <2>1. t = Append(q, e)
    BY <1>1
  <2> QED
    BY <1>2, <2>1
<1>4. IsFiniteSet(Copies(q, x)) /\ Cardinality(Copies(q, x)) \in Nat
  BY CopiesFinite
<1>5. CASE x = e
  <2>1. Copies(t, x) = Copies(q, x) \union {n + 1}
    <3>1. \A i \in 1 .. n + 1 : i \in 1 .. n \/ i = n + 1
      OBVIOUS
    <3> QED
      BY <1>3, <1>5, <3>1 DEF Copies
  <2>2. n + 1 \notin Copies(q, x)
    BY <1>3 DEF Copies
  <2>3. Cardinality(Copies(q, x) \union {n + 1}) = Cardinality(Copies(q, x)) + 1
    BY <1>4, <2>2, FS_AddElement
  <2> QED
    BY <1>0, <1>1, <1>5, <2>1, <2>3
<1>6. CASE x # e
  <2>1. Copies(t, x) = Copies(q, x)
    <3>1. \A i \in 1 .. n + 1 : i \in 1 .. n \/ i = n + 1
      OBVIOUS
    <3> QED
      BY <1>3, <1>6, <3>1 DEF Copies
  <2> QED
    BY <1>0, <1>1, <1>4, <1>6, <2>1
<1> QED
  BY <1>5, <1>6

LEMMA CopiesTail ==
  ASSUME NEW q \in Seq(Exe), q # <<>>, NEW x
  PROVE  Cardinality(Copies(Tail(q), x)) =
           Cardinality(Copies(q, x)) - (IF x = Head(q) THEN 1 ELSE 0)
<1>0. Tail(q) \in Seq(Exe)
  OBVIOUS
<1>1. PICK t \in Seq(Exe) : t = Tail(q)
  BY <1>0
<1>2. PICK n \in Nat : n + 1 = Len(q)
  <2>1. Len(q) \in Nat \ {0}
    OBVIOUS
  <2>2. Len(q) - 1 \in Nat /\ (Len(q) - 1) + 1 = Len(q)
    BY <2>1
  <2> QED
    BY <2>2
<1>3. /\ DOMAIN q = 1 .. n + 1 /\ DOMAIN t = 1 .. n
      /\ \A i \in 1 .. n : t[i] = q[i + 1]
      /\ q[1] = Head(q)
  BY <1>1, <1>2
<1>4. IsFiniteSet(Copies(q, x)) /\ Cardinality(Copies(q, x)) \in Nat
  BY CopiesFinite
<1>5. IsFiniteSet(Copies(t, x)) /\ Cardinality(Copies(t, x)) \in Nat
  BY CopiesFinite
<1>6. Cardinality(Copies(t, x)) = Cardinality(Copies(q, x) \ {1})
  <2> DEFINE f == [i \in Copies(t, x) |-> i + 1]
  <2>1. ASSUME NEW i \in Copies(t, x) PROVE i + 1 \in Copies(q, x) \ {1}
    BY <1>3 DEF Copies
  <2>2. ASSUME NEW k \in Copies(q, x) \ {1} PROVE k - 1 \in Copies(t, x) /\ (k - 1) + 1 = k
    <3>1. k \in 1 .. n + 1 /\ k # 1 /\ q[k] = x
      BY <1>3 DEF Copies
    <3>2. k - 1 \in 1 .. n /\ (k - 1) + 1 = k
      BY <3>1
    <3> QED
      BY <1>3, <3>1, <3>2 DEF Copies
  <2>3. \A i \in Copies(t, x) : i \in Int
    BY <1>3 DEF Copies
  <2>4. f \in Injection(Copies(t, x), Copies(q, x) \ {1})
    BY <2>1, <2>3 DEF Injection, IsInjective
  <2>5. f \in Surjection(Copies(t, x), Copies(q, x) \ {1})
    BY <2>1, <2>2 DEF Surjection
  <2>6. ExistsBijection(Copies(t, x), Copies(q, x) \ {1})
    BY <2>4, <2>5 DEF ExistsBijection, Bijection
  <2> QED
    BY <1>5, <2>6, FS_Bijection
<1>7. CASE x = Head(q)
  <2>1. 1 \in Copies(q, x)
    BY <1>3, <1>7 DEF Copies
  <2>2. Cardinality(Copies(q, x) \ {1}) = Cardinality(Copies(q, x)) - 1
    BY <1>4, <2>1, FS_RemoveElement
  <2> QED
    BY <1>1, <1>6, <1>7, <2>2
<1>8. CASE x # Head(q)
  <2>1. 1 \notin Copies(q, x)
    BY <1>3, <1>8 DEF Copies
  <2>2. Copies(q, x) \ {1} = Copies(q, x)
    BY <2>1
  <2>3. Cardinality(Copies(t, x)) = Cardinality(Copies(q, x))
    BY <1>6, <2>2
  <2> QED
    BY <1>1, <1>4, <1>8, <2>3
<1> QED
  BY <1>7, <1>8

-----------------------------------------------------------------------------
(* The ring buffers are long enough (dv_createqueues()).                   *)

LEMMA ActivationsFinite ==
  \A p \in Prio : IsFiniteSet(Activations(p)) /\ Cardinality(Activations(p)) \in Nat
<1> TAKE p \in Prio
<1> DEFINE E == {x \in Exe : BasePrio[x] = p}
           F == {{e} \X (1 .. MaxAct[e]) : e \in E}
           g == [e \in E |-> {e} \X (1 .. MaxAct[e])]
<1>1. IsFiniteSet(E)
  BY FS_Subset, E \subseteq Exe
<1>2. g \in Surjection(E, F)
  BY DEF Surjection
<1>3. IsFiniteSet(F)
  BY <1>1, <1>2, FS_Surjection
<1>4. ASSUME NEW S \in F PROVE IsFiniteSet(S)
  <2>1. PICK e \in E : S = {e} \X (1 .. MaxAct[e])
    OBVIOUS
  <2>2. IsFiniteSet({e})
    BY FS_Singleton
  <2>3. MaxAct[e] \in Int /\ 1 \in Int
    OBVIOUS
  <2>4. IsFiniteSet(1 .. MaxAct[e])
    BY <2>3, FS_Interval
  <2> QED
    BY <2>1, <2>2, <2>4, FS_Product
<1>5. IsFiniteSet(UNION F)
  BY <1>3, <1>4, FS_UNION
<1>6. Activations(p) = UNION F
  BY DEF Activations
<1> QED
  BY <1>5, <1>6, FS_CardinalityType

\* The entries after the first, counted for each executable.
Before(q, i) == {j \in 2 .. i : q[j] = q[i]}

LEMMA BeforeFacts ==
  ASSUME NEW q \in Seq(Exe), NEW i \in 2 .. Len(q)
  PROVE  /\ IsFiniteSet(Before(q, i)) /\ Cardinality(Before(q, i)) \in Nat \ {0}
         /\ Cardinality(Before(q, i)) <=
              Cardinality(Copies(q, q[i])) - (IF q[1] = q[i] THEN 1 ELSE 0)
         /\ \A k \in 2 .. Len(q) : i < k /\ q[i] = q[k] =>
              Cardinality(Before(q, i)) < Cardinality(Before(q, k))
<1>1. PICK n \in Nat : n = Len(q) /\ DOMAIN q = 1 .. n
  <2>1. Len(q) \in Nat /\ DOMAIN q = 1 .. Len(q)
    OBVIOUS
  <2> QED
    BY <2>1
<1>2. i \in Int /\ i >= 2 /\ i <= n /\ 1 \in 1 .. n /\ i \in 1 .. n
  BY <1>1
<1>3. \A k \in 2 .. n : IsFiniteSet(Before(q, k))
  <2> TAKE k \in 2 .. n
  <2>0. k \in Int /\ 2 \in Int
    OBVIOUS
  <2>1. IsFiniteSet(2 .. k)
    BY <2>0, FS_Interval
  <2>2. Before(q, k) \in SUBSET (2 .. k)
    BY DEF Before
  <2> QED
    BY <2>1, <2>2, FS_Subset
<1>4. IsFiniteSet(Before(q, i)) /\ Cardinality(Before(q, i)) \in Nat \ {0}
  <2>1. IsFiniteSet(Before(q, i)) /\ Cardinality(Before(q, i)) \in Nat
    BY <1>1, <1>3, FS_CardinalityType
  <2>2. i \in Before(q, i)
    BY <1>2 DEF Before
  <2>3. Cardinality(Before(q, i)) # 0
    BY <2>1, <2>2, FS_EmptySet
  <2> QED
    BY <2>1, <2>3
<1>5. Cardinality(Before(q, i)) <=
        Cardinality(Copies(q, q[i])) - (IF q[1] = q[i] THEN 1 ELSE 0)
  <2>1. IsFiniteSet(Copies(q, q[i])) /\ Cardinality(Copies(q, q[i])) \in Nat
    BY CopiesFinite
  <2>2. Before(q, i) \subseteq Copies(q, q[i])
    <3>1. \A j \in 2 .. i : j \in 1 .. n
      BY <1>2
    <3> QED
      BY <1>1, <3>1 DEF Before, Copies
  <2>3. CASE q[1] = q[i]
    <3>1. 1 \in Copies(q, q[i])
      BY <1>1, <1>2, <2>3 DEF Copies
    <3>2. Cardinality(Copies(q, q[i]) \ {1}) = Cardinality(Copies(q, q[i])) - 1
          /\ IsFiniteSet(Copies(q, q[i]) \ {1})
      BY <2>1, <3>1, FS_RemoveElement
    <3>3. 1 \notin Before(q, i)
      BY <1>2 DEF Before
    <3>4. Before(q, i) \subseteq Copies(q, q[i]) \ {1}
      BY <2>2, <3>3
    <3>5. Cardinality(Before(q, i)) <= Cardinality(Copies(q, q[i]) \ {1})
      BY <3>2, <3>4, FS_Subset
    <3> QED
      BY <2>3, <3>2, <3>5
  <2>4. CASE q[1] # q[i]
    <3>1. Cardinality(Before(q, i)) <= Cardinality(Copies(q, q[i]))
      BY <2>1, <2>2, FS_Subset
    <3> QED
      BY <2>1, <2>4, <3>1
  <2> QED
    BY <2>3, <2>4
<1>6. ASSUME NEW k \in 2 .. Len(q), i < k, q[i] = q[k]
      PROVE  Cardinality(Before(q, i)) < Cardinality(Before(q, k))
  <2>1. k \in 2 .. n /\ k \in Int /\ IsFiniteSet(Before(q, k)) /\ Cardinality(Before(q, k)) \in Nat
    BY <1>1, <1>3, FS_CardinalityType
  <2>2. k \in Before(q, k) /\ k \notin Before(q, i)
    BY <1>2, <1>6, <2>1 DEF Before
  <2>3. Before(q, i) \subseteq Before(q, k)
    <3>1. \A j \in 2 .. i : j \in 2 .. k
      BY <1>2, <1>6, <2>1
    <3> QED
      BY <1>6, <3>1 DEF Before
  <2>4. Before(q, i) \subseteq Before(q, k) \ {k}
    BY <2>2, <2>3
  <2>5. /\ IsFiniteSet(Before(q, k) \ {k})
        /\ Cardinality(Before(q, k) \ {k}) = Cardinality(Before(q, k)) - 1
    BY <2>1, <2>2, FS_RemoveElement
  <2>6. Cardinality(Before(q, i)) <= Cardinality(Before(q, k) \ {k})
    BY <2>4, <2>5, FS_Subset
  <2> QED
    BY <1>4, <2>1, <2>5, <2>6
<1> QED
  BY <1>4, <1>5, <1>6

\* Only the first entry of q may be one too many when t may be activated.
Admits(q, t) == \A i \in 2 .. Len(q) :
  /\ BasePrio[q[i]] = BasePrio[t]
  /\ Cardinality(Copies(q, q[i])) - (IF q[1] = q[i] THEN 1 ELSE 0)
       <= MaxAct[q[i]] - (IF q[i] = t THEN 1 ELSE 0)

LEMMA Room ==
  ASSUME queue \in [Prio -> Seq(Exe)], NEW t \in Exe, Admits(queue[BasePrio[t]], t)
  PROVE  ~Full(queue, BasePrio[t])
<1>0. PICK q : q = queue[BasePrio[t]]
  OBVIOUS
<1>1. PICK p \in Prio : p = BasePrio[t]
  OBVIOUS
<1>2. q \in Seq(Exe)
  BY <1>0, <1>1
<1>3. PICK n \in Nat : n = Len(q)
  BY <1>2
<1>4. \A i \in 1 .. n : q[i] \in Exe
  BY <1>2, <1>3
<1> DEFINE A == Activations(p)
           place(i) == IF i = 1 THEN <<t, MaxAct[t]>> ELSE <<q[i], Cardinality(Before(q, i))>>
           f == [i \in 1 .. n |-> place(i)]
<1>5. \A e \in Exe : BasePrio[e] = p => \A k \in 1 .. MaxAct[e] : <<e, k>> \in A
  BY DEF Activations
<1>6. ASSUME NEW i \in 2 .. n
      PROVE  /\ q[i] \in Exe /\ BasePrio[q[i]] = p
             /\ Cardinality(Before(q, i)) \in 1 .. MaxAct[q[i]]
             /\ q[i] = t => Cardinality(Before(q, i)) # MaxAct[t]
  <2>1. q[i] \in Exe /\ BasePrio[q[i]] = p
    <3>1. i \in 1 .. n
      OBVIOUS
    <3> QED
      BY <1>0, <1>1, <1>3, <1>4, <3>1 DEF Admits
  <2>2. /\ Cardinality(Before(q, i)) \in Nat \ {0}
        /\ Cardinality(Before(q, i)) <=
             Cardinality(Copies(q, q[i])) - (IF q[1] = q[i] THEN 1 ELSE 0)
    BY <1>2, <1>3, BeforeFacts
  <2>3. Cardinality(Copies(q, q[i])) - (IF q[1] = q[i] THEN 1 ELSE 0)
          <= MaxAct[q[i]] - (IF q[i] = t THEN 1 ELSE 0)
    BY <1>0, <1>3 DEF Admits
  <2>4. Cardinality(Copies(q, q[i])) \in Nat /\ MaxAct[q[i]] \in Nat
    BY <1>2, <2>1, CopiesFinite
  <2> DEFINE first == IF q[1] = q[i] THEN 1 ELSE 0
             again == IF q[i] = t THEN 1 ELSE 0
  <2>5. PICK b, c, a \in Nat : /\ b = Cardinality(Before(q, i)) /\ b # 0
                              /\ c = Cardinality(Copies(q, q[i])) /\ a = MaxAct[q[i]]
    BY <2>2, <2>4
  <2>6. PICK u \in {0, 1} : u = first
    OBVIOUS
  <2>7. PICK v \in {0, 1} : v = again
    OBVIOUS
  <2>8. b <= c - u /\ c - u <= a - v
    BY <2>2, <2>3, <2>5, <2>6, <2>7
  <2>9. b \in 1 .. a
    <3>1. b # 0
      BY <2>5
    <3>2. b <= a
      BY <2>8
    <3> QED
      BY <3>1, <3>2
  <2>10. q[i] = t => v = 1
    BY <2>7
  <2>11. v = 1 => b # a
    BY <2>8
  <2> QED
    BY <2>1, <2>5, <2>9, <2>10, <2>11
<1>7. \A i \in 1 .. n : place(i) \in A
  <2> TAKE i \in 1 .. n
  <2>1. CASE i = 1
    <3>1. MaxAct[t] \in 1 .. MaxAct[t]
      OBVIOUS
    <3> QED
      BY <1>1, <1>5, <2>1, <3>1
  <2>2. CASE i # 1
    <3>1. i \in 2 .. n
      BY <2>2
    <3> QED
      BY <1>5, <1>6, <2>2, <3>1
  <2> QED
    BY <2>1, <2>2
<1>8. ASSUME NEW i \in 1 .. n, NEW k \in 1 .. n, i < k PROVE place(i) # place(k)
  <2>1. k \in 2 .. n
    BY <1>8
  <2>2. CASE i = 1
    <3>1. q[k] = t => Cardinality(Before(q, k)) # MaxAct[t]
      BY <1>6, <2>1
    <3>2. place(i) = <<t, MaxAct[t]>> /\ place(k) = <<q[k], Cardinality(Before(q, k))>>
      BY <2>1, <2>2
    <3> QED
      BY <3>1, <3>2
  <2>3. CASE i # 1
    <3>1. i \in 2 .. n
      BY <2>3
    <3>2. /\ Cardinality(Before(q, i)) \in Nat /\ Cardinality(Before(q, k)) \in Nat
          /\ q[i] = q[k] => Cardinality(Before(q, i)) < Cardinality(Before(q, k))
      BY <1>2, <1>3, <1>8, <2>1, <3>1, BeforeFacts
    <3>3. q[i] = q[k] => Cardinality(Before(q, i)) # Cardinality(Before(q, k))
      BY <3>2
    <3> QED
      BY <1>8, <2>1, <2>3, <3>3
  <2> QED
    BY <2>2, <2>3
<1>9. \A i, k \in 1 .. n : place(i) = place(k) => i = k
  <2>1. \A i, k \in 1 .. n : i < k \/ k < i \/ i = k
    OBVIOUS
  <2> QED
    BY <1>8, <2>1
<1> HIDE DEF place, A
<1>10. f \in Injection(1 .. n, A)
  BY <1>7, <1>9 DEF Injection, IsInjective
<1>11. IsFiniteSet(A) /\ Cardinality(A) \in Nat
  BY ActivationsFinite DEF A
<1>12. IsFiniteSet(1 .. n) /\ Cardinality(1 .. n) = n
  <2>1. n \in Int /\ 1 \in Int
    OBVIOUS
  <2>2. Cardinality(1 .. n) = IF 1 > n THEN 0 ELSE n - 1 + 1
    BY <2>1, FS_Interval
  <2> QED
    BY <2>1, <2>2, FS_Interval
<1>13. n <= Cardinality(A)
  BY <1>10, <1>11, <1>12, FS_Injection
<1>14. NSlots(p) = 2 + Cardinality(A)
  BY DEF NSlots, A
<1> QED
  BY <1>0, <1>1, <1>3, <1>11, <1>13, <1>14 DEF Full

\* Nothing is in the way in an empty queue.
LEMMA RoomWhenEmpty ==
  ASSUME NEW p \in Prio, queue[p] = <<>>
  PROVE  ~Full(queue, p)
<1>1. Cardinality(Activations(p)) \in Nat
  BY ActivationsFinite
<1> QED
  BY <1>1 DEF Full, NSlots

-----------------------------------------------------------------------------
(* Consequences of the invariant                                           *)

LEMMA QueueTypes ==
  ASSUME NEW r, IndInv(r)
  PROVE  /\ queue \in [Prio -> Seq(Exe)] /\ frames \in Seq(FrameType) /\ Me \in Exe
         /\ nact \in [Exe -> Int] /\ jb \in [Exe -> Nat] /\ None \notin Exe
         /\ \A e \in Exe : BasePrio[e] \in Prio /\ BasePrio[e] \in Int /\ BasePrio[e] < MaxPrio
<1>1. \A e \in Exe : BasePrio[e] \in Prio /\ BasePrio[e] \in Int /\ BasePrio[e] < MaxPrio
  OBVIOUS
<1>2. \A e : None # e \/ e \notin Exe
  OBVIOUS
<1> QED
  BY <1>1, <1>2 DEF IndInv, TypeOK, Me

LEMMA ChainingLive ==
  ASSUME NEW r, IndInv(r), NEW e \in Exe, Chaining(e)
  PROVE  Live(e)
BY CallersLive DEF Chaining

\* The code that runs is not in dv_chaintask().
LEMMA NotYetChaining ==
  ASSUME NEW r, IndInv(r), pc = "app"
  PROVE  ~Chaining(Me)
BY MeOnTop DEF Chaining

LEMMA Counted ==
  ASSUME NEW r, IndInv(r), NoLostActivation, NEW e \in Exe
  PROVE  nact[e] = Cardinality(Copies(queue[BasePrio[e]], e)) /\ nact[e] \in Nat
<1>1. nact[e] = Cardinality(Copies(queue[BasePrio[e]], e))
  BY DEF NoLostActivation, Queued, Copies
<1>2. queue[BasePrio[e]] \in Seq(Exe)
  BY QueueTypes
<1> QED
  BY <1>1, <1>2, CopiesFinite, ZenonT(30)

\* dv_enqueue() finds room for an activation that dv_activateexe() or dv_chaintask()
\* has admitted.
LEMMA ActivationFits ==
  ASSUME NEW r, IndInv(r), QueueInv, NEW t \in Exe,
         CanActivate(t) \/ (pc = "app" /\ t = Me)
  PROVE  ~Full(queue, BasePrio[t])
<1>1. PICK q \in Seq(Exe) : q = queue[BasePrio[t]]
  BY QueueTypes
<1>2. PICK n \in Nat : n = Len(q)
  OBVIOUS
<1>3. \A x \in Exe : Live(x) /\ BasePrio[x] = BasePrio[t] => q[1] = x
  BY <1>1 DEF QueueInv, LiveFirst, IsHead
<1>4. ASSUME NEW i \in 2 .. n
      PROVE  /\ BasePrio[q[i]] = BasePrio[t]
             /\ Cardinality(Copies(q, q[i])) - (IF q[1] = q[i] THEN 1 ELSE 0)
                  <= MaxAct[q[i]] - (IF q[i] = t THEN 1 ELSE 0)
  <2>1. i \in 1 .. Len(q) /\ i # 1
    BY <1>2
  <2>2. PICK x \in Exe : x = q[i]
    BY <1>2, <2>1
  <2>3. BasePrio[x] = BasePrio[t]
    <3>1. BasePrio[t] \in Prio
      OBVIOUS
    <3> QED
      BY <1>1, <2>1, <2>2, <3>1 DEF QueueInv, RaisedFirst
  <2>4. nact[x] = Cardinality(Copies(q, x)) /\ nact[x] \in Nat
    BY <1>1, <2>3, Counted DEF QueueInv
  <2>5. PICK k, a \in Nat : k = nact[x] /\ a = MaxAct[x] /\ k <= a + 1
    <3>1. nact[x] \in Nat /\ MaxAct[x] \in Nat
      BY <2>4
    <3>2. nact[x] <= MaxAct[x] + 1
      BY <3>1 DEF QueueInv, WithinLimits
    <3> QED
      BY <3>1, <3>2
  <2>6. q[1] # x => ~Chaining(x) /\ k <= a
    <3>1. q[1] # x => ~Chaining(x)
      BY <1>3, <2>3, ChainingLive
    <3> QED
      BY <2>5, <3>1 DEF QueueInv, WithinLimits
  <2>7. x = t => k < a \/ (q[1] = x /\ k <= a)
    <3>1. CASE CanActivate(t)
      BY <2>5, <3>1 DEF CanActivate
    <3>2. CASE pc = "app" /\ t = Me
      <4>1. Live(t) /\ ~Chaining(t)
        BY <3>2, MeLive, NotYetChaining, QueueTypes, CallersLive
      <4> QED
        BY <1>3, <2>5, <4>1 DEF QueueInv, WithinLimits
    <3> QED
      BY <3>1, <3>2
  <2>8. k - (IF q[1] = x THEN 1 ELSE 0) <= a - (IF x = t THEN 1 ELSE 0)
    <3>1. CASE q[1] = x /\ x = t
      BY <2>7, <3>1
    <3>2. CASE q[1] = x /\ x # t
      BY <2>5, <3>2
    <3>3. CASE q[1] # x /\ x = t
      BY <2>7, <3>3
    <3>4. CASE q[1] # x /\ x # t
      BY <2>6, <3>4
    <3> QED
      BY <3>1, <3>2, <3>3, <3>4
  <2> QED
    BY <2>2, <2>3, <2>4, <2>5, <2>8
<1>5. Admits(queue[BasePrio[t]], t)
  BY <1>1, <1>2, <1>4 DEF Admits
<1>6. queue \in [Prio -> Seq(Exe)]
  BY QueueTypes
<1> QED
  BY <1>5, <1>6, Room

\* The newest frame of an executable that ends, without groups.
LEMMA EndsInPlace ==
  ASSUME Disciplined, NEW r, IndInv(r), QueueInv, pc = "exit"
  PROVE  /\ Top.e = Me /\ Me \in Exe /\ Top.eprio = BasePrio[Me] /\ AfterRunPrio(Me) = queue
         /\ IsHead(queue, BasePrio[Me], Me) /\ Live(Me) /\ frames # <<>> /\ Top.exe # Me
<1>1. Me \in Exe /\ Me # Idle /\ Live(Me)
  BY CallersLive, QueueTypes DEF IndInv, FrameInv, Current
<1>2. frames # <<>> /\ Top.e = Me /\ Top.eprio = RunPrio[Me]
  BY <1>1, MeOnTop
<1>3. Top.eprio = BasePrio[Me]
  BY <1>1, <1>2 DEF Disciplined
<1>4. IsHead(queue, BasePrio[Me], Me)
  BY <1>1 DEF QueueInv, LiveFirst
<1>5. Top.exe # Me
  <2>1. Len(frames) \in 1 .. Len(frames) /\ Top = frames[Len(frames)]
    BY <1>2, TopType DEF IndInv
  <2> QED
    BY <2>1, MeOnTop
<1> QED
  BY <1>1, <1>2, <1>3, <1>4, <1>5 DEF AfterRunPrio

-----------------------------------------------------------------------------
(* The kernel never panics.                                                *)

LEMMA CallsDoNotPanic ==
  ASSUME Disciplined, NEW r \in [Mutex -> Nat], IndInv(r), Urgent, QueueInv, panic = "none",
         Call \/ End \/ CatchIrq
  PROVE  panic' = "none"
<1>1. ASSUME NEW t \in Task, ActivateTask(t) PROVE panic' = "none"
  <2>1. ~Full(queue, BasePrio[t])
    BY <1>1, ActivationFits DEF ActivateTask
  <2> QED
    BY <1>1, <2>1 DEF ActivateTask, Activate
<1>2. ASSUME pc = "app", MayExit PROVE jb[Me] # 0
  <2>1. Me # Idle
    BY <1>2 DEF MayExit
  <2>2. frames # <<>> /\ jb[Me] = Len(frames)
    BY <1>2, <2>1, MeOnTop
  <2>3. Len(frames) \in Nat \ {0}
    BY <2>2, TopType DEF IndInv
  <2> QED
    BY <2>2, <2>3
<1>3. ASSUME NEW t \in Task, ChainTask(t) PROVE panic' = "none"
  <2>1. ~Full(queue, BasePrio[t])
    BY <1>3, ActivationFits DEF ChainTask
  <2> QED
    BY <1>2, <1>3, <2>1 DEF ChainTask, Activate
<1>4. ASSUME End PROVE panic' = "none"
  BY <1>2, <1>4 DEF End, TerminateTask, ReturnFromMain
<1>5. ASSUME NEW m \in Mutex, TakeMutex(m) PROVE panic' = "none"
  <2>1. pc = "app" /\ Ceiling[m] >= BasePrio[Me]
    BY <1>5 DEF TakeMutex
  <2>2. owner[m] \in {None, Me}
    <3>1. owner[m] \notin {None, Me} => BasePrio[Me] > Ceiling[m]
      BY <2>1, Excluded DEF MutualExclusion
    <3>2. BasePrio[Me] \in Int /\ Ceiling[m] \in Int
      BY QueueTypes
    <3> QED
      BY <2>1, <3>1, <3>2
  <2>3. ASSUME currprio[Me] < Ceiling[m] PROVE ~Full(queue, Ceiling[m])
    <3>0. currprio[Me] \in 0 .. MaxPrio + 1 /\ Ceiling[m] \in 0 .. MaxPrio - 1
      BY QueueTypes DEF IndInv, TypeOK
    <3>1. currprio[Me] \in Int /\ Ceiling[m] \in Prio /\ Ceiling[m] \in Int
      BY <3>0
    <3>2. queue[Ceiling[m]] = <<>>
      BY <2>1, <2>3, <3>1 DEF Urgent, Settled, EmptyAbove
    <3> QED
      BY <3>1, <3>2, RoomWhenEmpty
  <2>4. CASE owner[m] = Me
    <3>1. owner[m] # None
      BY <2>4, QueueTypes
    <3> QED
      BY <1>5, <2>4, <3>1 DEF TakeMutex, TakeAgain
  <2>5. CASE owner[m] = None
    <3>1. owner[m] # Me
      BY <2>5, QueueTypes
    <3>2. TakeFree(m)
      BY <1>5, <2>5, <3>1 DEF TakeMutex
    <3> QED
      BY <2>3, <3>2 DEF TakeFree
  <2> QED
    BY <2>2, <2>4, <2>5
<1>6. ASSUME NEW m \in Mutex, DropMutex(m) PROVE panic' = "none"
  <2>1. owner[m] = Me /\ Me # None
    BY <1>6, QueueTypes DEF DropMutex
  <2>2. saveprio[m] < Ceiling[m] => IsHead(queue, Ceiling[m], Me)
    BY <2>1 DEF QueueInv, RaisedHead
  <2> QED
    BY <1>6, <2>2 DEF DropMutex, DropOnce, DropLast
<1>7. ASSUME RaisePrio PROVE panic' = "none"
  <2>1. queue[MaxPrio] = <<>> /\ MaxPrio \in Prio
    BY <1>7, HighestEmpty DEF RaisePrio
  <2>2. ~Full(queue, MaxPrio)
    BY <2>1, RoomWhenEmpty
  <2> QED
    BY <1>7, <2>2 DEF RaisePrio
<1>8. ASSUME CatchIrq PROVE panic' = "none"
  BY <1>8 DEF CatchIrq
<1> QED
  BY <1>1, <1>3, <1>4, <1>5, <1>6, <1>7, <1>8 DEF Call

LEMMA KernelDoesNotPanic ==
  ASSUME Disciplined, NEW r \in [Mutex -> Nat], IndInv(r), Urgent, QueueInv, panic = "none",
         Kernel
  PROVE  panic' = "none"
<1>1. ASSUME Dispatch PROVE panic' = "none"
  <2>1. pc = "sched" /\ Waiting # {}
    BY <1>1 DEF Dispatch
  <2>2. PICK p \in Waiting : p = Max(Waiting)
    BY <2>1, WaitingMax
  <2>3. Head(queue[p]) # Idle /\ Head(queue[p]) \in Exe
    BY <2>1, StartedFresh
  <2>4. Start(p, Head(queue[p]))
    BY <1>1, <2>2, <2>3 DEF Dispatch
  <2>5. RunPrio[Head(queue[p])] = BasePrio[Head(queue[p])]
        /\ BasePrio[Head(queue[p])] \in Int
    BY <2>3 DEF Disciplined
  <2>6. ~(BasePrio[Head(queue[p])] < RunPrio[Head(queue[p])])
    BY <2>5
  <2> QED
    BY <2>4, <2>6 DEF Start
<1>2. ASSUME FinishExit PROVE panic' = "none"
  <2>1. pc = "exit"
    BY <1>2 DEF FinishExit
  <2>2. Top.e = Me /\ Top.eprio = BasePrio[Me] /\ AfterRunPrio(Me) = queue
        /\ IsHead(queue, BasePrio[Me], Me)
    BY <2>1, EndsInPlace
  <2> QED
    BY <1>2, <2>2 DEF FinishExit
<1>3. ASSUME LowerPrio PROVE panic' = "none"
  <2>1. IsHead(queue, MaxPrio, Me)
    BY <1>3 DEF LowerPrio, QueueInv, RaisedHead
  <2> QED
    BY <1>3, <2>1 DEF LowerPrio
<1>4. ASSUME IrqDone PROVE panic' = "none"
  <2>1. Me = Top.exe
    BY <1>4 DEF IrqDone, IndInv, FrameInv, Current
  <2> QED
    BY <1>4, <2>1 DEF IrqDone
<1>5. ASSUME NEW i \in Isr, VectorIrq(i) PROVE panic' = "none"
  <2>1. CanActivate(i) => ~Full(queue, BasePrio[i])
    BY ActivationFits
  <2> QED
    BY <1>5, <2>1 DEF VectorIrq, Activate
<1>6. ~ReleaseMutex
  BY NothingReleased DEF Urgent
<1> QED
  BY <1>1, <1>2, <1>3, <1>4, <1>5, <1>6 DEF Kernel, Return, ChainExit

-----------------------------------------------------------------------------
(* What changes a queue                                                    *)

LEMMA HeadOfAppend ==
  ASSUME NEW q \in Seq(Exe), NEW e \in Exe
  PROVE  /\ Append(q, e) \in Seq(Exe) /\ Append(q, e) # <<>>
         /\ q # <<>> => Head(Append(q, e)) = Head(q)
         /\ q = <<>> => Head(Append(q, e)) = e
         /\ \A i \in 1 .. Len(Append(q, e)) :
              \/ i \in 1 .. Len(q) /\ Append(q, e)[i] = q[i]
              \/ i = Len(q) + 1 /\ Append(q, e)[i] = e
<1>1. /\ Append(q, e) \in Seq(Exe) /\ Len(Append(q, e)) = Len(q) + 1 /\ Append(q, e) # <<>>
      /\ Len(q) \in Nat
      /\ \A i \in 1 .. Len(q) : Append(q, e)[i] = q[i]
      /\ Append(q, e)[Len(q) + 1] = e
  BY AppendFacts
<1>2. \A i \in 1 .. Len(Append(q, e)) : i \in 1 .. Len(q) \/ i = Len(q) + 1
  BY <1>1
<1>3. q # <<>> => Head(Append(q, e)) = Head(q)
  OBVIOUS
<1>4. q = <<>> => Head(Append(q, e)) = e
  OBVIOUS
<1> QED
  BY <1>1, <1>2, <1>3, <1>4

\* What a step may do to the mutexes that raise their owners: no new one, a new one with
\* which e is raised to p, and none that keeps e at p.
NoMoreRaised == \A m \in Mutex : owner'[m] # None /\ saveprio'[m] < Ceiling[m] =>
  owner[m] = owner'[m] /\ saveprio[m] < Ceiling[m]

RaisedTo(p, e) == \A m \in Mutex : owner'[m] # None /\ saveprio'[m] < Ceiling[m] =>
  \/ owner[m] = owner'[m] /\ saveprio[m] < Ceiling[m]
  \/ Ceiling[m] = p /\ owner'[m] = e

LoweredFrom(p, e) == \A m \in Mutex : owner'[m] # None /\ saveprio'[m] < Ceiling[m] =>
  owner[m] = owner'[m] /\ saveprio[m] < Ceiling[m] /\ ~(Ceiling[m] = p /\ owner[m] = e)

LEMMA LimitsKept ==
  ASSUME NEW r, IndInv(r), QueueInv, UNCHANGED nact, \A e \in Exe : Chaining(e) => Chaining(e)'
  PROVE  WithinLimits'
<1> SUFFICES ASSUME NEW e \in Exe
             PROVE  nact[e] <= MaxAct[e] + (IF Chaining(e)' THEN 1 ELSE 0)
  BY DEF WithinLimits
<1>1. nact[e] \in Int /\ nact[e] <= MaxAct[e] + (IF Chaining(e) THEN 1 ELSE 0)
  BY QueueTypes DEF QueueInv, WithinLimits
<1>2. Chaining(e) => Chaining(e)'
  OBVIOUS
<1> QED
  BY <1>1, <1>2

\* No queue changes.
LEMMA QueuesKept ==
  ASSUME NEW r, IndInv(r), QueueInv, UNCHANGED <<queue, nact>>,
         \A e \in Exe : Live(e)' => Live(e) \/ IsHead(queue, BasePrio[e], e),
         NoMoreRaised,
         pc' = "raised" => pc = "raised" /\ currentexe' = currentexe,
         \A e \in Exe : Chaining(e) => Chaining(e)'
  PROVE  QueueInv'
<1>1. RaisedFirst'
  BY DEF QueueInv, RaisedFirst
<1>a. NoLostActivation'
  <2> SUFFICES ASSUME NEW x \in Exe
               PROVE  nact'[x] = Cardinality(Copies(queue'[BasePrio[x]], x))
    BY DEF NoLostActivation, Queued, Copies
  <2>1. nact[x] = Cardinality(Copies(queue[BasePrio[x]], x))
    BY Counted DEF QueueInv
  <2> QED
    BY <2>1
<1>2. LiveFirst'
  BY DEF QueueInv, LiveFirst, IsHead
<1>3. RaisedHead'
  BY DEF QueueInv, RaisedHead, NoMoreRaised, IsHead, Me
<1>4. WithinLimits'
  BY LimitsKept
<1> QED
  BY <1>1, <1>a, <1>2, <1>3, <1>4 DEF QueueInv

\* e is queued at its base priority, or raised to a priority that nothing waits at.
LEMMA QueueGrows ==
  ASSUME NEW r, IndInv(r), QueueInv, NEW p \in Prio, NEW e \in Exe,
         queue' = Enqueue(queue, p, e), BasePrio[e] = p \/ queue[p] = <<>>, jb' = jb,
         \A x \in Exe : nact'[x] = nact[x] + (IF x = e /\ BasePrio[e] = p THEN 1 ELSE 0),
         NoMoreRaised \/ (queue[p] = <<>> /\ RaisedTo(p, e)),
         pc' = "raised" => \/ pc = "raised" /\ currentexe' = currentexe
                           \/ queue[p] = <<>> /\ p = MaxPrio /\ currentexe' = e,
         WithinLimits'
  PROVE  QueueInv'
<1>1. /\ queue \in [Prio -> Seq(Exe)] /\ nact \in [Exe -> Int]
      /\ \A x \in Exe : BasePrio[x] \in Prio
  BY QueueTypes
<1>2. /\ queue'[p] = Append(queue[p], e)
      /\ \A q \in Prio \ {p} : queue'[q] = queue[q]
  <2>1. \A q \in Prio \ {p} : Enqueue(queue, p, e)[q] = queue[q]
    BY <1>1, EnqueueType, ZenonT(30)
  <2>2. queue'[p] = Append(queue[p], e)
    BY <1>1 DEF Enqueue
  <2> QED
    BY <2>1, <2>2
<1>3. \A q \in Prio : \A x : IsHead(queue, q, x) => IsHead(queue', q, x)
  <2> TAKE q \in Prio
  <2> TAKE x
  <2>1. CASE q = p
    <3>1. PICK s \in Seq(Exe) : s = queue[p]
      BY <1>1
    <3>2. Append(s, e) # <<>> /\ (s # <<>> => Head(Append(s, e)) = Head(s))
      BY HeadOfAppend
    <3> QED
      BY <1>2, <2>1, <3>1, <3>2 DEF IsHead
  <2>2. CASE q # p
    BY <1>2, <2>2 DEF IsHead
  <2> QED
    BY <2>1, <2>2
<1>4. queue[p] = <<>> => IsHead(queue', p, e)
  BY <1>1, <1>2, HeadOfAppend DEF IsHead
<1>5. RaisedFirst'
  <2> SUFFICES ASSUME NEW q \in Prio, NEW i \in 1 .. Len(queue'[q]), BasePrio[queue'[q][i]] # q
               PROVE  i = 1
    BY DEF RaisedFirst
  <2>1. CASE q = p
    <3>1. queue[p] \in Seq(Exe)
      BY <1>1
    <3>2. \/ i \in 1 .. Len(queue[p]) /\ queue'[p][i] = queue[p][i]
          \/ i = Len(queue[p]) + 1 /\ queue'[p][i] = e
      BY <1>2, <2>1, <3>1, HeadOfAppend
    <3>3. CASE i \in 1 .. Len(queue[p]) /\ queue'[p][i] = queue[p][i]
      BY <2>1, <3>3 DEF QueueInv, RaisedFirst
    <3>4. CASE i = Len(queue[p]) + 1 /\ queue'[p][i] = e
      <4>1. queue[p] = <<>>
        BY <2>1, <3>4
      <4> QED
        BY <3>4, <4>1
    <3> QED
      BY <3>2, <3>3, <3>4
  <2>2. CASE q # p
    BY <1>2, <2>2 DEF QueueInv, RaisedFirst
  <2> QED
    BY <2>1, <2>2
<1>6. LiveFirst'
  <2> SUFFICES ASSUME NEW x \in Exe, Live(x)' PROVE IsHead(queue', BasePrio[x], x)
    BY DEF LiveFirst, IsHead
  <2>1. Live(x)
    BY DEF Live
  <2> QED
    BY <1>1, <1>3, <2>1 DEF QueueInv, LiveFirst
<1>7. RaisedHead'
  <2>1. ASSUME NEW m \in Mutex, owner'[m] # None, saveprio'[m] < Ceiling[m]
        PROVE  IsHead(queue', Ceiling[m], owner'[m])
    <3>1. Ceiling[m] \in Prio
      OBVIOUS
    <3>2. CASE owner[m] = owner'[m] /\ saveprio[m] < Ceiling[m]
      <4>1. IsHead(queue, Ceiling[m], owner[m])
        BY <2>1, <3>2 DEF QueueInv, RaisedHead
      <4> QED
        BY <1>3, <3>1, <3>2, <4>1
    <3>3. CASE queue[p] = <<>> /\ Ceiling[m] = p /\ owner'[m] = e
      BY <1>4, <3>3
    <3> QED
      BY <2>1, <3>2, <3>3 DEF NoMoreRaised, RaisedTo
  <2>2. ASSUME pc' = "raised" PROVE IsHead(queue', MaxPrio, currentexe')
    <3>1. MaxPrio \in Prio
      OBVIOUS
    <3>2. CASE pc = "raised" /\ currentexe' = currentexe
      <4>1. IsHead(queue, MaxPrio, currentexe)
        BY <3>2 DEF QueueInv, RaisedHead, Me
      <4> QED
        BY <1>3, <3>1, <3>2, <4>1
    <3>3. CASE queue[p] = <<>> /\ p = MaxPrio /\ currentexe' = e
      BY <1>4, <3>3
    <3> QED
      BY <2>2, <3>2, <3>3
  <2> QED
    BY <2>1, <2>2 DEF RaisedHead, IsHead, Me
<1>8. NoLostActivation'
  <2> SUFFICES ASSUME NEW x \in Exe
               PROVE  nact'[x] = Cardinality(Copies(queue'[BasePrio[x]], x))
    BY DEF NoLostActivation, Queued, Copies
  <2>1. nact[x] = Cardinality(Copies(queue[BasePrio[x]], x)) /\ nact[x] \in Nat
    BY Counted DEF QueueInv
  <2>2. CASE BasePrio[x] = p
    <3>2. Cardinality(Copies(queue'[p], x)) =
            Cardinality(Copies(queue[p], x)) + (IF x = e THEN 1 ELSE 0)
      BY <1>1, CopiesEnqueue, SMTT(30)
    <3>3. CASE x = e
      BY <2>1, <2>2, <3>2, <3>3
    <3>4. CASE x # e
      BY <2>1, <2>2, <3>2, <3>4
    <3> QED
      BY <3>3, <3>4
  <2>3. CASE BasePrio[x] # p
    <3>1. queue'[BasePrio[x]] = queue[BasePrio[x]]
      BY <1>1, <1>2, <2>3
    <3>2. nact'[x] = nact[x]
      BY <2>1, <2>3
    <3> QED
      BY <2>1, <3>1, <3>2
  <2> QED
    BY <2>2, <2>3
<1> QED
  BY <1>5, <1>6, <1>7, <1>8 DEF QueueInv

\* The head of a queue leaves it: nothing else was at its head.
LEMMA QueueShrinks ==
  ASSUME NEW r, IndInv(r), QueueInv, NEW p \in Prio, NEW e \in Exe,
         IsHead(queue, p, e), queue' = Dequeue(queue, p),
         \A x \in Exe : nact'[x] = nact[x] - (IF x = e /\ BasePrio[e] = p THEN 1 ELSE 0),
         \A x \in Exe : Live(x)' => Live(x) /\ ~(x = e /\ BasePrio[e] = p),
         LoweredFrom(p, e),
         pc' # "raised",
         WithinLimits'
  PROVE  QueueInv'
<1>1. /\ queue \in [Prio -> Seq(Exe)] /\ nact \in [Exe -> Int] /\ queue[p] # <<>>
      /\ \A x \in Exe : BasePrio[x] \in Prio
  BY QueueTypes DEF IsHead
<1>2. /\ queue'[p] = Tail(queue[p])
      /\ \A q \in Prio \ {p} : queue'[q] = queue[q]
  BY <1>1, DequeueType
<1>3. \A q \in Prio : \A x : IsHead(queue, q, x) /\ ~(q = p /\ x = e) => IsHead(queue', q, x)
  BY <1>2 DEF IsHead
<1>4. RaisedFirst'
  <2> SUFFICES ASSUME NEW q \in Prio, NEW i \in 1 .. Len(queue'[q]), BasePrio[queue'[q][i]] # q
               PROVE  i = 1
    BY DEF RaisedFirst
  <2>1. CASE q = p
    <3>1. PICK s \in Seq(Exe) : s = queue[p] /\ s # <<>>
      BY <1>1
    <3>2. queue'[p] = Tail(s)
      BY <1>2, <3>1
    <3>3. i + 1 \in 1 .. Len(s) /\ Tail(s)[i] = s[i + 1]
      BY <2>1, <3>1, <3>2
    <3>4. i + 1 = 1
      BY <2>1, <3>1, <3>2, <3>3 DEF QueueInv, RaisedFirst
    <3> QED
      BY <3>4
  <2>2. CASE q # p
    BY <1>2, <2>2 DEF QueueInv, RaisedFirst
  <2> QED
    BY <2>1, <2>2
<1>5. LiveFirst'
  <2> SUFFICES ASSUME NEW x \in Exe, Live(x)' PROVE IsHead(queue', BasePrio[x], x)
    BY DEF LiveFirst, IsHead
  <2>1. Live(x) /\ ~(x = e /\ BasePrio[e] = p)
    OBVIOUS
  <2>2. IsHead(queue, BasePrio[x], x)
    BY <2>1 DEF QueueInv, LiveFirst
  <2>3. ~(BasePrio[x] = p /\ x = e)
    BY <2>1
  <2> QED
    BY <1>1, <1>3, <2>2, <2>3
<1>6. RaisedHead'
  <2>1. ASSUME NEW m \in Mutex, owner'[m] # None, saveprio'[m] < Ceiling[m]
        PROVE  IsHead(queue', Ceiling[m], owner'[m])
    <3>1. Ceiling[m] \in Prio
      OBVIOUS
    <3>2. owner[m] = owner'[m] /\ saveprio[m] < Ceiling[m] /\ ~(Ceiling[m] = p /\ owner[m] = e)
      BY <2>1 DEF LoweredFrom
    <3>3. IsHead(queue, Ceiling[m], owner[m])
      BY <2>1, <3>2 DEF QueueInv, RaisedHead
    <3> QED
      BY <1>3, <3>1, <3>2, <3>3
  <2> QED
    BY <2>1 DEF RaisedHead, IsHead, Me
<1>7. NoLostActivation'
  <2> SUFFICES ASSUME NEW x \in Exe
               PROVE  nact'[x] = Cardinality(Copies(queue'[BasePrio[x]], x))
    BY DEF NoLostActivation, Queued, Copies
  <2>1. nact[x] = Cardinality(Copies(queue[BasePrio[x]], x)) /\ nact[x] \in Nat
    BY Counted DEF QueueInv
  <2>2. CASE BasePrio[x] = p
    <3>1. queue[p] \in Seq(Exe) /\ Head(queue[p]) = e
      BY <1>1 DEF IsHead
    <3>2. Cardinality(Copies(queue'[p], x)) =
            Cardinality(Copies(queue[p], x)) - (IF x = e THEN 1 ELSE 0)
      BY <1>1, <1>2, <3>1, CopiesTail
    <3>3. CASE x = e
      BY <2>1, <2>2, <3>2, <3>3
    <3>4. CASE x # e
      BY <2>1, <2>2, <3>2, <3>4
    <3> QED
      BY <3>3, <3>4
  <2>3. CASE BasePrio[x] # p
    <3>1. queue'[BasePrio[x]] = queue[BasePrio[x]]
      BY <1>1, <1>2, <2>3
    <3>2. nact'[x] = nact[x]
      BY <2>1, <2>3
    <3> QED
      BY <2>1, <3>1, <3>2
  <2> QED
    BY <2>2, <2>3
<1> QED
  BY <1>4, <1>5, <1>6, <1>7 DEF QueueInv

-----------------------------------------------------------------------------
(* Who is in dv_chaintask()                                                *)

LEMMA ChainingKept ==
  ASSUME pc \in {"chained", "exit"} => pc' \in {"chained", "exit"} /\ currentexe' = currentexe,
         \A i \in 1 .. Len(frames) :
           i \in 1 .. Len(frames') /\ frames'[i].ret = frames[i].ret
                                   /\ frames'[i].exe = frames[i].exe
  PROVE  \A e \in Exe : Chaining(e) => Chaining(e)'
BY DEF Chaining, Me

LEMMA ChainingPushed ==
  ASSUME frames \in Seq(FrameType), NEW f \in FrameType, frames' = Append(frames, f), f.exe = Me,
         pc # "exit", pc = "chained" => f.ret = "chained"
  PROVE  /\ \A e \in Exe : Chaining(e) => Chaining(e)'
         /\ f.ret = "chained" => \A e : e = Me => Chaining(e)'
<1>1. /\ Len(frames) \in Nat /\ Len(frames') = Len(frames) + 1
      /\ \A i \in 1 .. Len(frames) : frames'[i] = frames[i]
      /\ frames'[Len(frames) + 1] = f
  BY AppendFacts
<1>2. f.ret = "chained" => \A e : e = Me => Chaining(e)'
  <2>1. Len(frames) + 1 \in 1 .. Len(frames')
    BY <1>1
  <2> QED
    BY <1>1, <2>1 DEF Chaining
<1>3. ASSUME NEW e \in Exe, Chaining(e) PROVE Chaining(e)'
  <2>1. CASE pc \in {"chained", "exit"} /\ Me = e
    BY <1>2, <2>1
  <2>2. ASSUME NEW i \in 1 .. Len(frames), frames[i].ret = "chained", frames[i].exe = e
        PROVE  Chaining(e)'
    <3>1. i \in 1 .. Len(frames') /\ frames'[i] = frames[i]
      BY <1>1
    <3> QED
      BY <2>2, <3>1 DEF Chaining
  <2> QED
    BY <1>3, <2>1, <2>2 DEF Chaining
<1> QED
  BY <1>2, <1>3

\* A return from dv_runqueued() to dv_chaintask() goes on with it.
LEMMA ChainingReturned ==
  ASSUME NEW r, IndInv(r), Return
  PROVE  \A e \in Exe : Chaining(e) => Chaining(e)'
<1>1. /\ pc = "sched" /\ frames # <<>> /\ pc' = Top.ret /\ currentexe' = Top.exe
      /\ frames' = SubSeq(frames, 1, Len(frames) - 1)
  BY DEF Return, IndInv, FrameInv, Current
<1>2. Len(frames) \in Nat \ {0} /\ Top = frames[Len(frames)] /\ frames \in Seq(FrameType)
  BY <1>1, TopType, QueueTypes DEF IndInv
<1>3. PICK k \in Nat : k = Len(frames) - 1
  <2>1. Len(frames) - 1 \in Nat
    BY <1>2
  <2> QED
    BY <2>1
<1>4. Len(frames') = k /\ \A i \in 1 .. k : frames'[i] = frames[i]
  BY <1>1, <1>2, <1>3, SubSeqFacts
<1>5. ASSUME NEW e \in Exe, Chaining(e) PROVE Chaining(e)'
  <2>1. PICK i \in 1 .. Len(frames) : frames[i].ret = "chained" /\ frames[i].exe = e
    BY <1>1, <1>5 DEF Chaining
  <2>2. CASE i = Len(frames)
    <3>1. pc' = "chained" /\ currentexe' = e
      BY <1>1, <1>2, <2>1, <2>2
    <3> QED
      BY <3>1 DEF Chaining, Me
  <2>3. CASE i # Len(frames)
    <3>1. i \in 1 .. k
      BY <1>2, <1>3, <2>3
    <3>2. i \in 1 .. Len(frames') /\ frames'[i] = frames[i]
      BY <1>4, <3>1
    <3> QED
      BY <2>1, <3>2 DEF Chaining
  <2> QED
    BY <2>2, <2>3
<1> QED
  BY <1>5

\* dv_activateexe() keeps the limit; dv_chaintask() may exceed it by one, for its caller.
LEMMA LimitsActivate ==
  ASSUME NEW r, IndInv(r), QueueInv, NEW t \in Exe, NEW ret, Activate(t, ret),
         pc \in {"app", "raised", "irq"}, ret \in {"app", "raised", "irq", "chained"},
         CanActivate(t) \/ (pc = "app" /\ t = Me /\ ret = "chained"),
         BasePrio[t] > currprio[Me] => ret \in {"app", "chained"}
  PROVE  WithinLimits'
<1>1. /\ nact' = [nact EXCEPT ![t] = @ + 1] /\ UNCHANGED <<currprio, currentexe>>
      /\ nact \in [Exe -> Int] /\ frames \in Seq(FrameType)
      /\ RunQueued(BasePrio[t], currprio[Me], ret)
  BY QueueTypes DEF Activate
<1>2. /\ \A e \in Exe : Chaining(e) => Chaining(e)'
      /\ ret = "chained" => \A e : e = Me => Chaining(e)'
  <2>1. CASE BasePrio[t] > currprio[Me]
    <3> DEFINE f == Frame(BasePrio[t], currprio[Me], ret, FALSE)
    <3>1. frames' = Append(frames, f) /\ f.exe = Me /\ f.ret = ret
      BY <1>1, <2>1 DEF RunQueued, Frame, Me
    <3>2. f \in FrameType
      <4>1. BasePrio[t] \in 0 .. MaxPrio - 1 /\ currprio[Me] \in 0 .. MaxPrio + 1
        BY QueueTypes DEF IndInv, TypeOK
      <4>2. BasePrio[t] \in 0 .. MaxPrio /\ currprio[Me] \in 0 .. MaxPrio - 1
        BY <2>1, <4>1
      <4>3. Me \in Exe /\ 0 \in 0 .. MaxPrio - 1
        BY QueueTypes
      <4> QED
        BY <2>1, <4>2, <4>3 DEF FrameType, Frame, Me
    <3> HIDE DEF f
    <3> QED
      BY <1>1, <3>1, <3>2, ChainingPushed
  <2>2. CASE ~(BasePrio[t] > currprio[Me])
    <3>1. frames' = frames /\ pc' = ret
      BY <1>1, <2>2 DEF RunQueued
    <3>2. \A e \in Exe : Chaining(e) => Chaining(e)'
      BY <1>1, <3>1 DEF Chaining, Me
    <3>3. ret = "chained" => \A e : e = Me => Chaining(e)'
      BY <1>1, <3>1 DEF Chaining, Me
    <3> QED
      BY <3>2, <3>3
  <2> QED
    BY <2>1, <2>2
<1>3. ASSUME NEW x \in Exe
      PROVE  nact'[x] <= MaxAct[x] + (IF Chaining(x)' THEN 1 ELSE 0)
  <2>1. PICK n \in Int, a \in Int : n = nact[x] /\ a = MaxAct[x]
    BY <1>1
  <2>2. n <= a + (IF Chaining(x) THEN 1 ELSE 0)
    BY <2>1 DEF QueueInv, WithinLimits
  <2>3. CASE x # t
    <3>1. nact'[x] = n
      BY <1>1, <2>1, <2>3
    <3>2. CASE Chaining(x)
      BY <1>2, <2>1, <2>2, <3>1, <3>2
    <3>3. CASE ~Chaining(x)
      BY <2>1, <2>2, <3>1, <3>3
    <3> QED
      BY <3>2, <3>3
  <2>4. CASE x = t
    <3>1. nact'[x] = n + 1
      BY <1>1, <2>1, <2>4
    <3>2. CASE CanActivate(t)
      <4>1. n < a
        BY <2>1, <2>4, <3>2 DEF CanActivate
      <4> QED
        BY <2>1, <3>1, <4>1
    <3>3. CASE pc = "app" /\ t = Me /\ ret = "chained"
      <4>1. ~Chaining(x) /\ n <= a
        BY <2>2, <2>4, <3>3, NotYetChaining
      <4>2. Chaining(x)'
        BY <1>2, <2>4, <3>3
      <4> QED
        BY <2>1, <3>1, <4>1, <4>2
    <3> QED
      BY <3>2, <3>3
  <2> QED
    BY <2>3, <2>4
<1> QED
  BY <1>3 DEF WithinLimits

-----------------------------------------------------------------------------
(* The steps of the kernel and the queues                                  *)

LEMMA QueueActivate ==
  ASSUME NEW r, IndInv(r), QueueInv, NEW t \in Exe, NEW ret, Activate(t, ret),
         pc \in {"app", "raised", "irq"}, ret = pc \/ (pc = "app" /\ ret = "chained"),
         CanActivate(t) \/ (pc = "app" /\ t = Me /\ ret = "chained")
  PROVE  QueueInv'
<1>1. /\ nact' = [nact EXCEPT ![t] = @ + 1] /\ queue' = Enqueue(queue, BasePrio[t], t)
      /\ UNCHANGED <<currprio, jb, owner, saveprio, currentexe>>
      /\ nact \in [Exe -> Int] /\ BasePrio[t] \in Prio
      /\ RunQueued(BasePrio[t], currprio[Me], ret)
  BY QueueTypes DEF Activate, mutexVars
<1>2. BasePrio[t] > currprio[Me] => ret \in {"app", "chained"}
  <2>1. CASE pc = "app"
    BY <2>1
  <2>2. CASE pc # "app"
    <3>1. currprio[Me] >= MaxPrio /\ currprio[Me] \in 0 .. MaxPrio + 1
      BY <2>2, QueueTypes DEF IndInv, FrameInv, Current, TypeOK
    <3>2. BasePrio[t] < MaxPrio /\ BasePrio[t] \in Int
      BY QueueTypes
    <3> QED
      BY <3>1, <3>2
  <2> QED
    BY <2>1, <2>2
<1>3. WithinLimits'
  BY <1>2, LimitsActivate
<1>4. \A x \in Exe : nact'[x] = nact[x] + (IF x = t /\ BasePrio[t] = BasePrio[t] THEN 1 ELSE 0)
  BY <1>1
<1>5. pc' = "raised" => pc = "raised" /\ currentexe' = currentexe
  BY <1>1 DEF RunQueued
<1>6. NoMoreRaised
  BY <1>1 DEF NoMoreRaised
<1> QED
  BY <1>1, <1>3, <1>4, <1>5, <1>6, QueueGrows

LEMMA QueueTake ==
  ASSUME Disciplined, NEW r \in [Mutex -> Nat], IndInv(r), Urgent, QueueInv,
         NEW m \in Mutex, TakeMutex(m), panic' = "none"
  PROVE  QueueInv'
<1>1. /\ pc = "app" /\ UNCHANGED <<nact, jb, frames, pc, currentexe>>
      /\ owner \in [Mutex -> Exe \union {None}] /\ saveprio \in [Mutex -> -1 .. MaxPrio - 1]
      /\ Me \in Exe /\ currprio[Me] \in 0 .. MaxPrio + 1 /\ Ceiling[m] \in 0 .. MaxPrio - 1
  <2>1. /\ owner \in [Mutex -> Exe \union {None}] /\ saveprio \in [Mutex -> -1 .. MaxPrio - 1]
        /\ Me \in Exe /\ currprio[Me] \in 0 .. MaxPrio + 1 /\ Ceiling[m] \in 0 .. MaxPrio - 1
    BY QueueTypes DEF IndInv, TypeOK
  <2>2. pc = "app" /\ UNCHANGED <<nact, jb, frames, pc, currentexe>>
    BY DEF TakeMutex, TakeAgain, TakeFree, Panic, exeVars, cpuVars
  <2> QED
    BY <2>1, <2>2
<1>2. \A e \in Exe : Chaining(e) => Chaining(e)'
  BY <1>1 DEF Chaining, Me
<1>3. CASE TakeFree(m) /\ currprio[Me] < Ceiling[m]
  <2>1. /\ owner' = [owner EXCEPT ![m] = Me] /\ saveprio' = [saveprio EXCEPT ![m] = currprio[Me]]
        /\ queue' = Enqueue(queue, Ceiling[m], Me)
    BY <1>3 DEF TakeFree, Panic
  <2>2. Ceiling[m] \in Prio /\ Ceiling[m] \in Int /\ currprio[Me] \in Int
    BY <1>1
  <2>3. queue[Ceiling[m]] = <<>>
    BY <1>1, <1>3, <2>2 DEF Urgent, Settled, EmptyAbove
  <2>4. BasePrio[Me] # Ceiling[m]
    <3>1. Live(Me) /\ OwnPrio(Me) = currprio[Me]
      BY <1>1, MeLive DEF OwnPrio
    <3>2. BasePrio[Me] <= currprio[Me]
      BY <1>1, <3>1, OwnPrioBounds
    <3> QED
      BY <1>1, <1>3, <3>2, QueueTypes
  <2>5. \A x \in Exe : nact'[x] = nact[x] + (IF x = Me /\ BasePrio[Me] = Ceiling[m] THEN 1 ELSE 0)
    <3>1. \A x \in Exe : nact[x] \in Int
      BY QueueTypes
    <3> QED
      BY <1>1, <2>4, <3>1
  <2>6. RaisedTo(Ceiling[m], Me)
    BY <1>1, <2>1 DEF RaisedTo
  <2>7. WithinLimits'
    BY <1>1, <1>2, LimitsKept
  <2> QED
    BY <1>1, <2>1, <2>2, <2>3, <2>5, <2>6, <2>7, QueueGrows
<1>4. CASE ~(TakeFree(m) /\ currprio[Me] < Ceiling[m])
  <2>1. UNCHANGED queue
    BY <1>4 DEF TakeMutex, TakeAgain, TakeFree, Panic
  <2>2. NoMoreRaised
    <3>1. CASE UNCHANGED <<owner, saveprio>>
      BY <3>1 DEF NoMoreRaised
    <3>2. CASE ~UNCHANGED <<owner, saveprio>>
      <4>1. /\ TakeFree(m) /\ ~(currprio[Me] < Ceiling[m])
            /\ owner' = [owner EXCEPT ![m] = Me] /\ saveprio' = [saveprio EXCEPT ![m] = currprio[Me]]
        BY <1>4, <3>2 DEF TakeMutex, TakeAgain, TakeFree, Panic, mutexVars
      <4> QED
        BY <1>1, <4>1 DEF NoMoreRaised
    <3> QED
      BY <3>1, <3>2
  <2> QED
    BY <1>1, <1>2, <2>1, <2>2, QueuesKept DEF Live
<1> QED
  BY <1>3, <1>4

LEMMA QueueDrop ==
  ASSUME Disciplined, NEW r \in [Mutex -> Nat], IndInv(r), QueueInv,
         NEW m \in Mutex, DropMutex(m), panic' = "none"
  PROVE  QueueInv'
<1>1. /\ pc = "app" /\ UNCHANGED <<nact, jb, saveprio, currentexe>> /\ owner[m] = Me /\ Me # None
      /\ owner \in [Mutex -> Exe \union {None}] /\ saveprio \in [Mutex -> -1 .. MaxPrio - 1]
      /\ Me \in Exe /\ Ceiling[m] \in 0 .. MaxPrio - 1 /\ frames \in Seq(FrameType)
  <2>1. /\ owner \in [Mutex -> Exe \union {None}] /\ saveprio \in [Mutex -> -1 .. MaxPrio - 1]
        /\ Me \in Exe /\ Me # None /\ Ceiling[m] \in 0 .. MaxPrio - 1
        /\ frames \in Seq(FrameType)
    BY QueueTypes DEF IndInv, TypeOK
  <2>2. pc = "app" /\ UNCHANGED <<nact, jb, saveprio, currentexe>> /\ owner[m] = Me
    BY DEF DropMutex, DropOnce, DropLast, Panic, exeVars, mutexVars, cpuVars
  <2> QED
    BY <2>1, <2>2
<1>2. /\ owner' = owner \/ owner' = [owner EXCEPT ![m] = None]
      /\ NoMoreRaised
  <2>1. owner' = owner \/ owner' = [owner EXCEPT ![m] = None]
    BY DEF DropMutex, DropOnce, DropLast, Panic, mutexVars
  <2> QED
    BY <1>1, <2>1 DEF NoMoreRaised
<1>3. CASE DropLast(m) /\ saveprio[m] < Ceiling[m]
  <2> DEFINE f == Frame(Ceiling[m], saveprio[m], "app", FALSE)
  <2>1. /\ IsHead(queue, Ceiling[m], Me) /\ queue' = Dequeue(queue, Ceiling[m])
        /\ owner' = [owner EXCEPT ![m] = None] /\ frames' = Append(frames, f) /\ pc' = "sched"
        /\ mutexlist[Me] = m
    <3>1. mutexlist[Me] = m
      BY <1>3, Rules DEF DropLast, Lifo
    <3> QED
      BY <1>3, <3>1 DEF DropLast, Panic, RunQueued
  <2>2. BasePrio[Me] <= saveprio[m] /\ saveprio[m] \in Int /\ BasePrio[Me] \in Int
    <3>1. saveprio[m] >= RunPrio[Me]
      BY <1>1 DEF IndInv, ListInv, ListPrios
    <3> QED
      BY <1>1, <3>1, QueueTypes DEF Disciplined
  <2>3. BasePrio[Me] # Ceiling[m] /\ Ceiling[m] \in Prio
    BY <1>1, <1>3, <2>2
  <2>4. f \in FrameType /\ f.exe = Me /\ f.ret = "app"
    <3>1. saveprio[m] \in 0 .. MaxPrio - 1 /\ Ceiling[m] \in 0 .. MaxPrio
      BY <1>1, <2>2, QueueTypes, SMTT(30)
    <3> QED
      BY <1>1, <3>1 DEF FrameType, Frame, Me
  <2> HIDE DEF f
  <2>5. \A e \in Exe : Chaining(e) => Chaining(e)'
    BY <1>1, <2>1, <2>4, ChainingPushed
  <2>6. WithinLimits'
    BY <1>1, <2>5, LimitsKept
  <2>7. LoweredFrom(Ceiling[m], Me)
    <3> SUFFICES ASSUME NEW k \in Mutex, owner'[k] # None, saveprio'[k] < Ceiling[k]
                 PROVE  /\ owner[k] = owner'[k] /\ saveprio[k] < Ceiling[k]
                        /\ ~(Ceiling[k] = Ceiling[m] /\ owner[k] = Me)
      BY DEF LoweredFrom
    <3>1. k # m /\ owner[k] = owner'[k] /\ saveprio[k] < Ceiling[k]
      BY <1>1, <2>1
    <3>2. ASSUME Ceiling[k] = Ceiling[m], owner[k] = Me PROVE FALSE
      <4>1. r[k] < r[m]
        BY <2>1, <3>1, <3>2, ListFacts, <1>1
      <4>2. TakenPrio(k) <= saveprio[m]
        BY <1>1, <3>2, <4>1 DEF IndInv, ListInv, ListPrios
      <4>3. TakenPrio(k) = Ceiling[m]
        BY <3>1, <3>2 DEF TakenPrio
      <4> QED
        BY <1>1, <1>3, <2>2, <4>2, <4>3
    <3> QED
      BY <3>1, <3>2
  <2>8. \A x \in Exe : nact'[x] = nact[x] - (IF x = Me /\ BasePrio[Me] = Ceiling[m] THEN 1 ELSE 0)
    <3>1. \A x \in Exe : nact[x] \in Int
      BY QueueTypes
    <3> QED
      BY <1>1, <2>3, <3>1
  <2>9. \A x \in Exe : Live(x)' => Live(x) /\ ~(x = Me /\ BasePrio[Me] = Ceiling[m])
    BY <1>1, <2>3 DEF Live
  <2>10. pc' # "raised"
    BY <2>1
  <2> QED
    BY <1>1, <2>1, <2>3, <2>6, <2>7, <2>8, <2>9, <2>10, QueueShrinks
<1>4. CASE ~(DropLast(m) /\ saveprio[m] < Ceiling[m])
  <2>1. UNCHANGED <<queue, frames, pc>>
    BY <1>4 DEF DropMutex, DropOnce, DropLast, Panic, cpuVars
  <2>2. \A e \in Exe : Chaining(e) => Chaining(e)'
    BY <1>1, <2>1 DEF Chaining, Me
  <2> QED
    BY <1>1, <1>2, <2>1, <2>2, QueuesKept DEF Live
<1> QED
  BY <1>3, <1>4

LEMMA QueueRaise ==
  ASSUME NEW r \in [Mutex -> Nat], IndInv(r), QueueInv, RaisePrio, panic' = "none"
  PROVE  QueueInv'
<1> DEFINE f == Frame(MaxPrio - 1, currprio[Me], "app", FALSE)
<1>1. /\ pc = "app" /\ UNCHANGED <<nact, jb, owner, saveprio, currentexe>>
      /\ queue' = Enqueue(queue, MaxPrio, Me) /\ pc' = "raised" /\ frames' = Append(frames, f)
  BY DEF RaisePrio, Panic, mutexVars
<1>2. /\ MaxPrio \in Prio /\ Me \in Exe /\ BasePrio[Me] # MaxPrio /\ queue[MaxPrio] = <<>>
      /\ frames \in Seq(FrameType)
  BY <1>1, QueueTypes, HighestEmpty
<1>3. f \in FrameType /\ f.exe = Me /\ f.ret = "app"
  <2>1. currprio[Me] \in 0 .. MaxPrio - 1 /\ MaxPrio - 1 \in 0 .. MaxPrio
    BY <1>2 DEF RaisePrio, IndInv, TypeOK
  <2> QED
    BY <1>2, <2>1 DEF FrameType, Frame, Me
<1> HIDE DEF f
<1>4. \A e \in Exe : Chaining(e) => Chaining(e)'
  BY <1>1, <1>2, <1>3, ChainingPushed
<1>5. WithinLimits'
  BY <1>1, <1>4, LimitsKept
<1>6. NoMoreRaised
  BY <1>1 DEF NoMoreRaised
<1>7. \A x \in Exe : nact'[x] = nact[x] + (IF x = Me /\ BasePrio[Me] = MaxPrio THEN 1 ELSE 0)
  <2>1. \A x \in Exe : nact[x] \in Int
    BY QueueTypes
  <2> QED
    BY <1>1, <1>2, <2>1
<1>8. currentexe' = Me
  BY <1>1 DEF Me
<1> QED
  BY <1>1, <1>2, <1>5, <1>6, <1>7, <1>8, QueueGrows

LEMMA QueueLower ==
  ASSUME NEW r \in [Mutex -> Nat], IndInv(r), QueueInv, LowerPrio, panic' = "none"
  PROVE  QueueInv'
<1>1. /\ pc = "raised" /\ UNCHANGED <<nact, jb, owner, saveprio, currentexe, frames>>
      /\ IsHead(queue, MaxPrio, Me) /\ queue' = Dequeue(queue, MaxPrio) /\ pc' = "sched"
  BY DEF LowerPrio, Panic, mutexVars
<1>2. MaxPrio \in Prio /\ Me \in Exe /\ BasePrio[Me] # MaxPrio
  BY QueueTypes
<1>3. WithinLimits'
  <2>1. \A e \in Exe : Chaining(e) => Chaining(e)'
    BY <1>1 DEF Chaining, Me
  <2> QED
    BY <1>1, <2>1, LimitsKept
<1>4. LoweredFrom(MaxPrio, Me)
  <2>1. \A m \in Mutex : Ceiling[m] # MaxPrio
    OBVIOUS
  <2> QED
    BY <1>1, <2>1 DEF LoweredFrom
<1>5. \A x \in Exe : nact'[x] = nact[x] - (IF x = Me /\ BasePrio[Me] = MaxPrio THEN 1 ELSE 0)
  <2>1. \A x \in Exe : nact[x] \in Int
    BY QueueTypes
  <2> QED
    BY <1>1, <1>2, <2>1
<1>6. \A x \in Exe : Live(x)' => Live(x) /\ ~(x = Me /\ BasePrio[Me] = MaxPrio)
  BY <1>1, <1>2 DEF Live
<1>7. pc' # "raised"
  BY <1>1
<1> QED
  BY <1>1, <1>2, <1>3, <1>4, <1>5, <1>6, <1>7, QueueShrinks

LEMMA QueueFinish ==
  ASSUME Disciplined, NEW r \in [Mutex -> Nat], IndInv(r), QueueInv, FinishExit,
         panic' = "none"
  PROVE  QueueInv'
<1>1. pc = "exit"
  BY DEF FinishExit
<1>2. /\ Top.e = Me /\ Me \in Exe /\ Top.eprio = BasePrio[Me] /\ AfterRunPrio(Me) = queue
      /\ IsHead(queue, BasePrio[Me], Me)
  BY <1>1, EndsInPlace
<1>3. /\ queue' = Dequeue(queue, BasePrio[Me]) /\ nact' = [nact EXCEPT ![Me] = @ - 1]
      /\ jb' = [jb EXCEPT ![Me] = 0] /\ pc' = "sched" /\ mutexlist[Me] = None
      /\ UNCHANGED <<owner, saveprio, currentexe, frames>>
  BY <1>2 DEF FinishExit, Panic, mutexVars
<1>4. BasePrio[Me] \in Prio /\ jb \in [Exe -> Nat] /\ nact \in [Exe -> Int] /\ Me # Idle
  BY <1>1, <1>2, QueueTypes DEF IndInv, FrameInv, Current
<1>5. \A x \in Exe : nact'[x] = nact[x] - (IF x = Me /\ BasePrio[Me] = BasePrio[Me] THEN 1 ELSE 0)
  BY <1>2, <1>3, <1>4
<1>6. \A x \in Exe : Live(x)' => Live(x) /\ ~(x = Me /\ BasePrio[Me] = BasePrio[Me])
  BY <1>2, <1>3, <1>4 DEF Live
<1>7. LoweredFrom(BasePrio[Me], Me)
  <2>1. \A k \in Mutex : owner[k] # Me
    BY <1>2, <1>3, ListFacts
  <2> QED
    BY <1>3, <2>1 DEF LoweredFrom
<1>8. WithinLimits'
  <2> SUFFICES ASSUME NEW e \in Exe
               PROVE  nact'[e] <= MaxAct[e] + (IF Chaining(e)' THEN 1 ELSE 0)
    BY DEF WithinLimits
  <2>1. nact[e] \in Int /\ nact[e] <= MaxAct[e] + (IF Chaining(e) THEN 1 ELSE 0) /\ MaxAct[e] \in Int
    BY QueueTypes DEF QueueInv, WithinLimits
  <2>2. CASE e = Me
    <3>1. nact'[e] = nact[e] - 1
      BY <1>3, <1>4, <2>2
    <3>2. nact[e] - 1 <= MaxAct[e]
      BY <2>1
    <3> QED
      BY <2>1, <3>1, <3>2
  <2>3. CASE e # Me
    <3>1. nact'[e] = nact[e]
      BY <1>3, <1>4, <2>3
    <3>2. Chaining(e) => Chaining(e)'
      BY <1>3, <2>3 DEF Chaining, Me
    <3> QED
      BY <2>1, <3>1, <3>2
  <2> QED
    BY <2>2, <2>3
<1>9. pc' # "raised"
  BY <1>3
<1> QED
  BY <1>2, <1>3, <1>4, <1>5, <1>6, <1>7, <1>8, <1>9, QueueShrinks

LEMMA QueueDispatch ==
  ASSUME Disciplined, NEW r \in [Mutex -> Nat], IndInv(r), QueueInv, Dispatch, panic' = "none"
  PROVE  QueueInv'
<1>1. pc = "sched" /\ Waiting # {} /\ frames # <<>>
  BY DEF Dispatch, IndInv, FrameInv, Current
<1>2. PICK p \in Waiting : p = Max(Waiting)
  BY <1>1, WaitingMax
<1>3. PICK e : e = Head(queue[p])
  OBVIOUS
<1>4. e \in Exe /\ BasePrio[e] = p /\ RunPrio[e] = p /\ p \in Int
  <2>1. p \in 1 .. MaxPrio - 1 /\ e \in Exe /\ BasePrio[e] = p
    BY <1>1, <1>3, StartedFresh
  <2> QED
    BY <2>1 DEF Disciplined
<1>5. /\ UNCHANGED <<queue, nact, owner, saveprio>> /\ pc' = "app"
      /\ jb' = [jb EXCEPT ![e] = Len(frames)]
      /\ frames' = [frames EXCEPT ![Len(frames)].p = p, ![Len(frames)].e = e,
                                  ![Len(frames)].eprio = RunPrio[e]]
  <2>1. Start(p, e)
    BY <1>2, <1>3 DEF Dispatch, Panic
  <2>2. ~(BasePrio[e] < RunPrio[e])
    BY <1>4
  <2>3. QueueStarted(e) = queue
    BY <2>2 DEF QueueStarted
  <2> QED
    BY <2>1, <2>2, <2>3 DEF Start, mutexVars
<1>6. IsHead(queue, BasePrio[e], e)
  BY <1>3, <1>4 DEF Waiting, IsHead
<1>7. \A x \in Exe : Live(x)' => Live(x) \/ IsHead(queue, BasePrio[x], x)
  <2>1. jb \in [Exe -> Nat]
    BY QueueTypes
  <2> QED
    BY <1>4, <1>5, <1>6, <2>1 DEF Live
<1>8. \A x \in Exe : Chaining(x) => Chaining(x)'
  <2>1. frames \in Seq(FrameType) /\ Len(frames) \in Nat
    BY QueueTypes
  <2>2. ASSUME NEW i \in 1 .. Len(frames)
        PROVE  i \in 1 .. Len(frames') /\ frames'[i].ret = frames[i].ret
               /\ frames'[i].exe = frames[i].exe
    <3>1. frames[i] \in FrameType
      BY <2>1
    <3> QED
      BY <1>5, <2>1, <3>1 DEF FrameType
  <2> QED
    BY <1>1, <2>2, ChainingKept
<1>9. NoMoreRaised
  BY <1>5 DEF NoMoreRaised
<1> QED
  BY <1>5, <1>7, <1>8, <1>9, QueuesKept

LEMMA QueueNext ==
  ASSUME Disciplined, NEW r \in [Mutex -> Nat], IndInv(r), Urgent, QueueInv, Next,
         panic' = "none"
  PROVE  QueueInv'
<1> USE DEF exeVars, mutexVars, cpuVars
<1>k. ASSUME UNCHANGED <<queue, nact, jb, owner, saveprio, pc, currentexe, frames>>
      PROVE  QueueInv'
  <2>1. NoMoreRaised
    BY <1>k DEF NoMoreRaised
  <2>2. \A e \in Exe : Chaining(e) => Chaining(e)'
    BY <1>k DEF Chaining, Me
  <2> QED
    BY <1>k, <2>1, <2>2, QueuesKept DEF Live
<1>1. ASSUME NEW t \in Task, ActivateTask(t) PROVE QueueInv'
  <2>1. Activate(t, pc) /\ pc \in {"app", "raised"} /\ CanActivate(t)
    BY <1>1 DEF ActivateTask, Panic
  <2> QED
    BY <2>1, QueueActivate
<1>2. ASSUME NEW t \in Task, ChainTask(t) PROVE QueueInv'
  <2>1. Activate(t, "chained") /\ pc = "app" /\ (t = Me \/ CanActivate(t))
    BY <1>2 DEF ChainTask, Panic
  <2> QED
    BY <2>1, QueueActivate
<1>3. ASSUME TerminateTask \/ ReturnFromMain \/ ChainExit PROVE QueueInv'
  <2>1. /\ UNCHANGED <<queue, nact, jb, owner, saveprio, currentexe>>
        /\ pc \in {"app", "chained"} /\ pc' = "exit"
        /\ frames' = frames \/ (LongjmpToExit /\ jb[Me] # 0)
    <3>1. CASE ChainExit
      <4>1. pc = "chained" /\ LongjmpToExit
        BY <3>1 DEF ChainExit
      <4>2. jb[Me] # 0
        <5>1. Me # Idle /\ Live(Me)
          BY <4>1, MeLive DEF IndInv, FrameInv, Current
        <5> QED
          BY <5>1 DEF Live
      <4> QED
        BY <3>1, <4>1, <4>2 DEF ChainExit, LongjmpToExit
    <3>2. CASE TerminateTask
      BY <3>2 DEF TerminateTask, LongjmpToExit, Panic
    <3>3. CASE ReturnFromMain
      BY <3>3 DEF ReturnFromMain
    <3> QED
      BY <1>3, <3>1, <3>2, <3>3
  <2>2. frames' = frames
    BY <2>1, LongjmpKeeps
  <2>3. \A e \in Exe : Chaining(e) => Chaining(e)'
    BY <2>1, <2>2 DEF Chaining, Me
  <2>4. NoMoreRaised
    BY <2>1 DEF NoMoreRaised
  <2> QED
    BY <2>1, <2>3, <2>4, QueuesKept DEF Live
<1>4. ASSUME CatchIrq PROVE QueueInv'
  <2> DEFINE f == Frame(MaxPrio, currprio[Me], pc, TRUE)
  <2>1. /\ UNCHANGED <<queue, nact, jb, owner, saveprio, currentexe>>
        /\ pc \in {"app", "chained"} /\ pc' = "irq" /\ frames' = Append(frames, f)
    BY <1>4 DEF CatchIrq
  <2>2. f \in FrameType /\ f.exe = Me /\ f.ret = pc /\ frames \in Seq(FrameType)
    <3>1. Live(Me) /\ OwnPrio(Me) = currprio[Me] /\ Me \in Exe
      BY <2>1, MeLive, QueueTypes DEF OwnPrio
    <3>2. currprio[Me] \in RunPrio[Me] .. MaxPrio - 1 /\ RunPrio[Me] \in Nat
      BY <3>1, OwnPrioBounds
    <3>3. currprio[Me] \in 0 .. MaxPrio - 1 /\ MaxPrio \in 0 .. MaxPrio /\ 0 \in 0 .. MaxPrio - 1
      BY <3>2
    <3> QED
      BY <2>1, <3>1, <3>3, QueueTypes DEF FrameType, Frame, Me
  <2> HIDE DEF f
  <2>3. \A e \in Exe : Chaining(e) => Chaining(e)'
    BY <2>1, <2>2, ChainingPushed
  <2>4. NoMoreRaised
    BY <2>1 DEF NoMoreRaised
  <2> QED
    BY <2>1, <2>3, <2>4, QueuesKept DEF Live
<1>5. ASSUME Return PROVE QueueInv'
  <2>1. /\ UNCHANGED <<queue, nact, jb, owner, saveprio>> /\ pc' = Top.ret
        /\ frames # <<>>
    BY <1>5 DEF Return, IndInv, FrameInv, Current
  <2>2. pc' # "raised"
    BY <2>1, TopType DEF IndInv, FrameType
  <2>3. NoMoreRaised
    BY <2>1 DEF NoMoreRaised
  <2>4. \A e \in Exe : Chaining(e) => Chaining(e)'
    BY <1>5, ChainingReturned
  <2> QED
    BY <2>1, <2>2, <2>3, <2>4, QueuesKept DEF Live
<1>6. ASSUME IrqDone PROVE QueueInv'
  <2>1. /\ UNCHANGED <<queue, nact, jb, owner, saveprio, currentexe, frames>>
        /\ pc = "irq" /\ pc' = "sched"
    BY <1>6 DEF IrqDone, Panic
  <2>2. NoMoreRaised
    BY <2>1 DEF NoMoreRaised
  <2>3. \A e \in Exe : Chaining(e) => Chaining(e)'
    BY <2>1 DEF Chaining, Me
  <2> QED
    BY <2>1, <2>2, <2>3, QueuesKept DEF Live
<1>7. ASSUME NEW i \in Isr, VectorIrq(i) PROVE QueueInv'
  <2>1. CASE CanActivate(i)
    <3>1. Activate(i, "irq") /\ pc = "irq"
      BY <1>7, <2>1 DEF VectorIrq, Panic
    <3> QED
      BY <2>1, <3>1, QueueActivate
  <2>2. CASE ~CanActivate(i)
    BY <1>7, <1>k, <2>2 DEF VectorIrq
  <2> QED
    BY <2>1, <2>2
<1>8. ~ReleaseMutex
  BY NothingReleased DEF Urgent
<1> QED
  BY <1>1, <1>2, <1>3, <1>4, <1>5, <1>6, <1>7, <1>8, QueueTake, QueueDrop, QueueRaise,
     QueueLower, QueueFinish, QueueDispatch DEF Next, Call, End, Kernel

\* All that is known of an application that keeps the rules.
QueuesInv == Inv /\ Urgent /\ QueueInv /\ panic = "none"

LEMMA QueuesStart == Init => QueuesInv
<1> SUFFICES ASSUME Init PROVE QueuesInv
  OBVIOUS
<1>0. 0 \in Prio /\ MaxPrio \in Prio /\ 0 # MaxPrio
  OBVIOUS
<1>1. Urgent /\ panic = "none"
  BY DEF Init, Urgent, Settled, ChainedFree
<1>2. queue[0] = <<Idle>> /\ queue[MaxPrio] = <<Idle>>
      /\ \A p \in Prio \ {0, MaxPrio} : queue[p] = <<>>
  BY <1>0 DEF Init
<1>3. RaisedFirst
  <2> SUFFICES ASSUME NEW p \in Prio, NEW i \in 1 .. Len(queue[p]) PROVE i = 1
    BY DEF RaisedFirst
  <2>1. CASE p \in {0, MaxPrio}
    <3>1. queue[p] = <<Idle>> /\ Len(<<Idle>>) = 1
      BY <1>2, <2>1
    <3> QED
      BY <3>1
  <2>2. CASE p \notin {0, MaxPrio}
    BY <1>2, <2>2
  <2> QED
    BY <2>1, <2>2
<1>4. LiveFirst
  BY <1>2 DEF LiveFirst, IsHead, Live, Init
<1>5. RaisedHead
  BY <1>2 DEF RaisedHead, IsHead, Me, Init
<1>6. NoLostActivation
  <2> SUFFICES ASSUME NEW e \in Exe
               PROVE  nact[e] = Cardinality(Copies(queue[BasePrio[e]], e))
    BY DEF NoLostActivation, Queued, Copies
  <2>1. CASE e = Idle
    <3>1. queue[BasePrio[e]] = <<Idle>>
      BY <1>2, <2>1
    <3>2. Copies(<<Idle>>, Idle) = {1}
      BY DEF Copies
    <3>3. Cardinality({1}) = 1
      BY FS_Singleton
    <3>4. Cardinality(Copies(queue[BasePrio[e]], e)) = 1
      BY <2>1, <3>1, <3>2, <3>3
    <3> QED
      BY <2>1, <3>4 DEF Init
  <2>2. CASE e # Idle
    <3>1. queue[BasePrio[e]] = <<>>
      <4>1. BasePrio[e] \in Prio \ {0, MaxPrio}
        BY <2>2
      <4> QED
        BY <1>2, <4>1
    <3>2. Copies(<<>>, e) = {}
      BY DEF Copies
    <3>3. Cardinality({}) = 0
      BY FS_EmptySet
    <3>4. Cardinality(Copies(queue[BasePrio[e]], e)) = 0
      BY <3>1, <3>2, <3>3
    <3> QED
      BY <2>2, <3>4 DEF Init
  <2> QED
    BY <2>1, <2>2
<1>7. WithinLimits
  <2>1. \A e \in Exe : ~Chaining(e)
    BY DEF Init, Chaining
  <2>2. \A e \in Exe : nact[e] <= MaxAct[e]
    BY DEF Init
  <2> QED
    BY <2>1, <2>2 DEF WithinLimits
<1> QED
  BY <1>1, <1>3, <1>4, <1>5, <1>6, <1>7, InvStart DEF QueueInv, QueuesInv

LEMMA QueuesStep ==
  ASSUME Disciplined
  PROVE  QueuesInv /\ [Next]_vars => QueuesInv'
<1>3. Lifo
  BY Rules
<1> SUFFICES ASSUME Urgent, QueueInv, panic = "none", [Next]_vars,
                    NEW r \in [Mutex -> Nat], IndInv(r)
             PROVE  (Urgent /\ QueueInv /\ panic = "none")'
  BY <1>3, InvStep DEF QueuesInv, Inv
<1>1. CASE Next
  <2>1. panic' = "none"
    <3>1. CASE Call \/ End \/ CatchIrq
      BY <3>1, CallsDoNotPanic
    <3>2. CASE Kernel
      BY <3>2, KernelDoesNotPanic
    <3> QED
      BY <1>1, <3>1, <3>2 DEF Next
  <2>2. QueueInv'
    BY <1>1, <2>1, QueueNext
  <2>3. Urgent'
    BY <1>1, SettledNext, ChainedNext DEF Urgent
  <2> QED
    BY <2>1, <2>2, <2>3
<1>2. CASE UNCHANGED vars
  <2>1. /\ UNCHANGED <<queue, nact, jb, owner, saveprio, currprio, mutexlist>>
        /\ UNCHANGED <<pc, currentexe, frames, panic>>
    BY <1>2 DEF vars, exeVars, mutexVars, cpuVars
  <2>2. Urgent' /\ panic' = "none"
    BY <2>1 DEF Urgent, Settled, ChainedFree, EmptyAbove, Top, Me
  <2>3. NoMoreRaised
    BY <2>1 DEF NoMoreRaised
  <2>4. \A e \in Exe : Chaining(e) => Chaining(e)'
    BY <2>1 DEF Chaining, Me
  <2>5. QueueInv'
    BY <2>1, <2>3, <2>4, QueuesKept DEF Live
  <2> QED
    BY <2>2, <2>5
<1> QED
  BY <1>1, <1>2

LEMMA QueuesInductive ==
  ASSUME Disciplined
  PROVE  Spec => []QueuesInv
BY QueuesStart, QueuesStep, PTL DEF Spec

\* No internal check of the kernel fails: the queues are long enough, every executable
\* leaves them in the order the kernel expects, a mutex is never found occupied and every
\* termination has an anchor.
THEOREM KernelNeverPanics ==
  ASSUME Disciplined
  PROVE  Spec => []NoPanic
<1>1. QueuesInv => NoPanic
  BY DEF QueuesInv, NoPanic
<1> QED
  BY <1>1, QueuesInductive, PTL

\* Every activation that is not finished has its one place in a queue.
THEOREM EveryActivationQueued ==
  ASSUME Disciplined
  PROVE  Spec => []NoLostActivation
<1>1. QueuesInv => NoLostActivation
  BY DEF QueuesInv, QueueInv
<1> QED
  BY <1>1, QueuesInductive, PTL

-----------------------------------------------------------------------------
(* The states of the executables                                           *)

LEMMA StateKept ==
  ASSUME StateInv, UNCHANGED <<state, nact, currentexe>>,
         pc = "sched" => Me = Top.exe, pc' = "sched" => Top'.exe = currentexe
  PROVE  StateInv'
BY DEF StateInv, Me

LEMMA StateActivate ==
  ASSUME NEW r, IndInv(r), QueueInv, StateInv, NEW t \in Exe, NEW ret, Activate(t, ret),
         pc \in {"app", "raised", "irq"}, ret \in {"app", "raised", "irq", "chained"}
  PROVE  StateInv'
<1>1. /\ nact' = [nact EXCEPT ![t] = @ + 1] /\ state' = StateActivated(t)
      /\ UNCHANGED <<currprio, currentexe>> /\ frames \in Seq(FrameType)
      /\ RunQueued(BasePrio[t], currprio[Me], ret)
      /\ nact \in [Exe -> Int] /\ nact[t] \in Nat
      /\ state \in [Exe -> {"suspended", "ready", "running"}]
  BY QueueTypes, Counted DEF Activate, QueueInv, IndInv, TypeOK
<1>2. pc' = "sched" => Top'.exe = currentexe
  <2> SUFFICES ASSUME pc' = "sched" PROVE Top'.exe = currentexe
    OBVIOUS
  <2> DEFINE f == Frame(BasePrio[t], currprio[Me], ret, FALSE)
  <2>1. frames' = Append(frames, f)
    BY <1>1 DEF RunQueued
  <2>2. f.exe = currentexe
    BY DEF Frame
  <2> HIDE DEF f
  <2>3. Top' = f
    BY <1>1, <2>1 DEF Top
  <2> QED
    BY <2>2, <2>3
<1>3. ASSUME NEW e \in Exe
      PROVE  /\ state'[e] = "running" <=> state[e] = "running"
             /\ state'[e] = "suspended" <=> nact'[e] = 0
  <2>1. CASE e # t
    <3>1. state'[e] = state[e] /\ nact'[e] = nact[e]
      BY <1>1, <2>1 DEF StateActivated
    <3> QED
      BY <3>1 DEF StateInv
  <2>2. CASE e = t
    <3>1. nact'[e] # 0
      BY <1>1, <2>2
    <3>2. state'[e] # "suspended" /\ (state'[e] = "running" <=> state[e] = "running")
      BY <1>1, <2>2 DEF StateActivated
    <3> QED
      BY <3>1, <3>2
  <2> QED
    BY <2>1, <2>2
<1>4. \A e \in Exe : state[e] = "running" <=> e = currentexe
  BY DEF StateInv, Me
<1> QED
  BY <1>1, <1>2, <1>3, <1>4 DEF StateInv, Me

LEMMA StateDispatch ==
  ASSUME Disciplined, NEW r \in [Mutex -> Nat], IndInv(r), QueueInv, StateInv, Dispatch,
         panic' = "none"
  PROVE  StateInv'
<1>1. pc = "sched" /\ Waiting # {} /\ frames # <<>>
  BY DEF Dispatch, IndInv, FrameInv, Current
<1>2. PICK p \in Waiting : p = Max(Waiting)
  BY <1>1, WaitingMax
<1>3. PICK e : e = Head(queue[p])
  OBVIOUS
<1>4. e \in Exe /\ BasePrio[e] = p
  BY <1>1, <1>3, StartedFresh
<1>5. /\ state' = StateStarted(e) /\ currentexe' = e /\ pc' = "app" /\ UNCHANGED nact
      /\ state \in [Exe -> {"suspended", "ready", "running"}]
  <2>1. Start(p, e)
    BY <1>2, <1>3 DEF Dispatch, Panic
  <2> QED
    BY <2>1 DEF Start, Panic, IndInv, TypeOK
<1>6. nact[e] # 0
  <2>1. queue[p] \in Seq(Exe) /\ queue[p] # <<>>
    BY <1>4, QueueTypes DEF Waiting
  <2>2. 1 \in DOMAIN queue[p] /\ queue[p][1] = e
    BY <1>3, <2>1
  <2>3. Cardinality(Copies(queue[p], e)) > 0
    BY <2>1, <2>2, CopiesFinite
  <2> QED
    BY <1>4, <2>3, Counted DEF QueueInv
<1>7. ASSUME NEW x \in Exe
      PROVE  /\ state'[x] = "running" <=> x = e
             /\ state'[x] = "suspended" <=> nact[x] = 0
  <2>1. CASE x = e
    BY <1>5, <1>6, <2>1 DEF StateStarted
  <2>2. CASE x # e /\ x = Top.exe
    <3>1. state'[x] = IF state[x] = "running" THEN "ready" ELSE state[x]
      BY <1>5, <2>2 DEF StateStarted
    <3> QED
      BY <2>2, <3>1 DEF StateInv
  <2>3. CASE x # e /\ x # Top.exe
    <3>1. state'[x] = state[x]
      BY <1>5, <2>3 DEF StateStarted
    <3>2. state[x] # "running"
      BY <1>1, <2>3 DEF StateInv, Me
    <3> QED
      BY <2>3, <3>1, <3>2 DEF StateInv
  <2> QED
    BY <2>1, <2>2, <2>3
<1> QED
  BY <1>5, <1>7 DEF StateInv, Me

\* An executable that has started has an activation.
LEMMA HeadCounts ==
  ASSUME NEW r, IndInv(r), QueueInv, NEW e \in Exe, IsHead(queue, BasePrio[e], e)
  PROVE  nact[e] \in Nat \ {0}
<1>1. queue[BasePrio[e]] \in Seq(Exe) /\ queue[BasePrio[e]] # <<>>
  BY QueueTypes DEF IsHead
<1>2. 1 \in DOMAIN queue[BasePrio[e]] /\ queue[BasePrio[e]][1] = e
  BY <1>1 DEF IsHead
<1>3. Cardinality(Copies(queue[BasePrio[e]], e)) > 0
  BY <1>1, <1>2, CopiesFinite
<1> QED
  BY <1>3, Counted DEF QueueInv

LEMMA LiveCounts ==
  ASSUME NEW r, IndInv(r), QueueInv, NEW e \in Exe, Live(e)
  PROVE  nact[e] \in Nat \ {0}
BY HeadCounts DEF QueueInv, LiveFirst

LEMMA StateReturn ==
  ASSUME NEW r, IndInv(r), QueueInv, StateInv, Return
  PROVE  StateInv'
<1>1. /\ pc = "sched" /\ frames # <<>> /\ currentexe' = Top.exe /\ pc' = Top.ret
      /\ UNCHANGED nact /\ state \in [Exe -> {"suspended", "ready", "running"}]
      /\ state' = IF Me # Top.exe THEN [state EXCEPT ![Top.exe] = "running"] ELSE state
  BY DEF Return, IndInv, FrameInv, Current, TypeOK
<1>2. Top \in FrameType /\ Len(frames) \in 1 .. Len(frames) /\ Top = frames[Len(frames)]
  BY <1>1, TopType DEF IndInv
<1>3. Top.exe \in Exe /\ Live(Top.exe) /\ Top.ret # "sched"
  BY <1>2, CallersLive DEF FrameType
<1>4. nact[Top.exe] # 0
  BY <1>3, LiveCounts
<1>5. ASSUME NEW x \in Exe
      PROVE  /\ state'[x] = "running" <=> x = Top.exe
             /\ state'[x] = "suspended" <=> nact[x] = 0
  <2>1. CASE Me = Top.exe
    BY <1>1, <2>1 DEF StateInv
  <2>2. CASE Me # Top.exe /\ x = Top.exe
    BY <1>1, <1>4, <2>2
  <2>3. CASE Me # Top.exe /\ x # Top.exe
    BY <1>1, <2>3 DEF StateInv
  <2> QED
    BY <2>1, <2>2, <2>3
<1> QED
  BY <1>1, <1>3, <1>5 DEF StateInv, Me

LEMMA StateFinish ==
  ASSUME Disciplined, NEW r \in [Mutex -> Nat], IndInv(r), QueueInv, StateInv, FinishExit,
         panic' = "none"
  PROVE  StateInv'
<1>1. pc = "exit"
  BY DEF FinishExit
<1>2. /\ Top.e = Me /\ Me \in Exe /\ AfterRunPrio(Me) = queue /\ Live(Me) /\ Top.exe # Me
      /\ Top.eprio = BasePrio[Me] /\ IsHead(queue, BasePrio[Me], Me)
  BY <1>1, EndsInPlace
<1>3. /\ nact' = [nact EXCEPT ![Me] = @ - 1] /\ state' = StateEnded(Me) /\ pc' = "sched"
      /\ UNCHANGED <<currentexe, frames>>
      /\ nact \in [Exe -> Int] /\ state \in [Exe -> {"suspended", "ready", "running"}]
  BY <1>2 DEF FinishExit, Panic, IndInv, TypeOK
<1>4. nact[Me] \in Nat \ {0}
  BY <1>2, LiveCounts
<1>5. ASSUME NEW x \in Exe
      PROVE  state'[x] # "running" /\ (state'[x] = "suspended" <=> nact'[x] = 0)
  <2>1. CASE x = Me
    <3>1. nact'[x] = nact[Me] - 1 /\ state'[x] = IF nact[Me] <= 1 THEN "suspended" ELSE "ready"
      BY <1>3, <2>1 DEF StateEnded
    <3>2. nact[Me] <= 1 <=> nact[Me] - 1 = 0
      BY <1>4
    <3> QED
      BY <3>1, <3>2
  <2>2. CASE x # Me
    <3>1. nact'[x] = nact[x] /\ state'[x] = state[x]
      BY <1>3, <2>2 DEF StateEnded
    <3> QED
      BY <1>1, <2>2, <3>1 DEF StateInv
  <2> QED
    BY <2>1, <2>2
<1>6. ~(Me' = Top'.exe)
  <2>1. Top' = Top /\ Me' = Me
    BY <1>3 DEF Top, Me
  <2> QED
    BY <1>2, <2>1
<1> QED
  BY <1>3, <1>5, <1>6 DEF StateInv, Me, Top

LEMMA StateNext ==
  ASSUME Disciplined, NEW r \in [Mutex -> Nat], IndInv(r), Urgent, QueueInv, StateInv, Next,
         panic' = "none"
  PROVE  StateInv'
<1> USE DEF exeVars, mutexVars, cpuVars
<1>0. frames \in Seq(FrameType)
  BY QueueTypes
<1>p. ASSUME UNCHANGED currentexe, NEW f, f.exe = Me, frames' = Append(frames, f)
      PROVE  Top'.exe = currentexe
  BY <1>0, <1>p DEF Top, Me
<1>q. pc \in {"irq", "raised"} => Me = Top.exe
  BY DEF IndInv, FrameInv, Current
<1>1. ASSUME NEW t \in Task, ActivateTask(t) \/ ChainTask(t) PROVE StateInv'
  <2>1. \/ pc \in {"app", "raised"} /\ Activate(t, pc)
        \/ pc = "app" /\ Activate(t, "chained")
    BY <1>1 DEF ActivateTask, ChainTask, Panic
  <2> QED
    BY <2>1, StateActivate
<1>2. ASSUME TerminateTask \/ ReturnFromMain \/ ChainExit PROVE StateInv'
  <2>1. UNCHANGED <<state, nact, currentexe>> /\ pc # "sched" /\ pc' = "exit"
    BY <1>2 DEF TerminateTask, ReturnFromMain, ChainExit, LongjmpToExit, Panic
  <2> QED
    BY <2>1, StateKept
<1>3. ASSUME NEW m \in Mutex, TakeMutex(m) PROVE StateInv'
  <2>1. UNCHANGED <<state, nact, currentexe>> /\ pc = "app" /\ pc' = "app"
    BY <1>3 DEF TakeMutex, TakeAgain, TakeFree, Panic
  <2> QED
    BY <2>1, StateKept
<1>4. ASSUME NEW m \in Mutex, DropMutex(m) PROVE StateInv'
  <2> DEFINE f == Frame(Ceiling[m], saveprio[m], "app", FALSE)
  <2>1. /\ UNCHANGED <<state, nact, currentexe>> /\ pc = "app"
        /\ pc' = "app" \/ (pc' = "sched" /\ frames' = Append(frames, f))
    BY <1>4 DEF DropMutex, DropOnce, DropLast, RunQueued, Panic
  <2>2. f.exe = Me
    BY DEF Frame, Me
  <2> HIDE DEF f
  <2> QED
    BY <1>p, <2>1, <2>2, StateKept
<1>5. ASSUME RaisePrio \/ CatchIrq PROVE StateInv'
  <2>1. UNCHANGED <<state, nact, currentexe>> /\ pc # "sched" /\ pc' \in {"raised", "irq"}
    BY <1>5 DEF RaisePrio, CatchIrq, Panic
  <2> QED
    BY <2>1, StateKept
<1>6. ASSUME LowerPrio \/ IrqDone PROVE StateInv'
  <2>1. UNCHANGED <<state, nact, currentexe, frames>> /\ pc \in {"raised", "irq"}
    BY <1>6 DEF LowerPrio, IrqDone, Panic
  <2>2. Top'.exe = currentexe
    BY <1>q, <2>1 DEF Top, Me
  <2> QED
    BY <2>1, <2>2, StateKept
<1>7. ASSUME NEW i \in Isr, VectorIrq(i) PROVE StateInv'
  <2>1. CASE CanActivate(i)
    <3>1. Activate(i, "irq") /\ pc = "irq"
      BY <1>7, <2>1 DEF VectorIrq, Panic
    <3> QED
      BY <3>1, StateActivate
  <2>2. CASE ~CanActivate(i)
    <3>1. UNCHANGED <<state, nact, currentexe, pc>> /\ pc = "irq"
      BY <1>7, <2>2 DEF VectorIrq
    <3> QED
      BY <3>1, StateKept
  <2> QED
    BY <2>1, <2>2
<1>8. ~ReleaseMutex
  BY NothingReleased DEF Urgent
<1> QED
  BY <1>1, <1>2, <1>3, <1>4, <1>5, <1>6, <1>7, <1>8, StateDispatch, StateReturn, StateFinish
     DEF Next, Call, End, Kernel

\* All that is known of the kernel.
KernelInv == QueuesInv /\ StateInv

LEMMA KernelStart == Init => KernelInv
<1>1. Init => StateInv
  BY DEF Init, StateInv, Me
<1> QED
  BY <1>1, QueuesStart DEF KernelInv

LEMMA KernelStep ==
  ASSUME Disciplined
  PROVE  KernelInv /\ [Next]_vars => KernelInv'
<1> SUFFICES ASSUME KernelInv, [Next]_vars PROVE KernelInv'
  OBVIOUS
<1>1. QueuesInv'
  BY QueuesStep DEF KernelInv
<1>2. PICK r \in [Mutex -> Nat] : IndInv(r)
  BY DEF KernelInv, QueuesInv, Inv
<1>3. StateInv /\ Urgent /\ QueueInv /\ panic' = "none"
  BY <1>1 DEF KernelInv, QueuesInv
<1>4. CASE Next
  <2>1. StateInv'
    BY <1>2, <1>3, <1>4, StateNext
  <2> QED
    BY <1>1, <2>1 DEF KernelInv
<1>5. CASE UNCHANGED vars
  <2>1. StateInv'
    BY <1>3, <1>5 DEF vars, exeVars, cpuVars, StateInv, Me, Top
  <2> QED
    BY <1>1, <2>1 DEF KernelInv
<1> QED
  BY <1>4, <1>5

\* Exactly the executable whose code runs is "running", and the suspended ones are those
\* without an activation.
THEOREM StatesTold ==
  ASSUME Disciplined
  PROVE  Spec => []StateMatches
<1>1. KernelInv => StateMatches
  BY DEF KernelInv, StateInv, StateMatches, Running
<1> QED
  BY <1>1, KernelStart, KernelStep, PTL DEF Spec

-----------------------------------------------------------------------------
(* The scheduler implements PriorityFifo.                                  *)

\* A function on 1 .. n is a sequence of length n.
LEMMA SeqOfFunction ==
  ASSUME NEW S, NEW n \in Nat, NEW f \in [1 .. n -> S]
  PROVE  f \in Seq(S) /\ Len(f) = n
OBVIOUS

\* The executable at place i of the stack.
Placed(i) == IF i = 1 THEN Idle ELSE frames[i - 1].e

Entry == [exe : Exe, prio : Int]

\* What the stack is, entry by entry.
StackInv ==
  /\ Depth \in Nat /\ Depth <= Len(frames)
  /\ Stack \in Seq(Entry) /\ Len(Stack) = Depth + 1
  /\ \A i \in 1 .. Depth + 1 : Placed(i) \in Exe
  /\ \A i \in 1 .. Depth + 1, e \in Exe : Placed(i) = e =>
       Live(e) /\ Stack[i] = [exe |-> e, prio |-> OwnPrio(e)]

LEMMA PlacedLive ==
  ASSUME NEW r, IndInv(r)
  PROVE  /\ Depth \in Nat /\ Depth <= Len(frames)
         /\ \A i \in 1 .. Depth + 1 : Placed(i) \in Exe /\ Live(Placed(i))
<1>1. frames \in Seq(FrameType) /\ Len(frames) \in Nat
  BY QueueTypes
<1>2. Depth \in Nat /\ Depth <= Len(frames) /\ (\A i \in 1 .. Depth : Occupied(i))
  <2>1. CASE pc \in {"app", "chained", "exit"}
    BY <1>1, <2>1 DEF Depth, Occupied
  <2>2. CASE pc \notin {"app", "chained", "exit"}
    <3>1. frames # <<>>
      BY <2>2 DEF IndInv, FrameInv, Current, TypeOK
    <3>2. Len(frames) \in Nat \ {0} /\ Depth = Len(frames) - 1
      BY <2>2, <3>1, TopType DEF IndInv, Depth
    <3>3. Depth \in Nat /\ Depth < Len(frames)
      BY <3>2
    <3> QED
      BY <1>1, <3>3 DEF Occupied
  <2> QED
    BY <2>1, <2>2
<1>3. ASSUME NEW i \in 1 .. Depth + 1 PROVE Placed(i) \in Exe /\ Live(Placed(i))
  <2>1. CASE i = 1
    BY <2>1 DEF Placed, Live
  <2>2. CASE i # 1
    <3>1. i - 1 \in 1 .. Depth
      BY <1>2, <2>2
    <3>2. i - 1 \in 1 .. Len(frames) /\ Occupied(i - 1)
      BY <1>1, <1>2, <3>1
    <3>3. frames[i - 1].e \in Exe /\ jb[frames[i - 1].e] = i - 1
      BY <3>2 DEF IndInv, FrameInv, Started
    <3> QED
      BY <2>2, <3>1, <3>3 DEF Placed, Live
  <2> QED
    BY <2>1, <2>2
<1> QED
  BY <1>2, <1>3

LEMMA StackShape ==
  ASSUME NEW r, IndInv(r)
  PROVE  StackInv
<1>1. /\ Depth \in Nat /\ Depth <= Len(frames)
      /\ \A i \in 1 .. Depth + 1 : Placed(i) \in Exe /\ Live(Placed(i))
  BY PlacedLive
<1>2. \A i \in 1 .. Depth + 1 : OwnPrio(Placed(i)) \in Int
  <2> TAKE i \in 1 .. Depth + 1
  <2>1. PICK e \in Exe : e = Placed(i) /\ Live(e)
    BY <1>1
  <2>2. OwnPrio(e) \in RunPrio[e] .. MaxPrio - 1
    BY <2>1, OwnPrioBounds
  <2> QED
    BY <2>1, <2>2
<1>3. Stack = [i \in 1 .. Depth + 1 |-> [exe |-> Placed(i), prio |-> OwnPrio(Placed(i))]]
  BY DEF Stack, OnStack, Placed
<1>4. PICK n \in Nat : n = Depth + 1
  <2>1. Depth + 1 \in Nat
    BY <1>1
  <2> QED
    BY <2>1
<1>5. Stack \in [1 .. n -> Entry]
  BY <1>1, <1>2, <1>3, <1>4 DEF Entry
<1>6. Stack \in Seq(Entry) /\ Len(Stack) = n
  BY <1>5, SeqOfFunction
<1>7. ASSUME NEW i \in 1 .. Depth + 1, NEW e \in Exe, Placed(i) = e
      PROVE  Live(e) /\ Stack[i] = [exe |-> e, prio |-> OwnPrio(e)]
  BY <1>1, <1>3, <1>7
<1> QED
  BY <1>1, <1>4, <1>6, <1>7 DEF StackInv

\* The executable that runs is the newest of the stack; while the kernel scans, the caller is.
LEMMA NewestIs ==
  ASSUME NEW r, IndInv(r)
  PROVE  /\ pc \in {"app", "chained", "exit"} =>
              Placed(Depth + 1) = Me /\ Depth = Len(frames) /\ OwnPrio(Me) = currprio[Me]
         /\ pc = "sched" =>
              Placed(Depth + 1) = Top.exe /\ Depth = Len(frames) - 1 /\ OwnPrio(Top.exe) = Top.low
<1>1. frames \in Seq(FrameType) /\ Len(frames) \in Nat
  BY QueueTypes
<1>2. ASSUME pc \in {"app", "chained", "exit"}
      PROVE  Placed(Depth + 1) = Me /\ Depth = Len(frames) /\ OwnPrio(Me) = currprio[Me]
  <2>1. Depth = Len(frames) /\ OwnPrio(Me) = currprio[Me]
    BY <1>2 DEF Depth, OwnPrio
  <2>2. CASE frames = <<>>
    BY <1>2, <2>1, <2>2, MeOnTop DEF Placed
  <2>3. CASE frames # <<>>
    <3>1. Len(frames) \in Nat \ {0} /\ Top = frames[Len(frames)] /\ Me = Top.e
      BY <1>2, <2>3, TopType, MeOnTop DEF IndInv
    <3>2. Depth + 1 # 1 /\ (Depth + 1) - 1 = Len(frames)
      BY <2>1, <3>1
    <3> QED
      BY <2>1, <3>1, <3>2 DEF Placed
  <2> QED
    BY <2>1, <2>2, <2>3
<1>3. ASSUME pc = "sched"
      PROVE  /\ Placed(Depth + 1) = Top.exe /\ Depth = Len(frames) - 1
             /\ OwnPrio(Top.exe) = Top.low
  <2>1. frames # <<>>
    BY <1>3 DEF IndInv, FrameInv, Current
  <2>2. Len(frames) \in Nat \ {0} /\ Top = frames[Len(frames)] /\ Depth = Len(frames) - 1
    BY <1>3, <2>1, TopType DEF IndInv, Depth
  <2>3. PICK n \in Nat : n = Len(frames) /\ n \in 1 .. Len(frames) /\ Depth + 1 = n
    BY <2>2
  <2>4. Placed(n) = frames[n].exe
    BY <2>3 DEF Placed, IndInv, FrameInv, Chain
  <2>5. frames[n].low = OwnPrio(frames[n].exe)
    BY <2>3 DEF IndInv, FrameInv, Lows
  <2> QED
    BY <2>2, <2>3, <2>4, <2>5
<1> QED
  BY <1>2, <1>3

\* Entry i of the stack stays where the frame below does.
FrameStays(i) == i = 1 \/ frames'[i - 1].e = frames[i - 1].e

\* The executables started and not ended keep their priorities.
PriosStay(S) == \A e \in S : Live(e) => OwnPrio(e)' = OwnPrio(e)

LEMMA EntryStays ==
  ASSUME StackInv, StackInv', NEW i \in 1 .. Depth + 1, i \in 1 .. Depth' + 1, FrameStays(i)
  PROVE  \E e \in Exe : /\ Placed(i) = e /\ Live(e)
                        /\ Stack[i] = [exe |-> e, prio |-> OwnPrio(e)]
                        /\ Stack'[i] = [exe |-> e, prio |-> OwnPrio(e)']
<1>1. PICK e \in Exe : Placed(i) = e
  BY DEF StackInv
<1>2. Live(e) /\ Stack[i] = [exe |-> e, prio |-> OwnPrio(e)]
  BY <1>1 DEF StackInv
<1>3. Placed(i)' = e
  BY <1>1 DEF Placed, FrameStays
<1>4. Stack'[i] = [exe |-> e, prio |-> OwnPrio(e)']
  BY <1>3 DEF StackInv
<1> QED
  BY <1>1, <1>2, <1>4

\* Nothing on the stack changes.
LEMMA StackKept ==
  ASSUME StackInv, StackInv', Depth' = Depth,
         \A i \in 1 .. Depth + 1 : FrameStays(i), PriosStay(Exe)
  PROVE  Stack' = Stack
<1>1. ASSUME NEW i \in 1 .. Depth + 1 PROVE Stack'[i] = Stack[i]
  <2>1. i \in 1 .. Depth' + 1
    OBVIOUS
  <2>2. PICK e \in Exe : /\ Live(e) /\ Stack[i] = [exe |-> e, prio |-> OwnPrio(e)]
                         /\ Stack'[i] = [exe |-> e, prio |-> OwnPrio(e)']
    BY <2>1, EntryStays
  <2> QED
    BY <2>2 DEF PriosStay
<1>2. /\ Stack \in Seq(Entry) /\ Len(Stack) = Depth + 1
      /\ Stack' \in Seq(Entry) /\ Len(Stack') = Depth + 1
  BY DEF StackInv
<1> QED
  BY <1>1, <1>2, SeqEqual

\* The priority of the newest changes.
LEMMA StackChanged ==
  ASSUME StackInv, StackInv', Depth' = Depth, \A i \in 1 .. Depth + 1 : FrameStays(i),
         NEW e \in Exe, Placed(Depth + 1) = e, PriosStay(Exe \ {e}),
         NEW n \in Int, OwnPrio(e)' = n,
         \A i \in 1 .. Depth : Placed(i) # e
  PROVE  Stack' = [Stack EXCEPT ![Len(Stack)].prio = n]
<1>1. /\ Stack \in Seq(Entry) /\ Len(Stack) = Depth + 1 /\ Depth \in Nat
      /\ Stack' \in Seq(Entry) /\ Len(Stack') = Depth + 1
  BY DEF StackInv
<1>2. PICK d \in Nat : d = Depth
  BY <1>1
<1>3. PICK s \in Seq(Entry) : s = Stack
  BY <1>1
<1>4. [s EXCEPT ![d + 1].prio = n] = [s EXCEPT ![d + 1] = [exe |-> e, prio |-> n]]
  <2>1. s[d + 1] = [exe |-> e, prio |-> OwnPrio(e)]
    BY <1>2, <1>3 DEF StackInv
  <2>2. [s[d + 1] EXCEPT !.prio = n] = [exe |-> e, prio |-> n]
    BY <2>1
  <2> QED
    BY <2>2
<1>5. PICK t : t = [s EXCEPT ![d + 1] = [exe |-> e, prio |-> n]]
  OBVIOUS
<1>6. t \in Seq(Entry) /\ Len(t) = Len(s)
  <2>1. [exe |-> e, prio |-> n] \in Entry
    BY DEF Entry
  <2>2. d + 1 \in 1 .. Len(s)
    BY <1>1, <1>2, <1>3
  <2> QED
    BY <1>5, <2>1, <2>2, ExceptSeq
<1>7. ASSUME NEW i \in 1 .. d + 1 PROVE Stack'[i] = t[i]
  <2>1. PICK x \in Exe : /\ Placed(i) = x /\ Live(x)
                         /\ Stack[i] = [exe |-> x, prio |-> OwnPrio(x)]
                         /\ Stack'[i] = [exe |-> x, prio |-> OwnPrio(x)']
    <3>1. i \in 1 .. Depth + 1 /\ i \in 1 .. Depth' + 1
      BY <1>2
    <3> QED
      BY <3>1, EntryStays
  <2>2. CASE i = d + 1
    <3>1. x = e
      BY <1>2, <2>1, <2>2
    <3>2. OwnPrio(x)' = n
      BY <3>1
    <3>3. t[i] = [exe |-> e, prio |-> n]
      BY <1>1, <1>2, <1>3, <1>5, <2>2
    <3> QED
      BY <2>1, <3>1, <3>2, <3>3
  <2>3. CASE i # d + 1
    <3>1. i \in 1 .. Depth
      BY <1>2, <2>3
    <3>2. x \in Exe \ {e}
      BY <2>1, <3>1
    <3>3. OwnPrio(x)' = OwnPrio(x)
      BY <2>1, <3>2 DEF PriosStay
    <3>4. t[i] = s[i]
      BY <1>1, <1>2, <1>3, <1>5, <2>3
    <3> QED
      BY <1>3, <2>1, <3>3, <3>4
  <2> QED
    BY <2>2, <2>3
<1>8. Stack' = t
  <2>1. Len(Stack') = d + 1 /\ Len(t) = d + 1
    BY <1>1, <1>2, <1>3, <1>6
  <2> QED
    BY <1>1, <1>6, <1>7, <2>1, SeqEqual
<1> QED
  BY <1>1, <1>2, <1>3, <1>4, <1>5, <1>8

\* One more is started.
LEMMA StackPushed ==
  ASSUME StackInv, StackInv', Depth' = Depth + 1, \A i \in 1 .. Depth + 1 : FrameStays(i),
         PriosStay(Exe), NEW e \in Exe, frames'[Depth + 1].e = e, NEW n \in Int, OwnPrio(e)' = n
  PROVE  Stack' = Append(Stack, [exe |-> e, prio |-> n])
<1>1. /\ Stack \in Seq(Entry) /\ Len(Stack) = Depth + 1 /\ Depth \in Nat
      /\ Stack' \in Seq(Entry) /\ Len(Stack') = Depth + 2
  BY DEF StackInv
<1>2. PICK x \in Entry : x = [exe |-> e, prio |-> n]
  BY DEF Entry
<1>3. PICK t : t = Append(Stack, x)
  OBVIOUS
<1>4. /\ t \in Seq(Entry) /\ Len(t) = Depth + 2 /\ t[Depth + 2] = x
      /\ \A i \in 1 .. Depth + 1 : t[i] = Stack[i]
  <2>1. /\ t \in Seq(Entry) /\ Len(t) = Len(Stack) + 1 /\ t[Len(Stack) + 1] = x
        /\ \A i \in 1 .. Len(Stack) : t[i] = Stack[i]
    BY <1>1, <1>3, AppendFacts
  <2> QED
    BY <1>1, <2>1
<1>5. ASSUME NEW i \in 1 .. Depth + 2 PROVE Stack'[i] = t[i]
  <2>1. CASE i = Depth + 2
    <3>1. i \in 1 .. Depth' + 1 /\ i # 1 /\ i - 1 = Depth + 1
      BY <1>1, <2>1
    <3>2. Placed(i)' = e
      BY <3>1 DEF Placed
    <3>3. Stack'[i] = [exe |-> e, prio |-> OwnPrio(e)']
      BY <3>1, <3>2 DEF StackInv
    <3> QED
      BY <1>2, <1>4, <2>1, <3>3
  <2>2. CASE i # Depth + 2
    <3>1. i \in 1 .. Depth + 1 /\ i \in 1 .. Depth' + 1
      BY <1>1, <2>2
    <3>2. PICK y \in Exe : /\ Live(y) /\ Stack[i] = [exe |-> y, prio |-> OwnPrio(y)]
                           /\ Stack'[i] = [exe |-> y, prio |-> OwnPrio(y)']
      BY <3>1, EntryStays
    <3> QED
      BY <1>4, <3>1, <3>2 DEF PriosStay
  <2> QED
    BY <2>1, <2>2
<1>6. Stack' = t
  BY <1>1, <1>4, <1>5, SeqEqual
<1> QED
  BY <1>2, <1>3, <1>6

\* The newest ends.
LEMMA StackPopped ==
  ASSUME StackInv, StackInv', Depth' = Depth - 1, Depth > 0,
         \A i \in 1 .. Depth : FrameStays(i),
         NEW e \in Exe, PriosStay(Exe \ {e}), \A i \in 1 .. Depth : Placed(i) # e
  PROVE  Stack' = SubSeq(Stack, 1, Len(Stack) - 1)
<1>1. /\ Stack \in Seq(Entry) /\ Len(Stack) = Depth + 1 /\ Depth \in Nat
      /\ Stack' \in Seq(Entry) /\ Len(Stack') = Depth
  <2>1. /\ Stack \in Seq(Entry) /\ Len(Stack) = Depth + 1 /\ Depth \in Nat
        /\ Stack' \in Seq(Entry) /\ Len(Stack') = Depth' + 1
    BY DEF StackInv
  <2> QED
    BY <2>1
<1>2. PICK t : t = SubSeq(Stack, 1, Depth)
  OBVIOUS
<1>3. t \in Seq(Entry) /\ Len(t) = Depth /\ \A i \in 1 .. Depth : t[i] = Stack[i]
  <2>1. Depth <= Len(Stack)
    BY <1>1
  <2> QED
    BY <1>1, <1>2, <2>1, SubSeqFacts
<1>4. ASSUME NEW i \in 1 .. Depth PROVE Stack'[i] = t[i]
  <2>1. i \in 1 .. Depth + 1 /\ i \in 1 .. Depth' + 1
    BY <1>1
  <2>2. PICK y \in Exe : /\ Placed(i) = y /\ Live(y)
                         /\ Stack[i] = [exe |-> y, prio |-> OwnPrio(y)]
                         /\ Stack'[i] = [exe |-> y, prio |-> OwnPrio(y)']
    BY <2>1, EntryStays
  <2>3. y \in Exe \ {e}
    BY <2>2
  <2> QED
    BY <1>3, <2>2, <2>3 DEF PriosStay
<1>5. Stack' = t
  BY <1>1, <1>3, <1>4, SeqEqual
<1>6. Len(Stack) - 1 = Depth
  BY <1>1
<1> QED
  BY <1>2, <1>5, <1>6

\* The newest is on the stack once.
LEMMA NewestOnce ==
  ASSUME NEW r, IndInv(r), pc \in {"app", "chained", "exit"}
  PROVE  \A i \in 1 .. Depth : Placed(i) # Me
<1>1. frames \in Seq(FrameType) /\ Len(frames) \in Nat /\ Depth = Len(frames)
  BY QueueTypes, NewestIs
<1>2. ASSUME NEW i \in 1 .. Depth PROVE Placed(i) # Me
  <2>1. frames # <<>> /\ i \in 1 .. Len(frames)
    BY <1>1
  <2>2. frames[i].exe # Me /\ Me # Idle
    BY <2>1, MeOnTop
  <2>3. i > 1 => frames[i].exe = frames[i - 1].e
    BY <2>1 DEF IndInv, FrameInv, Chain
  <2>4. i # 1 => i > 1
    BY <2>1
  <2> QED
    BY <2>2, <2>3, <2>4 DEF Placed
<1> QED
  BY <1>2

-----------------------------------------------------------------------------
(* What waits: the queues without the executables that have started.       *)

\* The priorities of executables; the highest is the kernel's.
ExePrios == 1 .. MaxPrio - 1

NotStartedQueues == [p \in ExePrios |-> NotStarted(p)]

\* A queue that has not changed, and whose first entry has neither started nor ended.
LEMMA WaitingSame ==
  ASSUME NEW p, queue'[p] = queue[p],
         \A x : queue[p] # <<>> /\ x = Head(queue[p]) => (Live(x)' <=> Live(x))
  PROVE  NotStarted(p)' = NotStarted(p)
<1>1. PICK q : q = queue[p]
  OBVIOUS
<1>2. PICK x : x = Head(q)
  OBVIOUS
<1>3. NotStarted(p) = IF q # <<>> /\ Live(x) THEN Tail(q) ELSE q
  BY <1>1, <1>2 DEF NotStarted
<1>4. NotStarted(p)' = IF q # <<>> /\ Live(x)' THEN Tail(q) ELSE q
  BY <1>1, <1>2 DEF NotStarted, Live
<1> QED
  BY <1>1, <1>2, <1>3, <1>4

\* An activation is appended.
LEMMA WaitingGrows ==
  ASSUME NEW r, IndInv(r), QueueInv, NEW t \in Exe, queue' = Enqueue(queue, BasePrio[t], t),
         UNCHANGED jb, BasePrio[t] \in ExePrios
  PROVE  NotStartedQueues' = [NotStartedQueues EXCEPT ![BasePrio[t]] = Append(@, t)]
<1>1. PICK b \in ExePrios : b = BasePrio[t]
  OBVIOUS
<1>2. b \in Prio /\ queue \in [Prio -> Seq(Exe)]
  BY <1>1, QueueTypes DEF ExePrios
<1>3. PICK q \in Seq(Exe) : q = queue[b]
  BY <1>2
<1>4. queue'[b] = Append(q, t) /\ \A p \in ExePrios \ {b} : queue'[p] = queue[p]
  BY <1>1, <1>2, <1>3 DEF Enqueue, ExePrios
<1>5. NotStarted(b)' = Append(NotStarted(b), t)
  <2>1. CASE q = <<>>
    <3>1. ~Live(t)
      <4>1. ~IsHead(queue, b, t)
        BY <1>3, <2>1 DEF IsHead
      <4> QED
        BY <1>1, <4>1 DEF QueueInv, LiveFirst
    <3>2. queue'[b] = <<t>> /\ Head(queue'[b]) = t
      BY <1>4, <2>1
    <3>3. NotStarted(b)' = <<t>>
      BY <3>1, <3>2 DEF NotStarted, Live
    <3> QED
      BY <1>3, <2>1, <3>3 DEF NotStarted
  <2>2. CASE q # <<>>
    <3>1. PICK x : x = Head(q)
      OBVIOUS
    <3>2. PICK s : s = Append(q, t)
      OBVIOUS
    <3>3. Head(s) = x /\ Tail(s) = Append(Tail(q), t) /\ s # <<>>
      BY <2>2, <3>1, <3>2, HeadTailAppend, AppendProperties
    <3>4. NotStarted(b)' = IF Live(x) THEN Tail(s) ELSE s
      BY <1>4, <3>2, <3>3 DEF NotStarted, Live
    <3>5. NotStarted(b) = IF Live(x) THEN Tail(q) ELSE q
      BY <1>3, <2>2, <3>1 DEF NotStarted
    <3> QED
      BY <3>2, <3>3, <3>4, <3>5
  <2> QED
    BY <2>1, <2>2
<1>6. \A p \in ExePrios \ {b} : NotStarted(p)' = NotStarted(p)
  <2> TAKE p \in ExePrios \ {b}
  <2>1. \A x : Live(x)' <=> Live(x)
    BY DEF Live
  <2> QED
    BY <1>4, <2>1, WaitingSame
<1> QED
  BY <1>1, <1>5, <1>6 DEF NotStartedQueues

\* Nothing that waits is touched.
LEMMA WaitingKept ==
  ASSUME \A p \in ExePrios : queue'[p] = queue[p], UNCHANGED jb
  PROVE  NotStartedQueues' = NotStartedQueues
<1>1. \A x : Live(x)' <=> Live(x)
  BY DEF Live
<1>2. \A p \in ExePrios : NotStarted(p)' = NotStarted(p)
  BY <1>1, WaitingSame
<1> QED
  BY <1>2 DEF NotStartedQueues

\* An executable that has started is raised to a priority at which nothing is queued.
LEMMA WaitingRaised ==
  ASSUME NEW r, IndInv(r), NEW c \in Prio, queue[c] = <<>>, NEW e \in Exe, Live(e),
         queue' = Enqueue(queue, c, e), UNCHANGED jb
  PROVE  NotStartedQueues' = NotStartedQueues
<1>1. queue'[c] = <<e>> /\ \A p \in Prio \ {c} : queue'[p] = queue[p]
  BY QueueTypes, SMTT(30) DEF Enqueue
<1>2. NotStarted(c)' = <<>>
  <2>1. queue'[c] # <<>> /\ Head(queue'[c]) = e /\ Tail(queue'[c]) = <<>>
    BY <1>1
  <2> QED
    BY <2>1 DEF NotStarted, Live
<1>3. NotStarted(c) = <<>>
  BY DEF NotStarted
<1>4. \A p \in ExePrios \ {c} : NotStarted(p)' = NotStarted(p)
  <2> TAKE p \in ExePrios \ {c}
  <2>1. \A x : Live(x)' <=> Live(x)
    BY DEF Live
  <2>2. queue'[p] = queue[p]
    BY <1>1 DEF ExePrios
  <2> QED
    BY <2>1, <2>2, WaitingSame
<1> QED
  BY <1>2, <1>3, <1>4 DEF NotStartedQueues

\* The second entry of a queue has not started.
LEMMA SecondFresh ==
  ASSUME NEW r, IndInv(r), QueueInv, NEW p \in Prio, queue[p] # <<>>,
         NEW x, Tail(queue[p]) # <<>>, x = Head(Tail(queue[p])), x # Head(queue[p])
  PROVE  x \in Exe /\ ~Live(x)
<1>1. PICK q \in Seq(Exe) : q = queue[p]
  BY QueueTypes
<1>2. 2 \in 1 .. Len(q) /\ x = q[2] /\ x \in Exe
  BY <1>1
<1>3. BasePrio[x] = p
  <2>1. BasePrio[queue[p][2]] # p => 2 = 1
    BY <1>1, <1>2 DEF QueueInv, RaisedFirst
  <2> QED
    BY <1>1, <1>2, <2>1
<1>4. ~IsHead(queue, BasePrio[x], x)
  BY <1>3 DEF IsHead
<1>5. ~Live(x)
  BY <1>2, <1>4 DEF QueueInv, LiveFirst
<1> QED
  BY <1>2, <1>5

\* One that is raised leaves the queue.
LEMMA WaitingLowered ==
  ASSUME NEW r, IndInv(r), QueueInv, NEW c \in Prio, NEW e \in Exe, Live(e),
         BasePrio[e] # c, IsHead(queue, c, e), queue' = Dequeue(queue, c), UNCHANGED jb
  PROVE  NotStartedQueues' = NotStartedQueues
<1>1. PICK q \in Seq(Exe) : q = queue[c]
  BY QueueTypes
<1>2. /\ q # <<>> /\ Head(q) = e /\ queue'[c] = Tail(q)
      /\ \A p \in Prio \ {c} : queue'[p] = queue[p]
  BY <1>1, QueueTypes DEF IsHead, Dequeue
<1>3. NotStarted(c) = Tail(q)
  BY <1>1, <1>2 DEF NotStarted
<1>4. NotStarted(c)' = Tail(q)
  <2>1. CASE Tail(q) = <<>>
    BY <1>2, <2>1 DEF NotStarted
  <2>2. CASE Tail(q) # <<>>
    <3>1. PICK x : x = Head(Tail(q))
      OBVIOUS
    <3>2. x # e
      <4>1. 2 \in 1 .. Len(q) /\ x = q[2]
        BY <1>2, <2>2, <3>1
      <4> QED
        BY <1>1, <4>1 DEF QueueInv, RaisedFirst
    <3>3. ~Live(x)
      BY <1>1, <1>2, <2>2, <3>1, <3>2, SecondFresh
    <3> QED
      BY <1>2, <3>1, <3>3 DEF NotStarted, Live
  <2> QED
    BY <2>1, <2>2
<1>5. \A p \in ExePrios \ {c} : NotStarted(p)' = NotStarted(p)
  <2> TAKE p \in ExePrios \ {c}
  <2>1. \A x : Live(x)' <=> Live(x)
    BY DEF Live
  <2>2. queue'[p] = queue[p]
    BY <1>2 DEF ExePrios
  <2> QED
    BY <2>1, <2>2, WaitingSame
<1> QED
  BY <1>3, <1>4, <1>5 DEF NotStartedQueues

\* An executable that has not started waits in one queue only.
LEMMA WaitsAtBase ==
  ASSUME NEW r, IndInv(r), NEW e \in Exe, ~Live(e), NEW p \in Prio, queue[p] # <<>>,
         e = Head(queue[p])
  PROVE  BasePrio[e] = p
<1>1. PICK q \in Seq(Exe) : q = queue[p]
  BY QueueTypes
<1>2. 1 \in 1 .. Len(q) /\ e = q[1]
  BY <1>1
<1>3. BasePrio[q[1]] # p => Reason(q[1], p)
  BY <1>1, <1>2 DEF IndInv, Entries
<1> QED
  BY <1>2, <1>3 DEF Reason

\* The first of a queue starts.
LEMMA WaitingStarted ==
  ASSUME NEW r, IndInv(r), NEW p \in ExePrios, queue[p] # <<>>, NEW e \in Exe,
         e = Head(queue[p]), ~Live(e), BasePrio[e] = p, UNCHANGED queue,
         jb \in [Exe -> Nat], NEW n \in Nat \ {0}, jb' = [jb EXCEPT ![e] = n]
  PROVE  /\ NotStartedQueues[p] = queue[p]
         /\ NotStartedQueues' = [NotStartedQueues EXCEPT ![p] = Tail(@)]
<1>1. NotStarted(p) = queue[p]
  BY DEF NotStarted
<1>2. NotStarted(p)' = Tail(queue[p])
  BY DEF NotStarted, Live
<1>3. ASSUME NEW q \in ExePrios \ {p} PROVE NotStarted(q)' = NotStarted(q)
  <2>1. ASSUME NEW x, queue[q] # <<>>, x = Head(queue[q]) PROVE Live(x)' <=> Live(x)
    <3>1. x # e
      <4>1. q \in Prio
        BY DEF ExePrios
      <4> QED
        BY <2>1, <4>1, WaitsAtBase
    <3> QED
      BY <3>1 DEF Live
  <2> QED
    BY <2>1, WaitingSame
<1> QED
  BY <1>1, <1>2, <1>3 DEF NotStartedQueues

\* The first of a queue ends.
LEMMA WaitingEnded ==
  ASSUME NEW r, IndInv(r), QueueInv, NEW e \in Exe, Live(e), e # Idle,
         NEW b \in ExePrios, b = BasePrio[e], IsHead(queue, b, e),
         \A p \in Prio \ {b} : queue[p] # <<>> => Head(queue[p]) # e,
         queue' = Dequeue(queue, b), jb' = [jb EXCEPT ![e] = 0], jb \in [Exe -> Nat]
  PROVE  NotStartedQueues' = NotStartedQueues
<1>0. b \in Prio
  BY DEF ExePrios
<1>1. PICK q \in Seq(Exe) : q = queue[b]
  BY <1>0, QueueTypes
<1>2. /\ q # <<>> /\ Head(q) = e /\ queue'[b] = Tail(q)
      /\ \A p \in Prio \ {b} : queue'[p] = queue[p]
  BY <1>0, <1>1, QueueTypes DEF IsHead, Dequeue
<1>3. NotStarted(b) = Tail(q)
  BY <1>1, <1>2 DEF NotStarted
<1>4. NotStarted(b)' = Tail(q)
  <2>1. CASE Tail(q) = <<>>
    BY <1>2, <2>1 DEF NotStarted
  <2>2. CASE Tail(q) # <<>>
    <3>1. PICK x : x = Head(Tail(q))
      OBVIOUS
    <3>2. x # e => x \in Exe /\ ~Live(x)
      BY <1>0, <1>1, <1>2, <2>2, <3>1, SecondFresh
    <3>3. ~Live(x)'
      BY <3>2 DEF Live
    <3> QED
      BY <1>2, <3>1, <3>3 DEF NotStarted, Live
  <2> QED
    BY <2>1, <2>2
<1>5. ASSUME NEW p \in ExePrios \ {b} PROVE NotStarted(p)' = NotStarted(p)
  <2>1. p \in Prio \ {b}
    BY DEF ExePrios
  <2>2. ASSUME NEW x, queue[p] # <<>>, x = Head(queue[p]) PROVE Live(x)' <=> Live(x)
    BY <2>1, <2>2 DEF Live
  <2>3. queue'[p] = queue[p]
    BY <1>2, <2>1
  <2> QED
    BY <2>2, <2>3, WaitingSame
<1> QED
  BY <1>3, <1>4, <1>5 DEF NotStartedQueues

-----------------------------------------------------------------------------
(* The steps                                                               *)

Stutter == NotStartedQueues' = NotStartedQueues /\ Stack' = Stack

AbstractStep == [Abstract!Next]_<<NotStartedQueues, Stack>>

\* When nothing is queued above the priority of the newest, nothing is urgent.
LEMMA NothingUrgent ==
  ASSUME NEW r, IndInv(r), StackInv, Settled, pc \in {"app", "chained", "exit"}
  PROVE  /\ Abstract!Urgent = {} /\ Abstract!Newest.prio = currprio[Me]
         /\ Abstract!Newest = [exe |-> Me, prio |-> currprio[Me]]
<1>1. Stack[Len(Stack)] = [exe |-> Me, prio |-> currprio[Me]]
  <2>1. Placed(Depth + 1) = Me /\ OwnPrio(Me) = currprio[Me] /\ Me \in Exe
    BY NewestIs, QueueTypes
  <2>2. Depth + 1 \in 1 .. Depth + 1 /\ Len(Stack) = Depth + 1
    BY DEF StackInv
  <2> QED
    BY <2>1, <2>2 DEF StackInv
<1>2. ASSUME NEW p \in ExePrios, p > currprio[Me] PROVE NotStarted(p) = <<>>
  <2>1. queue[p] = <<>>
    BY <1>2 DEF Settled, EmptyAbove, ExePrios
  <2> QED
    BY <2>1 DEF NotStarted
<1>3. Abstract!Newest = Stack[Len(Stack)]
  BY DEF Abstract!Newest
<1>4. Abstract!Urgent = {p \in ExePrios : p > Abstract!Newest.prio /\ NotStarted(p) # <<>>}
  BY DEF Abstract!Urgent, ExePrios
<1>5. Abstract!Newest.prio = currprio[Me]
  BY <1>1, <1>3
<1> QED
  BY <1>1, <1>2, <1>3, <1>4, <1>5

LEMMA StepKept ==
  ASSUME Stutter
  PROVE  AbstractStep
BY DEF Stutter, AbstractStep

LEMMA StepArrive ==
  ASSUME NEW t \in Exe \ {Idle}, Stack' = Stack,
         NotStartedQueues' = [NotStartedQueues EXCEPT ![BasePrio[t]] = Append(@, t)]
  PROVE  AbstractStep
<1>1. Abstract!Arrive(t)
  BY DEF Abstract!Arrive, NotStartedQueues, ExePrios
<1> QED
  BY <1>1 DEF AbstractStep, Abstract!Next

LEMMA StepChange ==
  ASSUME NEW r, IndInv(r), StackInv, Settled, pc = "app", NEW n \in 0 .. MaxPrio - 1,
         n >= RunPrio[Me], Stack' = [Stack EXCEPT ![Len(Stack)].prio = n],
         NotStartedQueues' = NotStartedQueues
  PROVE  AbstractStep
<1>1. Abstract!Urgent = {} /\ Abstract!Newest.exe = Me
  BY NothingUrgent
<1>2. Abstract!Change(n)
  BY <1>1 DEF Abstract!Change, NotStartedQueues, ExePrios
<1> QED
  BY <1>2 DEF AbstractStep, Abstract!Next

LEMMA StepFinish ==
  ASSUME NEW r, IndInv(r), StackInv, Settled, pc = "exit", Len(Stack) > 1,
         Stack' = SubSeq(Stack, 1, Len(Stack) - 1), NotStartedQueues' = NotStartedQueues
  PROVE  AbstractStep
<1>1. Abstract!Urgent = {}
  BY NothingUrgent
<1>2. Abstract!Finish
  BY <1>1 DEF Abstract!Finish, NotStartedQueues, ExePrios
<1> QED
  BY <1>2 DEF AbstractStep, Abstract!Next

LEMMA StepBegin ==
  ASSUME NEW p \in Abstract!Urgent, \A q \in Abstract!Urgent : q <= p, p \in Int,
         NEW e, e = Head(NotStartedQueues[p]),
         Stack' = Append(Stack, [exe |-> e, prio |-> RunPrio[e]]),
         NotStartedQueues' = [NotStartedQueues EXCEPT ![p] = Tail(@)]
  PROVE  AbstractStep
<1>1. Abstract!Max(Abstract!Urgent) = p
  <2>1. \A q \in Abstract!Urgent : q \in Int
    BY DEF Abstract!Urgent, ExePrios
  <2>2. PICK S : S = Abstract!Urgent
    OBVIOUS
  <2>3. \A q \in S : (\A y \in S : q >= y) => q = p
    BY <2>1, <2>2
  <2>4. p \in S /\ \A y \in S : p >= y
    BY <2>1, <2>2
  <2>5. (CHOOSE x \in S : \A y \in S : x >= y) = p
    BY <2>3, <2>4
  <2> QED
    BY <2>2, <2>5 DEF Abstract!Max
<1>2. Abstract!Begin
  BY <1>1 DEF Abstract!Begin, NotStartedQueues, ExePrios
<1> QED
  BY <1>2 DEF AbstractStep, Abstract!Next

\* Frames that are kept stay, and a push leaves those below.
LEMMA PushStays ==
  ASSUME frames \in Seq(FrameType), NEW f \in FrameType, Depth <= Len(frames), Depth \in Nat,
         frames' = Append(frames, f)
  PROVE  \A i \in 1 .. Depth + 1 : FrameStays(i)
<1>1. \A i \in 1 .. Len(frames) : frames'[i] = frames[i]
  BY AppendFacts
<1>2. ASSUME NEW i \in 1 .. Depth + 1, i # 1 PROVE frames'[i - 1].e = frames[i - 1].e
  <2>1. i - 1 \in 1 .. Len(frames)
    BY <1>2
  <2> QED
    BY <1>1, <2>1
<1> QED
  BY <1>2 DEF FrameStays

\* A call of dv_runqueued() leaves the stack as it is.
LEMMA StackCalls ==
  ASSUME NEW r, IndInv(r), StackInv, StackInv', NEW f \in FrameType,
         pc \in {"app", "chained"},
         pc' = "sched" \/ (pc' \in {"irq", "raised"} /\ f.low = currprio[Me]),
         frames' = Append(frames, f), UNCHANGED currentexe, f.exe = Me,
         pc' = "sched" => UNCHANGED currprio,
         \A e \in Exe \ {Me} : currprio'[e] = currprio[e]
  PROVE  Stack' = Stack
<1>1. frames \in Seq(FrameType) /\ Len(frames) \in Nat /\ Depth = Len(frames)
  BY QueueTypes, NewestIs
<1>2. frames' \in Seq(FrameType) /\ Len(frames') = Len(frames) + 1 /\ frames'[Len(frames')] = f
  <2>1. /\ frames' \in Seq(FrameType) /\ Len(frames') = Len(frames) + 1
        /\ frames'[Len(frames) + 1] = f
    BY <1>1, AppendFacts
  <2> QED
    BY <2>1
<1>3. Depth' = Depth
  BY <1>1, <1>2 DEF Depth
<1>4. \A i \in 1 .. Depth + 1 : FrameStays(i)
  BY <1>1, PushStays
<1>5. Top'.low = f.low
  BY <1>2 DEF Top
<1>6. ASSUME NEW e \in Exe PROVE OwnPrio(e)' = OwnPrio(e)
  BY <1>5, <1>6 DEF OwnPrio, Me
<1>7. PriosStay(Exe)
  BY <1>6 DEF PriosStay
<1> QED
  BY <1>3, <1>4, <1>7, StackKept

\* Steps that change neither the frames nor the currprios.
LEMMA StackRests ==
  ASSUME StackInv, StackInv', UNCHANGED <<frames, currprio, currentexe>>,
         \/ pc' = pc
         \/ pc \in {"app", "chained", "exit"} /\ pc' \in {"app", "chained", "exit"}
  PROVE  Stack' = Stack
<1>1. Depth' = Depth
  BY DEF Depth
<1>2. \A i \in 1 .. Depth + 1 : FrameStays(i)
  BY DEF FrameStays
<1>3. PriosStay(Exe)
  BY DEF PriosStay, OwnPrio, Me, Top
<1> QED
  BY <1>1, <1>2, <1>3, StackKept

LEMMA FifoActivate ==
  ASSUME NEW r, IndInv(r), QueueInv, StackInv, StackInv', NEW t \in Exe \ {Idle}, NEW ret,
         Activate(t, ret), BasePrio[t] > 0,
         pc \in {"app", "raised", "irq"}, ret = pc \/ (pc = "app" /\ ret = "chained")
  PROVE  AbstractStep
<1>1. /\ queue' = Enqueue(queue, BasePrio[t], t)
      /\ UNCHANGED <<currprio, jb, currentexe>>
      /\ RunQueued(BasePrio[t], currprio[Me], ret)
  BY DEF Activate
<1>2. BasePrio[t] \in ExePrios
  BY QueueTypes DEF ExePrios
<1>3. NotStartedQueues' = [NotStartedQueues EXCEPT ![BasePrio[t]] = Append(@, t)]
  BY <1>1, <1>2, WaitingGrows
<1>4. Stack' = Stack
  <2>1. CASE BasePrio[t] > currprio[Me]
    <3> DEFINE f == Frame(BasePrio[t], currprio[Me], ret, FALSE)
    <3>1. pc = "app" /\ currprio[Me] \in 0 .. MaxPrio - 1 /\ BasePrio[t] \in 0 .. MaxPrio
      <4>1. currprio[Me] \in 0 .. MaxPrio + 1 /\ BasePrio[t] \in 0 .. MaxPrio - 1
        BY <1>2, QueueTypes DEF IndInv, TypeOK, ExePrios
      <4>2. pc \in {"irq", "raised"} => currprio[Me] >= MaxPrio
        BY DEF IndInv, FrameInv, Current
      <4> QED
        BY <2>1, <4>1, <4>2
    <3>2. frames' = Append(frames, f) /\ pc' = "sched"
      BY <1>1, <2>1 DEF RunQueued
    <3>3. f \in FrameType /\ f.exe = Me
      BY <3>1, QueueTypes DEF Frame, FrameType, Me
    <3> HIDE DEF f
    <3> QED
      BY <1>1, <3>1, <3>2, <3>3, StackCalls
  <2>2. CASE ~(BasePrio[t] > currprio[Me])
    <3>1. UNCHANGED frames /\ pc' = ret
      BY <1>1, <2>2 DEF RunQueued
    <3> QED
      BY <1>1, <3>1, StackRests
  <2> QED
    BY <2>1, <2>2
<1> QED
  BY <1>3, <1>4, StepArrive

LEMMA FifoTake ==
  ASSUME Disciplined, NEW r \in [Mutex -> Nat], IndInv(r), Urgent, QueueInv, StackInv, StackInv',
         NEW m \in Mutex, TakeMutex(m), panic' = "none"
  PROVE  AbstractStep
<1>1. pc = "app" /\ UNCHANGED <<jb, frames, pc, currentexe>> /\ Ceiling[m] >= BasePrio[Me]
  BY DEF TakeMutex, TakeAgain, TakeFree, Panic, exeVars, cpuVars
<1>2. CASE UNCHANGED <<queue, currprio>>
  <2>1. Stack' = Stack
    BY <1>1, <1>2, StackRests
  <2>2. NotStartedQueues' = NotStartedQueues
    BY <1>1, <1>2, WaitingKept
  <2> QED
    BY <2>1, <2>2, StepKept DEF Stutter
<1>3. CASE ~UNCHANGED <<queue, currprio>>
  <2>1. /\ currprio[Me] < Ceiling[m]
        /\ currprio' = [currprio EXCEPT ![Me] = Ceiling[m]]
        /\ queue' = Enqueue(queue, Ceiling[m], Me)
    BY <1>3 DEF TakeMutex, TakeAgain, TakeFree, Panic, exeVars
  <2>2. /\ Me \in Exe /\ Live(Me) /\ Ceiling[m] \in Prio /\ Ceiling[m] \in 0 .. MaxPrio - 1
        /\ Ceiling[m] \in Int /\ currprio \in [Exe -> 0 .. MaxPrio + 1]
    <3>1. Me \in Exe /\ Live(Me)
      BY <1>1, QueueTypes, CallersLive
    <3>2. currprio \in [Exe -> 0 .. MaxPrio + 1]
      BY DEF IndInv, TypeOK
    <3>3. Ceiling[m] \in 0 .. MaxPrio - 1
      OBVIOUS
    <3> QED
      BY <3>1, <3>2, <3>3
  <2>3. queue[Ceiling[m]] = <<>>
    BY <1>1, <2>1, <2>2 DEF Urgent, Settled, EmptyAbove
  <2>4. NotStartedQueues' = NotStartedQueues
    BY <1>1, <2>1, <2>2, <2>3, WaitingRaised
  <2>5. Stack' = [Stack EXCEPT ![Len(Stack)].prio = Ceiling[m]]
    <3>1. Depth' = Depth /\ \A i \in 1 .. Depth + 1 : FrameStays(i)
      BY <1>1 DEF Depth, FrameStays
    <3>2. \A e \in Exe : OwnPrio(e)' = IF e = Me THEN Ceiling[m] ELSE OwnPrio(e)
      BY <1>1, <2>1, <2>2 DEF OwnPrio
    <3>3. PriosStay(Exe \ {Me})
      BY <3>2 DEF PriosStay
    <3>4. Placed(Depth + 1) = Me /\ \A i \in 1 .. Depth : Placed(i) # Me
      BY <1>1, NewestIs, NewestOnce
    <3>5. \A e \in Exe : e = Me => OwnPrio(e)' = Ceiling[m]
      BY <3>2
    <3>6. PICK e \in Exe : e = Me
      BY <2>2
    <3>7. OwnPrio(e)' = Ceiling[m]
      BY <3>5, <3>6
    <3> QED
      BY <2>2, <3>1, <3>3, <3>4, <3>6, <3>7, StackChanged
  <2>6. Ceiling[m] >= RunPrio[Me]
    BY <1>1, <2>2 DEF Disciplined
  <2> QED
    BY <1>1, <2>2, <2>4, <2>5, <2>6, StepChange DEF Urgent
<1> QED
  BY <1>2, <1>3

LEMMA FifoDrop ==
  ASSUME Disciplined, NEW r \in [Mutex -> Nat], IndInv(r), Urgent, QueueInv, StackInv, StackInv',
         NEW m \in Mutex, DropMutex(m), panic' = "none"
  PROVE  AbstractStep
<1>1. /\ pc = "app" /\ UNCHANGED <<jb, currentexe>> /\ owner[m] = Me
      /\ Me \in Exe /\ Live(Me) /\ Ceiling[m] \in 0 .. MaxPrio - 1 /\ frames \in Seq(FrameType)
      /\ currprio \in [Exe -> 0 .. MaxPrio + 1] /\ saveprio[m] \in -1 .. MaxPrio - 1
      /\ BasePrio[Me] \in Nat
  <2>1. pc = "app" /\ UNCHANGED <<jb, currentexe>> /\ owner[m] = Me
    BY DEF DropMutex, DropOnce, DropLast, Panic, exeVars, cpuVars
  <2>2. Me \in Exe /\ Live(Me) /\ Ceiling[m] \in 0 .. MaxPrio - 1 /\ frames \in Seq(FrameType)
    BY <2>1, QueueTypes, CallersLive
  <2>3. currprio \in [Exe -> 0 .. MaxPrio + 1] /\ saveprio[m] \in -1 .. MaxPrio - 1
    BY DEF IndInv, TypeOK
  <2>4. BasePrio[Me] \in Nat
    BY <2>2
  <2> QED
    BY <2>1, <2>2, <2>3, <2>4
<1>2. /\ saveprio[m] >= RunPrio[Me] /\ RunPrio[Me] = BasePrio[Me]
      /\ saveprio[m] \in 0 .. MaxPrio - 1
  <2>1. saveprio[m] >= RunPrio[Me] /\ RunPrio[Me] = BasePrio[Me]
    <3>1. Me # None
      BY <1>1
    <3> QED
      BY <1>1, <3>1 DEF IndInv, ListInv, ListPrios, Disciplined
  <2> QED
    BY <1>1, <2>1
<1>3. CASE DropLast(m) /\ saveprio[m] < Ceiling[m]
  <2> DEFINE f == Frame(Ceiling[m], saveprio[m], "app", FALSE)
  <2>1. /\ IsHead(queue, Ceiling[m], Me) /\ queue' = Dequeue(queue, Ceiling[m])
        /\ frames' = Append(frames, f) /\ pc' = "sched"
        /\ currprio' = [currprio EXCEPT ![Me] = saveprio[m]]
    BY <1>3 DEF DropLast, Panic, RunQueued
  <2>2. BasePrio[Me] # Ceiling[m] /\ Ceiling[m] \in Prio
    BY <1>1, <1>2, <1>3
  <2>3. NotStartedQueues' = NotStartedQueues
    BY <1>1, <2>1, <2>2, WaitingLowered
  <2>4. f \in FrameType
    BY <1>1, <1>2 DEF FrameType, Frame, Me
  <2> HIDE DEF f
  <2>5. Stack' = [Stack EXCEPT ![Len(Stack)].prio = saveprio[m]]
    <3>1. Depth = Len(frames) /\ Placed(Depth + 1) = Me /\ Len(frames) \in Nat
      BY <1>1, NewestIs
    <3>2. Depth' = Depth
      <4>1. Len(frames') = Len(frames) + 1
        BY <1>1, <2>1, <2>4, AppendFacts
      <4> QED
        BY <2>1, <3>1, <4>1 DEF Depth
    <3>3. \A i \in 1 .. Depth + 1 : FrameStays(i)
      BY <1>1, <2>1, <2>4, <3>1, PushStays
    <3>4. \A e \in Exe : OwnPrio(e)' = IF e = Me THEN saveprio[m] ELSE OwnPrio(e)
      BY <1>1, <2>1 DEF OwnPrio
    <3>5. PriosStay(Exe \ {Me})
      BY <3>4 DEF PriosStay
    <3>6. \A i \in 1 .. Depth : Placed(i) # Me
      BY <1>1, NewestOnce
    <3>7. PICK e \in Exe : e = Me
      BY <1>1
    <3>8. OwnPrio(e)' = saveprio[m]
      BY <3>4, <3>7
    <3>9. saveprio[m] \in Int
      BY <1>2
    <3> QED
      BY <3>1, <3>2, <3>3, <3>5, <3>6, <3>7, <3>8, <3>9, StackChanged
  <2> QED
    BY <1>1, <1>2, <2>3, <2>5, StepChange DEF Urgent
<1>4. CASE ~(DropLast(m) /\ saveprio[m] < Ceiling[m])
  <2>1. UNCHANGED <<queue, frames, pc>>
    BY <1>4 DEF DropMutex, DropOnce, DropLast, Panic, cpuVars
  <2>2. UNCHANGED currprio
    <3>1. CASE DropOnce(m)
      BY <3>1 DEF DropOnce, exeVars
    <3>2. CASE DropLast(m)
      <4>1. mutexlist[Me] = m
        BY <3>2, Rules DEF DropLast, Lifo
      <4>2. currprio' = [currprio EXCEPT ![Me] = saveprio[m]]
        BY <3>2 DEF DropLast, Panic
      <4>3. currprio[Me] = saveprio[m]
        <5>1. TakenPrio(m) = saveprio[m]
          BY <1>4, <3>2 DEF TakenPrio
        <5>2. m # None
          OBVIOUS
        <5>3. OwnPrio(Me) = TakenPrio(mutexlist[Me])
          BY <1>1, <4>1, <5>2 DEF IndInv, Prios
        <5> QED
          BY <1>1, <4>1, <5>1, <5>3 DEF OwnPrio
      <4> QED
        BY <1>1, <4>2, <4>3
    <3> QED
      BY <3>1, <3>2 DEF DropMutex
  <2>3. Stack' = Stack
    BY <1>1, <2>1, <2>2, StackRests
  <2>4. NotStartedQueues' = NotStartedQueues
    BY <1>1, <2>1, WaitingKept
  <2> QED
    BY <2>3, <2>4, StepKept DEF Stutter
<1> QED
  BY <1>3, <1>4

LEMMA FifoDispatch ==
  ASSUME Disciplined, NEW r \in [Mutex -> Nat], IndInv(r), Urgent, StackInv, StackInv',
         Dispatch, panic' = "none"
  PROVE  AbstractStep
<1>1. pc = "sched" /\ Waiting # {} /\ frames # <<>>
  BY DEF Dispatch, IndInv, FrameInv, Current
<1>2. PICK p \in Waiting : p = Max(Waiting)
  BY <1>1, WaitingMax
<1>3. PICK e : e = Head(queue[p])
  OBVIOUS
<1>4. /\ e \in Exe /\ BasePrio[e] = p /\ RunPrio[e] = p /\ p \in ExePrios /\ p > Top.low
      /\ ~Live(e) /\ queue[p] # <<>> /\ p \in Int
  <2>1. /\ p \in 1 .. MaxPrio - 1 /\ e \in Exe /\ BasePrio[e] = p /\ ~Live(e) /\ p > Top.low
    BY <1>1, <1>3, StartedFresh
  <2>2. queue[p] # <<>>
    BY DEF Waiting
  <2> QED
    BY <2>1, <2>2 DEF Disciplined, ExePrios
<1>5. /\ UNCHANGED queue /\ pc' = "app"
      /\ jb' = [jb EXCEPT ![e] = Len(frames)]
      /\ frames' = [frames EXCEPT ![Len(frames)].p = p, ![Len(frames)].e = e,
                                  ![Len(frames)].eprio = RunPrio[e]]
      /\ currprio' = [currprio EXCEPT ![e] = RunPrio[e]]
  <2>1. Start(p, e)
    BY <1>2, <1>3 DEF Dispatch, Panic
  <2>2. ~(BasePrio[e] < RunPrio[e])
    BY <1>4
  <2>3. QueueStarted(e) = queue
    BY <2>2 DEF QueueStarted
  <2> QED
    BY <2>1, <2>2, <2>3 DEF Start, mutexVars
<1>6. /\ frames \in Seq(FrameType) /\ Len(frames) \in Nat \ {0} /\ Top = frames[Len(frames)]
      /\ jb \in [Exe -> Nat] /\ currprio \in [Exe -> 0 .. MaxPrio + 1]
      /\ Top.p \in 0 .. MaxPrio /\ Top.low \in 0 .. MaxPrio - 1
  <2>1. frames \in Seq(FrameType) /\ jb \in [Exe -> Nat] /\ currprio \in [Exe -> 0 .. MaxPrio + 1]
    BY QueueTypes DEF IndInv, TypeOK
  <2>2. Len(frames) \in Nat \ {0} /\ Top = frames[Len(frames)] /\ Top \in FrameType
    BY <1>1, TopType DEF IndInv
  <2> QED
    BY <2>1, <2>2 DEF FrameType
<1>7. /\ NotStartedQueues[p] = queue[p]
      /\ NotStartedQueues' = [NotStartedQueues EXCEPT ![p] = Tail(@)]
  BY <1>3, <1>4, <1>5, <1>6, WaitingStarted
<1>8. Depth = Len(frames) - 1 /\ Placed(Depth + 1) = Top.exe /\ OwnPrio(Top.exe) = Top.low
  BY <1>1, NewestIs
<1>9. Stack' = Append(Stack, [exe |-> e, prio |-> RunPrio[e]])
  <2>1. /\ Len(frames') = Len(frames) /\ frames'[Len(frames)].e = e
        /\ \A i \in 1 .. Len(frames) - 1 : frames'[i] = frames[i]
    <3>1. PICK n \in 1 .. Len(frames) : n = Len(frames)
      BY <1>6
    <3> DEFINE g == [frames[n] EXCEPT !.p = p, !.e = e, !.eprio = RunPrio[e]]
    <3>2. frames' = [frames EXCEPT ![n] = g]
      BY <1>5, <1>6, <3>1
    <3>3. frames[n] \in FrameType /\ p \in 0 .. MaxPrio /\ RunPrio[e] \in 0 .. MaxPrio - 1
      BY <1>4, <1>6 DEF ExePrios
    <3>4. g \in FrameType /\ g.e = e
      BY <1>4, <3>3 DEF FrameType
    <3> HIDE DEF g
    <3>5. /\ Len(frames') = Len(frames)
          /\ \A j \in 1 .. Len(frames) : frames'[j] = IF j = n THEN g ELSE frames[j]
      BY <1>6, <3>2, <3>4, ExceptSeq
    <3>6. \A i \in 1 .. Len(frames) - 1 : i \in 1 .. Len(frames) /\ i # n
      BY <1>6, <3>1
    <3>7. \A i \in 1 .. Len(frames) - 1 : frames'[i] = frames[i]
      BY <3>5, <3>6
    <3>8. frames'[n] = g
      BY <3>5
    <3> QED
      BY <3>1, <3>4, <3>5, <3>7, <3>8
  <2>2. Depth' = Depth + 1 /\ frames'[Depth + 1].e = e
    <3>1. Depth + 1 = Len(frames)
      BY <1>6, <1>8
    <3>2. Depth' = Len(frames')
      BY <1>5 DEF Depth
    <3> QED
      BY <2>1, <3>1, <3>2
  <2>3. ASSUME NEW i \in 1 .. Depth + 1 PROVE FrameStays(i)
    <3>1. i # 1 => i - 1 \in 1 .. Len(frames) - 1
      BY <1>6, <1>8
    <3> QED
      BY <2>1, <3>1 DEF FrameStays
  <2>4. \A x \in Exe : OwnPrio(x)' = IF x = e THEN RunPrio[e] ELSE OwnPrio(x)
    BY <1>1, <1>5, <1>6 DEF OwnPrio
  <2>5. PriosStay(Exe)
    BY <1>4, <2>4 DEF PriosStay
  <2>6. OwnPrio(e)' = RunPrio[e] /\ RunPrio[e] \in Int
    BY <1>4, <2>4
  <2> QED
    BY <1>4, <2>2, <2>3, <2>5, <2>6, StackPushed
<1>10. Abstract!Newest.prio = Top.low
  <2>1. Top.exe \in Exe
    BY <1>1, <1>6, CallersLive
  <2>2. Depth + 1 \in 1 .. Depth + 1 /\ Len(Stack) = Depth + 1
    BY DEF StackInv
  <2>3. PICK x \in Exe : x = Top.exe
    BY <2>1
  <2>4. Stack[Depth + 1] = [exe |-> x, prio |-> OwnPrio(x)]
    BY <1>8, <2>2, <2>3 DEF StackInv
  <2> QED
    BY <1>8, <2>2, <2>3, <2>4 DEF Abstract!Newest
<1>11. Abstract!Urgent = {q \in ExePrios : q > Top.low /\ NotStarted(q) # <<>>}
  BY <1>10 DEF Abstract!Urgent, ExePrios
<1>12. p \in Abstract!Urgent
  <2>1. NotStarted(p) = queue[p]
    BY <1>4, <1>7 DEF NotStartedQueues
  <2> QED
    BY <1>4, <1>11, <2>1
<1>13. ASSUME NEW q \in Abstract!Urgent PROVE q <= p
  <2>1. q \in ExePrios /\ q > Top.low /\ NotStarted(q) # <<>>
    BY <1>11
  <2>2. queue[q] # <<>>
    BY <2>1 DEF NotStarted
  <2>3. q \in Prio /\ q \in Int
    BY <2>1 DEF ExePrios
  <2>4. ~(q > IF Top.p > Top.low THEN Top.p ELSE Top.low)
    BY <1>1, <2>2, <2>3 DEF Urgent, Settled, EmptyAbove
  <2>5. q \in Top.low + 1 .. Top.p
    BY <1>6, <2>1, <2>3, <2>4
  <2>6. q \in Waiting
    BY <2>2, <2>5 DEF Waiting
  <2> QED
    BY <1>1, <1>2, <2>6, WaitingMax
<1> QED
  BY <1>3, <1>4, <1>7, <1>9, <1>12, <1>13, StepBegin

LEMMA FifoReturn ==
  ASSUME NEW r, IndInv(r), StackInv, StackInv', Return
  PROVE  AbstractStep
<1>1. /\ pc = "sched" /\ frames' = SubSeq(frames, 1, Len(frames) - 1) /\ frames # <<>>
      /\ UNCHANGED <<queue, currprio, jb>> /\ pc' = Top.ret
  BY DEF Return, IndInv, FrameInv, Current
<1>2. frames \in Seq(FrameType) /\ Len(frames) \in Nat \ {0} /\ pc' \in {"app", "chained"}
  <2>1. Len(frames) \in Nat \ {0} /\ Top \in FrameType
    BY <1>1, TopType DEF IndInv
  <2> QED
    BY <1>1, <2>1, QueueTypes DEF FrameType
<1>3. PICK n \in Nat : n = Len(frames) - 1
  <2>1. Len(frames) - 1 \in Nat
    BY <1>2
  <2> QED
    BY <2>1
<1>4. Len(frames') = n /\ \A i \in 1 .. n : frames'[i] = frames[i]
  <2>1. n <= Len(frames)
    BY <1>2, <1>3
  <2> QED
    BY <1>1, <1>2, <1>3, <2>1, SubSeqFacts
<1>5. Depth = n /\ Depth' = n
  BY <1>1, <1>2, <1>3, <1>4 DEF Depth
<1>6. ASSUME NEW i \in 1 .. Depth + 1 PROVE FrameStays(i)
  <2>1. i # 1 => i - 1 \in 1 .. n
    BY <1>5
  <2> QED
    BY <1>4, <2>1 DEF FrameStays
<1>7. PriosStay(Exe)
  BY <1>1, <1>2 DEF PriosStay, OwnPrio
<1>8. Stack' = Stack
  BY <1>5, <1>6, <1>7, StackKept
<1>9. NotStartedQueues' = NotStartedQueues
  BY <1>1, WaitingKept
<1> QED
  BY <1>8, <1>9, StepKept DEF Stutter

LEMMA FifoFinish ==
  ASSUME Disciplined, NEW r \in [Mutex -> Nat], IndInv(r), Urgent, QueueInv, StackInv, StackInv',
         FinishExit, panic' = "none"
  PROVE  AbstractStep
<1>1. pc = "exit" /\ mutexlist[Top.e] = None
  BY DEF FinishExit
<1>2. /\ Top.e = Me /\ Me \in Exe /\ AfterRunPrio(Me) = queue /\ Live(Me) /\ frames # <<>>
      /\ IsHead(queue, BasePrio[Me], Me)
  BY <1>1, EndsInPlace
<1>3. /\ queue' = Dequeue(queue, BasePrio[Me]) /\ pc' = "sched"
      /\ currprio' = [currprio EXCEPT ![Me] = BasePrio[Me]]
      /\ jb' = [jb EXCEPT ![Me] = 0] /\ UNCHANGED <<currentexe, frames>>
  BY <1>2 DEF FinishExit, Panic
<1>4. Me # Idle /\ Len(frames) \in Nat \ {0} /\ Depth = Len(frames)
  BY <1>1, <1>2, MeOnTop, TopType, NewestIs DEF IndInv
<1>5. BasePrio[Me] \in ExePrios
  BY <1>2, <1>4 DEF ExePrios
<1>6. jb \in [Exe -> Nat] /\ currprio \in [Exe -> 0 .. MaxPrio + 1] /\ queue \in [Prio -> Seq(Exe)]
  BY QueueTypes DEF IndInv, TypeOK
<1>7. ASSUME NEW p \in Prio \ {BasePrio[Me]}, queue[p] # <<>> PROVE Head(queue[p]) # Me
  <2>1. PICK q \in Seq(Exe) : q = queue[p]
    BY <1>6
  <2>2. 1 \in 1 .. Len(q) /\ Head(q) = q[1]
    BY <1>7, <2>1
  <2>3. BasePrio[q[1]] # p => Reason(q[1], p)
    BY <2>1, <2>2 DEF IndInv, Entries
  <2>4. ~Reason(Me, p)
    <3>1. \A m \in Mutex : owner[m] # Me
      BY <1>1, <1>2 DEF IndInv, ListInv, ListHead
    <3>2. p # RunPrio[Me]
      BY <1>2 DEF Disciplined
    <3> QED
      BY <1>1, <3>1, <3>2 DEF Reason
  <2> QED
    BY <2>1, <2>2, <2>3, <2>4
<1>8. NotStartedQueues' = NotStartedQueues
  <2>1. PICK e \in Exe : e = Me
    BY <1>2
  <2>2. /\ queue' = Dequeue(queue, BasePrio[e]) /\ jb' = [jb EXCEPT ![e] = 0]
        /\ IsHead(queue, BasePrio[e], e) /\ Live(e) /\ e # Idle /\ BasePrio[e] \in ExePrios
        /\ \A p \in Prio \ {BasePrio[e]} : queue[p] # <<>> => Head(queue[p]) # e
    BY <1>2, <1>3, <1>4, <1>5, <1>7, <2>1
  <2> QED
    BY <1>6, <2>2, WaitingEnded
<1>9. Stack' = SubSeq(Stack, 1, Len(Stack) - 1) /\ Len(Stack) > 1
  <2>1. Depth' = Depth - 1 /\ Depth > 0
    BY <1>3, <1>4 DEF Depth
  <2>2. \A i \in 1 .. Depth : FrameStays(i)
    BY <1>3 DEF FrameStays
  <2>3. PriosStay(Exe \ {Me})
    BY <1>1, <1>3, <1>6 DEF PriosStay, OwnPrio
  <2>4. \A i \in 1 .. Depth : Placed(i) # Me
    BY <1>1, NewestOnce
  <2>5. PICK e \in Exe : e = Me
    BY <1>2
  <2>6. PriosStay(Exe \ {e})
    BY <2>3, <2>5
  <2>7. Len(Stack) > 1
    BY <1>4 DEF StackInv
  <2> QED
    BY <2>1, <2>2, <2>4, <2>5, <2>6, <2>7, StackPopped
<1> QED
  BY <1>1, <1>8, <1>9, StepFinish DEF Urgent

\* The kernel moves the priority of the running executable out of the way.
LEMMA FifoPush ==
  ASSUME NEW r \in [Mutex -> Nat], IndInv(r), StackInv, StackInv', CatchIrq \/ RaisePrio, panic' = "none"
  PROVE  AbstractStep
<1>1. PICK f : /\ pc \in {"app", "chained"} /\ pc' \in {"irq", "raised"}
               /\ UNCHANGED <<jb, currentexe>>
               /\ \A e \in Exe \ {Me} : currprio'[e] = currprio[e]
               /\ frames' = Append(frames, f)
               /\ \E p \in {MaxPrio, MaxPrio - 1}, b \in BOOLEAN, ret \in {"app", "chained"} :
                    f = Frame(p, currprio[Me], ret, b)
  <2>1. currprio \in [Exe -> 0 .. MaxPrio + 1]
    BY DEF IndInv, TypeOK
  <2>2. CASE CatchIrq
    <3>1. /\ pc \in {"app", "chained"} /\ pc' \in {"irq", "raised"}
          /\ UNCHANGED <<jb, currentexe>>
          /\ frames' = Append(frames, Frame(MaxPrio, currprio[Me], pc, TRUE))
      BY <2>2 DEF CatchIrq
    <3>2. \A e \in Exe \ {Me} : currprio'[e] = currprio[e]
      BY <2>1, <2>2 DEF CatchIrq
    <3> QED
      BY <3>1, <3>2
  <2>3. CASE RaisePrio
    <3>1. /\ pc \in {"app", "chained"} /\ pc' \in {"irq", "raised"}
          /\ UNCHANGED <<jb, currentexe>>
          /\ frames' = Append(frames, Frame(MaxPrio - 1, currprio[Me], "app", FALSE))
      BY <2>3 DEF RaisePrio, Panic
    <3>2. \A e \in Exe \ {Me} : currprio'[e] = currprio[e]
      BY <2>1, <2>3 DEF RaisePrio, Panic
    <3> QED
      BY <3>1, <3>2
  <2> QED
    BY <2>2, <2>3
<1>2. Me \in Exe /\ currprio[Me] \in 0 .. MaxPrio - 1
  <2>1. Me \in Exe /\ Live(Me) /\ OwnPrio(Me) = currprio[Me]
    BY <1>1, QueueTypes, CallersLive DEF OwnPrio
  <2>2. OwnPrio(Me) \in RunPrio[Me] .. MaxPrio - 1 /\ RunPrio[Me] \in 0 .. MaxPrio - 1
    BY <2>1, OwnPrioBounds
  <2> QED
    BY <2>1, <2>2
<1>3. f \in FrameType /\ f.exe = Me /\ f.low = currprio[Me]
  BY <1>1, <1>2 DEF Frame, FrameType, Me
<1>4. Stack' = Stack
  BY <1>1, <1>3, StackCalls
<1>5. \A p \in ExePrios : queue'[p] = queue[p]
  <2>1. queue' = queue \/ queue' = Enqueue(queue, MaxPrio, Me)
    BY DEF CatchIrq, RaisePrio, Panic
  <2>2. MaxPrio \notin ExePrios /\ ExePrios \subseteq Prio
    BY DEF ExePrios
  <2> QED
    BY <2>1, <2>2, QueueTypes DEF Enqueue
<1>6. NotStartedQueues' = NotStartedQueues
  BY <1>1, <1>5, WaitingKept
<1> QED
  BY <1>4, <1>6, StepKept DEF Stutter

\* ... and back.
LEMMA FifoPop ==
  ASSUME NEW r, IndInv(r), StackInv, StackInv', IrqDone \/ LowerPrio, panic' = "none"
  PROVE  AbstractStep
<1>1. /\ pc \in {"irq", "raised"} /\ pc' = "sched" /\ UNCHANGED <<jb, frames, currentexe>>
      /\ currprio' = [currprio EXCEPT ![Me] = Top.low]
  BY DEF IrqDone, LowerPrio, Panic
<1>2. currprio \in [Exe -> 0 .. MaxPrio + 1]
  BY DEF IndInv, TypeOK
<1>3. Depth' = Depth /\ \A i \in 1 .. Depth + 1 : FrameStays(i)
  BY <1>1 DEF Depth, FrameStays
<1>4. PriosStay(Exe)
  BY <1>1, <1>2 DEF PriosStay, OwnPrio
<1>5. Stack' = Stack
  BY <1>3, <1>4, StackKept
<1>6. \A p \in ExePrios : queue'[p] = queue[p]
  <2>1. queue' = queue \/ queue' = Dequeue(queue, MaxPrio)
    BY DEF IrqDone, LowerPrio, Panic
  <2>2. MaxPrio \notin ExePrios /\ ExePrios \subseteq Prio
    BY DEF ExePrios
  <2> QED
    BY <2>1, <2>2, QueueTypes DEF Dequeue
<1>7. NotStartedQueues' = NotStartedQueues
  BY <1>1, <1>6, WaitingKept
<1> QED
  BY <1>5, <1>7, StepKept DEF Stutter

\* An executable is about to end.
LEMMA FifoEnd ==
  ASSUME NEW r, IndInv(r), StackInv, StackInv', TerminateTask \/ ReturnFromMain \/ ChainExit,
         panic' = "none"
  PROVE  AbstractStep
<1>1. /\ UNCHANGED <<queue, currprio, jb, currentexe>> /\ pc \in {"app", "chained"} /\ pc' = "exit"
      /\ frames' = frames \/ LongjmpToExit
  BY DEF TerminateTask, ReturnFromMain, ChainExit, LongjmpToExit, Panic, exeVars
<1>2. frames' = frames
  <2>1. CASE jb[Me] # 0
    BY <1>1, <2>1, LongjmpKeeps
  <2>2. CASE jb[Me] = 0
    <3>1. pc = "chained" => Me # Idle
      BY DEF IndInv, FrameInv, Current
    <3>2. Live(Me)
      BY <1>1, CallersLive
    <3>3. ~TerminateTask /\ ~ChainExit
      BY <2>2, <3>1, <3>2 DEF TerminateTask, ChainExit, Panic, Live
    <3> QED
      BY <3>3 DEF ReturnFromMain
  <2> QED
    BY <2>1, <2>2
<1>3. Stack' = Stack
  BY <1>1, <1>2, StackRests
<1>4. NotStartedQueues' = NotStartedQueues
  BY <1>1, WaitingKept
<1> QED
  BY <1>3, <1>4, StepKept DEF Stutter

LEMMA FifoNext ==
  ASSUME Disciplined, NEW r \in [Mutex -> Nat], IndInv(r), Urgent, QueueInv, StackInv, StackInv',
         Next, panic' = "none", panic = "none"
  PROVE  AbstractStep
<1>0. \A t \in Task \union Isr : t \in Exe \ {Idle} /\ BasePrio[t] > 0
  OBVIOUS
<1>1. ASSUME NEW t \in Task, ActivateTask(t) \/ ChainTask(t) PROVE AbstractStep
  <2>1. \/ pc \in {"app", "raised"} /\ Activate(t, pc)
        \/ pc = "app" /\ Activate(t, "chained")
    BY <1>1 DEF ActivateTask, ChainTask, Panic
  <2>2. t \in Exe \ {Idle} /\ BasePrio[t] > 0
    BY <1>0
  <2> QED
    BY <2>1, <2>2, FifoActivate
<1>2. ASSUME NEW i \in Isr, VectorIrq(i) PROVE AbstractStep
  <2>1. CASE CanActivate(i)
    <3>1. Activate(i, "irq") /\ pc = "irq"
      BY <1>2, <2>1 DEF VectorIrq, Panic
    <3>2. i \in Exe \ {Idle} /\ BasePrio[i] > 0
      BY <1>0
    <3> QED
      BY <3>1, <3>2, FifoActivate
  <2>2. CASE ~CanActivate(i)
    <3>1. UNCHANGED <<queue, currprio, jb, currentexe, frames, pc>>
      BY <1>2, <2>2 DEF VectorIrq, exeVars
    <3>2. Stack' = Stack
      BY <3>1, StackRests
    <3>3. NotStartedQueues' = NotStartedQueues
      BY <3>1, WaitingKept
    <3> QED
      BY <3>2, <3>3, StepKept DEF Stutter
  <2> QED
    BY <2>1, <2>2
<1>3. ~ReleaseMutex
  BY NothingReleased DEF Urgent
<1> QED
  BY <1>1, <1>2, <1>3, FifoTake, FifoDrop, FifoDispatch, FifoReturn, FifoFinish, FifoPush, FifoPop,
     FifoEnd DEF Next, Call, End, Kernel

\* Every step of the kernel is a step of the abstract scheduler or leaves it as it is.
THEOREM RefinesPriorityFifo ==
  ASSUME Disciplined
  PROVE  Spec => ImplementsPriorityFifo
<1>1. Init => NotStartedQueues = [p \in 1 .. MaxPrio - 1 |-> <<>>]
  <2> SUFFICES ASSUME Init PROVE NotStartedQueues = [p \in 1 .. MaxPrio - 1 |-> <<>>]
    OBVIOUS
  <2>1. \A p \in ExePrios : queue[p] = <<>>
    BY DEF Init, ExePrios
  <2>2. \A p \in ExePrios : NotStarted(p) = <<>>
    BY <2>1 DEF NotStarted
  <2> QED
    BY <2>2 DEF NotStartedQueues, ExePrios
<1>2. Init => Stack = <<[exe |-> Idle, prio |-> RunPrio[Idle]]>>
  <2> SUFFICES ASSUME Init PROVE Stack = <<[exe |-> Idle, prio |-> RunPrio[Idle]]>>
    OBVIOUS
  <2>1. Depth = 0
    BY DEF Init, Depth
  <2>2. OwnPrio(Idle) = 0
    BY DEF Init, OwnPrio, Me, Top
  <2>3. OnStack(Idle) = [exe |-> Idle, prio |-> RunPrio[Idle]]
    BY <2>2 DEF OnStack
  <2>4. Stack = [i \in 1 .. 1 |-> OnStack(Idle)]
    BY <2>1 DEF Stack
  <2> QED
    BY <2>3, <2>4
<1>3. Init => Abstract!Init
  BY <1>1, <1>2 DEF Abstract!Init, NotStartedQueues, ExePrios
<1>4. QueuesInv => StackInv
  BY StackShape DEF QueuesInv, Inv
<1>5. QueuesInv /\ QueuesInv' /\ StackInv /\ StackInv' /\ [Next]_vars => AbstractStep
  <2> SUFFICES ASSUME StackInv, StackInv', Urgent, QueueInv, panic = "none", panic' = "none",
                      [Next]_vars, NEW r \in [Mutex -> Nat], IndInv(r)
               PROVE  AbstractStep
    BY DEF QueuesInv, Inv
  <2>1. CASE Next
    BY <2>1, FifoNext
  <2>2. CASE UNCHANGED vars
    <3>1. UNCHANGED <<queue, currprio, jb, currentexe, frames, pc>>
      BY <2>2 DEF vars, exeVars, cpuVars
    <3>2. Stack' = Stack
      BY <3>1, StackRests
    <3>3. NotStartedQueues' = NotStartedQueues
      BY <3>1, WaitingKept
    <3> QED
      BY <3>2, <3>3, StepKept DEF Stutter
  <2> QED
    BY <2>1, <2>2
<1>6. AbstractStep => [Abstract!Next]_<<[p \in 1 .. MaxPrio - 1 |-> NotStarted(p)], Stack>>
  BY DEF AbstractStep, NotStartedQueues, ExePrios
<1> QED
  BY <1>3, <1>4, <1>5, <1>6, QueuesInductive, PTL DEF Spec, ImplementsPriorityFifo, Abstract!Spec
=============================================================================
