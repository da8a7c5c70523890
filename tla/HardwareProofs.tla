-------------------------- MODULE HardwareProofs ---------------------------
(***************************************************************************)
(* Theorems of IrqLock, for every number of sources, every assignment of   *)
(* levels to them and every set of lock levels that the controllers have;  *)
(* of Clocks, for every period, every width of the counter from two        *)
(* periods on, and any number of readers; and of CortexM, for every number *)
(* of tasks, ISRs and mutexes, every assignment of priorities, both        *)
(* machines and any depth of nesting.                                      *)
(***************************************************************************)
EXTENDS IrqLock, Clocks, CortexM, FiniteSetTheorems, SequenceTheorems, WellFoundedInduction, TLAPS

\* Of its three lock levels above 0 the RP2040 is used with two: at the third its driver
\* and its tables do not go together.
TwoLevels == Levels["nvic6"] \subseteq 0 .. 2

-----------------------------------------------------------------------------
(* The inductive invariant: the driver's tables and the hardware's         *)
(* registers say the same                                                  *)

Common ==
  /\ kind \in Controllers /\ lock \in Nat
  /\ conf \in [Irq -> Nat] /\ level \in [Irq -> Int] /\ prio \in [Irq -> Int]
  /\ masks \in [0 .. 8 -> SUBSET Irq]
  /\ enabled \subseteq Irq /\ on \subseteq Irq /\ gate \subseteq on

\* Nothing is enabled before the system runs.
Quiet == ~started => lock = LockAll /\ gate = {} /\ enabled = {} /\ on = {}

\* The mask of a lock level has the sources of that level and above; open is what is
\* enabled and in the mask.
Tables2835 ==
  kind = "bcm2835" =>
    /\ lock \in 0 .. 8 /\ enabled = on
    /\ \A i \in Irq : level[i] = IF conf[i] = 0 THEN -1 ELSE conf[i]
    /\ \A i \in Irq : \A k \in 0 .. 8 : i \in masks[k] <=> k <= level[i]
    /\ gate = {i \in enabled : lock <= level[i]}

\* BASEPRI and the priorities count downwards, both from the same number.
RegistersNvic7 ==
  kind = "nvic7" =>
    /\ lock \in 0 .. 15 /\ gate = on /\ threshold = BasepriOf(lock)
    /\ \A i \in Irq : conf[i] > 0 => prio[i] = 16 - conf[i]

\* With two levels every configured source is in the masks of all lock levels.
TablesNvic6 ==
  kind = "nvic6" =>
    /\ enabled = on /\ lock \in 0 .. 2
    /\ \A i \in Irq : conf[i] > 0 => \A k \in 0 .. 2 : i \in masks[k]
    /\ masks[0] = Irq
    /\ \A i \in on : conf[i] > 0 => i \in gate

GateInv == Common /\ Quiet /\ Tables2835 /\ RegistersNvic7 /\ TablesNvic6

-----------------------------------------------------------------------------
(* Facts about the constants                                               *)

\* The sources of the BCM2836 are none of those that have levels.
LEMMA LocalApart == Irq \cap Local = {}
<1>1. Cardinality(Irq) \in Nat
  BY IrqLockAssumption, FS_CardinalityType
<1>2. Cardinality(Local) \in Nat
  BY IrqLockAssumption, FS_CardinalityType
<1>3. \A i \in Irq : i \in Int /\ i <= Cardinality(Irq) - 1
  BY <1>1, IrqLockAssumption
<1>4. \A i \in Local : i \in Int /\ i >= Cardinality(Irq)
  BY <1>1, <1>2, IrqLockAssumption
<1> QED
  BY <1>1, <1>3, <1>4

\* The levels that the kernel uses
LEMMA LevelRange ==
  ASSUME TwoLevels, kind \in Controllers, NEW l \in Levels[kind]
  PROVE  /\ l \in Nat
         /\ kind = "bcm2835" => l \in 0 .. 7
         /\ kind = "nvic7" => l \in 0 .. 15
         /\ kind = "nvic6" => l \in 0 .. 2
BY IrqLockAssumption DEF TwoLevels

-----------------------------------------------------------------------------
(* The steps                                                               *)

LEMMA GateInit == Init => GateInv
<1> SUFFICES ASSUME Init PROVE GateInv
  OBVIOUS
<1> USE DEF Init, LockAll
<1>1. Common
  BY DEF Common
<1>2. Quiet
  BY DEF Quiet
<1>3. Tables2835
  BY DEF Tables2835
<1>4. RegistersNvic7
  BY DEF RegistersNvic7
<1>5. TablesNvic6
  BY DEF TablesNvic6
<1> QED
  BY <1>1, <1>2, <1>3, <1>4, <1>5 DEF GateInv

LEMMA ConfigKeeps ==
  ASSUME TwoLevels, GateInv, NEW i \in Irq, NEW l \in Levels[kind], Config(i, l)
  PROVE  GateInv'
<1> DEFINE c == Least(l, MaxLevel)
<1>1. /\ Common /\ Quiet /\ Tables2835 /\ RegistersNvic7 /\ TablesNvic6
      /\ kind \in Controllers
  BY DEF GateInv, Common
<1>2. /\ ~started /\ conf[i] = 0 /\ l > 0 /\ conf' = [conf EXCEPT ![i] = c]
      /\ UNCHANGED <<kind, lock, enabled, gate, threshold, started, on>>
  BY DEF Config
<1>3. /\ c \in Nat /\ c > 0
      /\ kind = "bcm2835" => c = l /\ c \in 1 .. 7
      /\ kind = "nvic7" => c = l /\ MaxLevel + 1 - c = 16 - c
      /\ kind = "nvic6" => c \in 1 .. 2 /\ MaxLevel + 1 - c \in 2 .. 3
  BY <1>1, <1>2, LevelRange DEF MaxLevel, Least
<1>4. /\ conf'[i] = c /\ \A j \in Irq \ {i} : conf'[j] = conf[j]
      /\ conf' \in [Irq -> Nat]
  BY <1>1, <1>2, <1>3 DEF Common
<1>5. CASE Config2835(i, l)
  <2>1. /\ kind = "bcm2835" /\ prio' = prio
        /\ level' = [level EXCEPT ![i] = c]
        /\ masks' = [k \in DOMAIN masks |->
                       IF k <= level'[i] THEN masks[k] \union {i} ELSE masks[k]]
    BY <1>5 DEF Config2835
  <2>2. /\ level'[i] = c /\ \A j \in Irq \ {i} : level'[j] = level[j]
        /\ level' \in [Irq -> Int]
    BY <1>1, <1>3, <2>1 DEF Common
  <2>3. \A k \in 0 .. 8 :
          masks'[k] = IF k <= c THEN masks[k] \union {i} ELSE masks[k]
    BY <1>1, <2>1, <2>2 DEF Common
  <2>4. Common'
    BY <1>1, <1>2, <1>4, <2>1, <2>2 DEF Common
  <2>5. Quiet'
    BY <1>1, <1>2 DEF Quiet, LockAll
  <2>6. Tables2835'
    <3>1. level[i] = -1 /\ \A k \in 0 .. 8 : i \notin masks[k]
      BY <1>1, <1>2, <2>1 DEF Tables2835
    <3>2. \A j \in Irq : level'[j] = IF conf'[j] = 0 THEN -1 ELSE conf'[j]
      BY <1>1, <1>3, <1>4, <2>1, <2>2 DEF Tables2835
    <3>3. \A j \in Irq : \A k \in 0 .. 8 : j \in masks'[k] <=> k <= level'[j]
      BY <1>1, <2>1, <2>2, <2>3, <3>1 DEF Tables2835
    <3>4. gate' = {j \in enabled' : lock' <= level'[j]}
      BY <1>1, <1>2 DEF Quiet
    <3> QED
      BY <1>1, <1>2, <2>1, <3>2, <3>3, <3>4 DEF Tables2835
  <2> QED
    BY <1>2, <2>1, <2>4, <2>5, <2>6 DEF GateInv, RegistersNvic7, TablesNvic6
<1>6. CASE ConfigNvic7(i, l)
  <2>1. /\ kind = "nvic7" /\ UNCHANGED <<level, masks>>
        /\ prio' = [prio EXCEPT ![i] = 16 - c]
    BY <1>3, <1>6 DEF ConfigNvic7
  <2>2. /\ prio'[i] = 16 - c /\ \A j \in Irq \ {i} : prio'[j] = prio[j]
        /\ prio' \in [Irq -> Int]
    BY <1>1, <1>3, <2>1 DEF Common
  <2>3. Common'
    BY <1>1, <1>2, <1>4, <2>1, <2>2 DEF Common
  <2>4. Quiet'
    BY <1>1, <1>2 DEF Quiet, LockAll
  <2>5. RegistersNvic7'
    <3>1. \A j \in Irq : conf'[j] > 0 => prio'[j] = 16 - conf'[j]
      BY <1>1, <1>4, <2>1, <2>2 DEF RegistersNvic7
    <3> QED
      BY <1>1, <1>2, <2>1, <3>1 DEF RegistersNvic7, BasepriOf, MaxLevel
  <2> QED
    BY <1>2, <2>1, <2>3, <2>4, <2>5 DEF GateInv, Tables2835, TablesNvic6
<1>7. CASE ConfigNvic6(i, l)
  <2> DEFINE p == MaxLevel + 1 - c
  <2>1. /\ kind = "nvic6" /\ level' = level
        /\ prio' = [prio EXCEPT ![i] = p]
        /\ masks' = [k \in DOMAIN masks |->
                       IF k \in 1 .. p THEN masks[k] \union {i}
                       ELSE IF k \in 1 .. prio[i] THEN masks[k] \ {i} ELSE masks[k]]
    BY <1>7 DEF ConfigNvic6
  <2>2. /\ \A k \in 0 .. 8 : \A j \in Irq \ {i} : j \in masks'[k] <=> j \in masks[k]
        /\ masks' \in [0 .. 8 -> SUBSET Irq] /\ prio' \in [Irq -> Int]
    BY <1>1, <1>3, <2>1 DEF Common
  <2>3. \A k \in 1 .. 2 : i \in masks'[k]
    BY <1>1, <1>3, <2>1 DEF Common
  <2>4. masks'[0] = Irq
    BY <1>1, <1>3, <2>1 DEF Common, TablesNvic6
  <2>5. Common'
    BY <1>1, <1>2, <1>4, <2>1, <2>2 DEF Common
  <2>6. Quiet'
    BY <1>1, <1>2 DEF Quiet, LockAll
  <2>7. TablesNvic6'
    <3>1. \A j \in Irq : conf'[j] > 0 => \A k \in 0 .. 2 : j \in masks'[k]
      BY <1>1, <1>4, <2>1, <2>2, <2>3, <2>4 DEF TablesNvic6
    <3> QED
      BY <1>1, <1>2, <2>1, <2>4, <3>1 DEF TablesNvic6, Quiet
  <2> QED
    BY <1>2, <2>1, <2>5, <2>6, <2>7 DEF GateInv, Tables2835, RegistersNvic7
<1> QED
  BY <1>5, <1>6, <1>7 DEF Config

LEMMA SetLevelKeeps ==
  ASSUME TwoLevels, GateInv, NEW l \in Levels[kind] \union {0, LockAll}, SetLevel(l),
         started'
  PROVE  GateInv'
<1>1. /\ Common /\ Tables2835 /\ RegistersNvic7 /\ TablesNvic6 /\ kind \in Controllers
  BY DEF GateInv, Common
<1>2. /\ lock' = l /\ l # lock /\ UNCHANGED <<kind, level, masks, enabled, prio, conf, on>>
      /\ SetLevel2835(l) \/ SetLevelNvic7(l) \/ SetLevelNvic6(l)
  BY DEF SetLevel, tables
<1>3. /\ l \in Nat
      /\ kind = "bcm2835" => l \in 0 .. 8
      /\ kind = "nvic7" => l \in 0 .. 15
      /\ kind = "nvic6" => l \in 0 .. 2
  BY <1>1, LevelRange DEF LockAll
<1>4. Quiet'
  BY DEF Quiet
<1>5. CASE SetLevel2835(l)
  <2>1. kind = "bcm2835" /\ gate' = enabled \cap masks[l]
    BY <1>5 DEF SetLevel2835
  <2>2. Common'
    BY <1>1, <1>2, <1>3, <2>1 DEF Common, Tables2835
  <2>3. gate' = {i \in enabled : l <= level[i]}
    BY <1>1, <1>3, <2>1 DEF Common, Tables2835
  <2>4. Tables2835'
    BY <1>1, <1>2, <1>3, <2>1, <2>3 DEF Tables2835
  <2> QED
    BY <1>2, <1>4, <2>1, <2>2, <2>4 DEF GateInv, RegistersNvic7, TablesNvic6
<1>6. CASE SetLevelNvic7(l)
  <2>1. kind = "nvic7" /\ gate' = gate /\ threshold' = BasepriOf(l)
    BY <1>6 DEF SetLevelNvic7
  <2>2. Common'
    BY <1>1, <1>2, <1>3, <2>1 DEF Common
  <2>3. RegistersNvic7'
    BY <1>1, <1>2, <1>3, <2>1 DEF RegistersNvic7, BasepriOf, MaxLevel
  <2> QED
    BY <1>2, <1>4, <2>1, <2>2, <2>3 DEF GateInv, Tables2835, TablesNvic6
<1>7. CASE SetLevelNvic6(l)
  <2>1. /\ kind = "nvic6"
        /\ gate' = IF l > lock THEN gate \union (enabled \cap masks[l])
                               ELSE gate \cap (enabled \cap masks[l])
    BY <1>7 DEF SetLevelNvic6
  <2>2. Common'
    BY <1>1, <1>2, <1>3, <2>1 DEF Common, TablesNvic6
  <2>3. \A i \in on : conf[i] > 0 => i \in gate'
    BY <1>1, <1>3, <2>1 DEF Common, TablesNvic6
  <2>4. TablesNvic6'
    BY <1>1, <1>2, <1>3, <2>1, <2>3 DEF TablesNvic6
  <2> QED
    BY <1>2, <1>4, <2>1, <2>2, <2>4 DEF GateInv, Tables2835, RegistersNvic7
<1> QED
  BY <1>2, <1>5, <1>6, <1>7

LEMMA StartKeeps ==
  ASSUME TwoLevels, GateInv, StartOs
  PROVE  GateInv'
<1>1. started'
  BY DEF StartOs
<1>2. CASE kind \in {"dv3", "gic"} \/ lock = 0
  <2>1. UNCHANGED <<kind, lock, level, masks, enabled, gate, prio, threshold, conf, on>>
    BY <1>2 DEF StartOs, tables
  <2> QED
    BY <1>1, <2>1 DEF GateInv, Common, Quiet, Tables2835, RegistersNvic7, TablesNvic6,
                      BasepriOf, MaxLevel
<1>3. CASE ~(kind \in {"dv3", "gic"} \/ lock = 0)
  <2>1. SetLevel(0)
    BY <1>3 DEF StartOs
  <2> QED
    BY <1>1, <2>1, SetLevelKeeps
<1> QED
  BY <1>2, <1>3

LEMMA EnableKeeps ==
  ASSUME GateInv, NEW i \in Irq, Enable(i)
  PROVE  GateInv'
<1>1. Common /\ Tables2835 /\ RegistersNvic7 /\ TablesNvic6
  BY DEF GateInv
<1>2. /\ started /\ started' = started /\ on' = on \union {i}
      /\ UNCHANGED <<kind, lock, level, masks, prio, threshold, conf>>
      /\ Enable2835(i) \/ EnableNvic6(i) \/ EnableDirectly(i)
  BY DEF Enable
<1>3. Quiet'
  BY <1>2 DEF Quiet
<1>4. CASE Enable2835(i)
  <2>1. /\ kind = "bcm2835" /\ enabled' = enabled \union {i}
        /\ gate' = IF level[i] >= lock THEN gate \union {i} ELSE gate
    BY <1>4 DEF Enable2835
  <2>2. Common'
    BY <1>1, <1>2, <2>1 DEF Common
  <2>3. gate' = {j \in enabled' : lock <= level[j]}
    <3>1. level[i] \in Int /\ lock \in Nat
      BY <1>1 DEF Common
    <3> QED
      BY <1>1, <2>1, <3>1 DEF Tables2835
  <2>4. Tables2835'
    BY <1>1, <1>2, <2>1, <2>3 DEF Tables2835
  <2> QED
    BY <1>2, <1>3, <2>1, <2>2, <2>4 DEF GateInv, RegistersNvic7, TablesNvic6
<1>5. CASE EnableNvic6(i)
  <2>1. /\ kind = "nvic6" /\ enabled' = enabled \union {i}
        /\ gate' = gate \union (enabled' \cap masks[lock])
    BY <1>5 DEF EnableNvic6
  <2>2. Common'
    BY <1>1, <1>2, <2>1 DEF Common, TablesNvic6
  <2>3. TablesNvic6'
    BY <1>1, <1>2, <2>1 DEF Common, TablesNvic6
  <2> QED
    BY <1>2, <1>3, <2>1, <2>2, <2>3 DEF GateInv, Tables2835, RegistersNvic7
<1>6. CASE EnableDirectly(i)
  <2>1. /\ kind \in {"nvic7", "dv3", "gic"} /\ enabled' = enabled
        /\ gate' = gate \union {i}
    BY <1>6 DEF EnableDirectly
  <2>2. Common'
    BY <1>1, <1>2, <2>1 DEF Common
  <2>3. RegistersNvic7'
    BY <1>1, <1>2, <2>1 DEF RegistersNvic7, BasepriOf, MaxLevel
  <2> QED
    BY <1>2, <1>3, <2>1, <2>2, <2>3 DEF GateInv, Tables2835, TablesNvic6
<1> QED
  BY <1>2, <1>4, <1>5, <1>6

LEMMA DisableKeeps ==
  ASSUME GateInv, NEW i \in Irq, Disable(i)
  PROVE  GateInv'
<1>1. Common /\ Tables2835 /\ RegistersNvic7 /\ TablesNvic6
  BY DEF GateInv
<1>2. /\ started /\ started' = started /\ kind \in {"nvic7", "nvic6", "gic"}
      /\ gate' = gate \ {i} /\ enabled' = enabled \ {i} /\ on' = on \ {i}
      /\ UNCHANGED <<kind, lock, level, masks, prio, threshold, conf>>
  BY DEF Disable
<1>3. Quiet'
  BY <1>2 DEF Quiet
<1>4. Common'
  BY <1>1, <1>2 DEF Common
<1>5. RegistersNvic7'
  BY <1>1, <1>2 DEF RegistersNvic7, BasepriOf, MaxLevel
<1>6. TablesNvic6'
  BY <1>1, <1>2 DEF TablesNvic6
<1> QED
  BY <1>2, <1>3, <1>4, <1>5, <1>6 DEF GateInv, Tables2835

\* Interrupts only ever close gates, and only those of davros-3.
LEMMA OthersKeep ==
  ASSUME GateInv,
         UNCHANGED <<kind, lock, level, masks, enabled, prio, started, conf, on>>,
         \/ gate' = gate /\ (kind = "gic" \/ threshold' = threshold)
         \/ kind = "dv3" /\ gate' \subseteq gate
  PROVE  GateInv'
<1>1. Common /\ Quiet /\ Tables2835 /\ RegistersNvic7 /\ TablesNvic6
  BY DEF GateInv
<1>2. Common'
  BY <1>1 DEF Common
<1>3. Quiet'
  BY <1>1 DEF Quiet, LockAll
<1>4. Tables2835'
  BY <1>1 DEF Tables2835
<1>5. RegistersNvic7'
  BY <1>1 DEF RegistersNvic7, BasepriOf, MaxLevel
<1>6. TablesNvic6'
  BY <1>1 DEF TablesNvic6
<1> QED
  BY <1>2, <1>3, <1>4, <1>5, <1>6 DEF GateInv

LEMMA GateStep ==
  ASSUME TwoLevels, GateInv, [Next]_vars
  PROVE  GateInv'
<1>1. ASSUME NEW i \in Irq, NEW l \in Levels[kind], Config(i, l) PROVE GateInv'
  BY <1>1, ConfigKeeps
<1>2. CASE StartOs
  BY <1>2, StartKeeps
<1>3. ASSUME NEW l \in Levels[kind] \union {LockAll}, Lock(l) PROVE GateInv'
  <2>1. SetLevel(l) /\ started'
    BY <1>3 DEF Lock
  <2> QED
    BY <2>1, SetLevelKeeps
<1>4. ASSUME NEW i \in Irq, Enable(i) PROVE GateInv'
  BY <1>4, EnableKeeps
<1>5. ASSUME NEW i \in Irq, Disable(i) PROVE GateInv'
  BY <1>5, DisableKeeps
<1>6. ASSUME NEW i \in Irq, NEW p \in Levels[kind], ConfigGic(i, p) PROVE GateInv'
  <2>1. /\ kind = "gic" /\ prio' = [prio EXCEPT ![i] = p] /\ GateInv
        /\ UNCHANGED <<kind, lock, level, masks, enabled, gate, threshold, started, conf, on>>
    BY <1>6 DEF ConfigGic, tables
  <2>2. p \in Nat
    BY LevelRange DEF GateInv, Common
  <2>3. Common'
    BY <2>1, <2>2 DEF GateInv, Common
  <2>4. Quiet'
    BY <2>1 DEF GateInv, Quiet, LockAll
  <2> QED
    BY <2>1, <2>3, <2>4 DEF GateInv, Tables2835, RegistersNvic7, TablesNvic6
<1>7. ASSUME NEW p \in Levels[kind], SetPriorityMask(p) PROVE GateInv'
  BY <1>7, OthersKeep DEF SetPriorityMask, tables
<1>8. ASSUME NEW i \in Sources, Request(i) \/ Quieten(i) PROVE GateInv'
  BY <1>8, OthersKeep DEF Request, Quieten, tables
<1>9. CASE Interrupt
  <2>1. /\ UNCHANGED <<kind, lock, level, masks, enabled, prio, threshold, started, conf, on>>
        /\ Interrupt2835 \/ InterruptVectored \/ InterruptDv3
    BY <1>9 DEF Interrupt, tables
  <2>2. gate' = gate \/ (kind = "dv3" /\ gate' \subseteq gate)
    BY <2>1 DEF Interrupt2835, InterruptVectored, InterruptDv3
  <2> QED
    BY <2>1, <2>2, OthersKeep
<1>10. CASE UNCHANGED vars
  BY <1>10, OthersKeep DEF vars, tables
<1> QED
  BY <1>1, <1>2, <1>3, <1>4, <1>5, <1>6, <1>7, <1>8, <1>9, <1>10 DEF Next

\* The tables and the registers agree: what is open is what should be.
LEMMA GatesFollow ==
  ASSUME GateInv PROVE GatesMatch
<1>1. Common /\ Tables2835 /\ RegistersNvic7 /\ TablesNvic6
  BY DEF GateInv
<1>2. \A i \in Irq : Open(i) => i \in gate
  BY LocalApart DEF Open
<1>3. LockedOut
  <2> SUFFICES ASSUME kind \in {"bcm2835", "nvic7"}, NEW i \in Irq, Open(i), conf[i] > 0
               PROVE  conf[i] >= lock
    BY DEF LockedOut, Configured
  <2>1. i \in gate /\ conf[i] \in Nat /\ lock \in Nat
    BY <1>1, <1>2 DEF Common
  <2>2. CASE kind = "bcm2835"
    BY <1>1, <2>1, <2>2 DEF Tables2835
  <2>3. CASE kind = "nvic7"
    <3>1. threshold = 0 \/ prio[i] < threshold
      BY <2>3, LocalApart DEF Open
    <3>2. /\ prio[i] = 16 - conf[i]
          /\ threshold = IF lock = 0 THEN 0 ELSE 16 - lock
      BY <1>1, <2>3 DEF RegistersNvic7, BasepriOf, MaxLevel
    <3>3. lock <= 15
      BY <1>1, <2>3 DEF RegistersNvic7
    <3> QED
      BY <2>1, <3>1, <3>2, <3>3
  <2> QED
    BY <2>2, <2>3
<1>4. LetThrough
  <2> SUFFICES ASSUME kind \in {"bcm2835", "nvic7", "nvic6"}, NEW i \in on,
                      conf[i] > 0, conf[i] > lock
               PROVE  Open(i)
    BY DEF LetThrough, Configured
  <2>1. i \in Irq /\ conf[i] \in Nat /\ lock \in Nat
    BY <1>1 DEF Common
  <2>2. CASE kind = "bcm2835"
    BY <1>1, <2>1, <2>2 DEF Tables2835, Open
  <2>3. CASE kind = "nvic7"
    <3>1. /\ i \in gate /\ prio[i] = 16 - conf[i]
          /\ threshold = IF lock = 0 THEN 0 ELSE 16 - lock
      BY <1>1, <2>1, <2>3 DEF RegistersNvic7, BasepriOf, MaxLevel
    <3> QED
      BY <2>1, <2>3, <3>1 DEF Open
  <2>4. CASE kind = "nvic6"
    BY <1>1, <2>1, <2>4 DEF TablesNvic6, Open
  <2> QED
    BY <2>2, <2>3, <2>4
<1>5. OnlyEnabled
  BY <1>1 DEF Common, OnlyEnabled
<1> QED
  BY <1>3, <1>4, <1>5 DEF GatesMatch

\* With two lock levels on the RP2040, and with any levels on the other controllers, the
\* gates stand as the lock level, the levels of the sources and the application's
\* enabling ask for (dv_setirqlevel(), dv_enable_irq(), dv_disable_irq()).
THEOREM GatesAgree ==
  ASSUME TwoLevels
  PROVE  Spec => []GatesMatch
<1>1. Init => GateInv
  BY GateInit
<1>2. GateInv /\ [Next]_vars => GateInv'
  BY GateStep
<1>3. GateInv => GatesMatch
  BY GatesFollow
<1> QED
  BY <1>1, <1>2, <1>3, PTL DEF Spec

-----------------------------------------------------------------------------
(* The handlers' walks along their lists                                   *)

LEMMA MinOf ==
  ASSUME NEW T \in SUBSET Nat, T # {}
  PROVE  Min(T) \in T /\ \A y \in T : Min(T) <= y
<1>1. PICK d \in T : \A c \in T : ~(<<c, d>> \in OpToRel(<, Nat))
  BY NatLessThanWellFounded, WFMin
<1>2. \A c \in T : c \in Nat /\ d \in Nat /\ ~(c < d)
  BY <1>1 DEF OpToRel
<1>3. \A c \in T : d <= c
  BY <1>2
<1> QED
  BY <1>3 DEF Min

\* The positions of the elements of S: one more than the number of those below.
LEMMA RankIsBijection ==
  ASSUME NEW S \in SUBSET Nat, IsFiniteSet(S)
  PROVE  LET r == [x \in S |-> Cardinality({y \in S : y <= x})]
             n == Cardinality(S)
         IN  /\ r \in [S -> 1 .. n]
             /\ \A x, y \in S : x < y => r[x] < r[y]
             /\ \A k \in 1 .. n : \E x \in S : r[x] = k
<1> DEFINE r == [x \in S |-> Cardinality({y \in S : y <= x})]
           n == Cardinality(S)
<1>1. n \in Nat
  BY FS_CardinalityType
<1>2. \A x \in S : /\ IsFiniteSet({y \in S : y <= x})
                   /\ r[x] \in Nat /\ r[x] <= n
  BY FS_Subset, FS_CardinalityType
<1>3. \A x \in S : r[x] > 0
  <2> SUFFICES ASSUME NEW x \in S PROVE r[x] > 0
    OBVIOUS
  <2>1. x \in {y \in S : y <= x}
    OBVIOUS
  <2>2. Cardinality({y \in S : y <= x}) # 0
    BY <1>2, <2>1, FS_EmptySet
  <2> QED
    BY <1>2, <2>2
<1>4. r \in [S -> 1 .. n]
  BY <1>1, <1>2, <1>3
<1>5. \A x, y \in S : x < y => r[x] < r[y]
  <2> SUFFICES ASSUME NEW x \in S, NEW y \in S, x < y PROVE r[x] < r[y]
    OBVIOUS
  <2> DEFINE A == {z \in S : z <= x}
             B == {z \in S : z <= y}
  <2>1. A \subseteq B /\ y \in B /\ y \notin A
    <3>1. x \in Int /\ y \in Int /\ \A z \in S : z \in Int
      OBVIOUS
    <3>2. \A z \in S : z <= x => z <= y
      BY <3>1
    <3>3. y <= y /\ ~(y <= x)
      BY <3>1
    <3> QED
      BY <3>2, <3>3
  <2>2. IsFiniteSet(B)
    BY <1>2
  <2>3. Cardinality(A) <= Cardinality(B) /\ Cardinality(A) # Cardinality(B)
    BY <2>1, <2>2, FS_Subset
  <2>4. r[x] = Cardinality(A) /\ r[y] = Cardinality(B)
    OBVIOUS
  <2> QED
    BY <1>2, <2>3, <2>4
<1>6. r \in Injection(S, 1 .. n)
  <2>1. \A x, y \in S : x # y => r[x] # r[y]
    <3> SUFFICES ASSUME NEW x \in S, NEW y \in S, x # y PROVE r[x] # r[y]
      OBVIOUS
    <3>1. x < y \/ y < x
      OBVIOUS
    <3>2. r[x] \in Nat /\ r[y] \in Nat
      BY <1>2
    <3> QED
      BY <1>5, <3>1, <3>2
  <2> QED
    BY <1>4, <2>1 DEF Injection, IsInjective
<1>7. IsFiniteSet(1 .. n) /\ Cardinality(1 .. n) = n
  BY <1>1, FS_Interval
<1>8. r \in Surjection(S, 1 .. n)
  BY <1>6, <1>7, FS_Injection
<1>9. \A k \in 1 .. n : \E x \in S : r[x] = k
  BY <1>8 DEF Surjection
<1> QED
  BY <1>4, <1>5, <1>9

\* What Sorted(S) is, for every finite set of numbers.
LEMMA SortedIs ==
  ASSUME NEW S \in SUBSET Nat, IsFiniteSet(S)
  PROVE  /\ ToSet(Sorted(S)) = S
         /\ Sorted(S) \in Seq(Nat)
         /\ Len(Sorted(S)) = Cardinality(S)
<1> DEFINE r == [x \in S |-> Cardinality({y \in S : y <= x})]
           n == Cardinality(S)
<1>1. /\ r \in [S -> 1 .. n]
      /\ \A x, y \in S : x < y => r[x] < r[y]
      /\ \A k \in 1 .. n : \E x \in S : r[x] = k
  BY RankIsBijection
<1>2. n \in Nat
  BY FS_CardinalityType
<1> DEFINE f == [k \in 1 .. n |-> CHOOSE x \in S : r[x] = k]
<1> HIDE DEF r
<1>3. \A k \in 1 .. n : f[k] \in S /\ r[f[k]] = k
  BY <1>1
<1>4. f \in [1 .. n -> S] /\ \A i, j \in DOMAIN f : i < j => f[i] < f[j]
  <2>1. f \in [1 .. n -> S] /\ DOMAIN f = 1 .. n
    BY <1>3
  <2> SUFFICES ASSUME NEW i \in 1 .. n, NEW j \in 1 .. n, i < j PROVE f[i] < f[j]
    BY <2>1
  <2>2. f[i] \in Nat /\ f[j] \in Nat /\ r[f[i]] = i /\ r[f[j]] = j
    BY <1>3
  <2> HIDE DEF f
  <2>3. f[i] # f[j]
    BY <2>2
  <2>4. ~(f[j] < f[i])
    BY <1>1, <1>3, <2>2
  <2> QED
    BY <2>2, <2>3, <2>4
<1> HIDE DEF f
<1>5. PICK s \in [1 .. n -> S] : /\ s = Sorted(S)
                                 /\ \A i, j \in DOMAIN s : i < j => s[i] < s[j]
  BY <1>4 DEF Sorted
<1>6. s \in Seq(Nat) /\ Len(s) = n /\ DOMAIN s = 1 .. n
  <2>1. s \in [1 .. n -> Nat]
    BY <1>5
  <2> QED
    BY <1>2, <1>5, <2>1
<1>7. s \in Injection(1 .. n, S)
  <2>1. \A i, j \in 1 .. n : i # j => s[i] # s[j]
    <3> SUFFICES ASSUME NEW i \in 1 .. n, NEW j \in 1 .. n, i # j PROVE s[i] # s[j]
      OBVIOUS
    <3>1. i < j \/ j < i
      BY <1>2
    <3>2. s[i] \in Nat /\ s[j] \in Nat
      BY <1>5
    <3>3. s[i] < s[j] \/ s[j] < s[i]
      BY <1>5, <1>6, <3>1
    <3> QED
      BY <3>2, <3>3
  <2> QED
    BY <1>5, <2>1 DEF Injection, IsInjective
<1>8. s \in Surjection(1 .. n, S)
  BY <1>2, <1>7, FS_Injection, FS_Interval
<1>9. ToSet(s) = S
  BY <1>5, <1>6, <1>8 DEF ToSet, Surjection
<1> QED
  BY <1>5, <1>6, <1>9

\* Where the walk stands when it has done register r: it has passed the sources of the
\* registers up to r, since the list has these in order.
LEMMA CursorIs ==
  /\ \A r \in -1 .. 2 : Cursor[r] \in 0 .. Cardinality(Irq)
  /\ \A r \in -1 .. 2 : \A i \in Irq : i < Cursor[r] <=> Register[i] <= r
<1> DEFINE n == Cardinality(Irq)
           C(d, r) == {i \in Irq \union {n} : i >= d /\ (i \in Irq => Register[i] # r)}
<1>1. /\ n \in Nat /\ Irq = 0 .. n - 1
      /\ \A i, j \in Irq : i <= j => Register[i] <= Register[j]
      /\ \A i \in Irq : Register[i] \in 0 .. 2
  BY IrqLockAssumption, FS_CardinalityType
<1> HIDE DEF n
<1>2. ASSUME NEW d \in 0 .. n, NEW r \in 0 .. 2,
             \A i \in Irq : i < d <=> Register[i] <= r - 1
      PROVE  /\ Min(C(d, r)) \in 0 .. n
             /\ \A i \in Irq : i < Min(C(d, r)) <=> Register[i] <= r
  <2>1. C(d, r) \in SUBSET Nat /\ C(d, r) # {}
    <3>1. n \in C(d, r)
      BY <1>1
    <3>2. \A i \in Irq \union {n} : i \in Nat
      BY <1>1
    <3>3. C(d, r) \subseteq Irq \union {n}
      OBVIOUS
    <3> QED
      BY <3>1, <3>2, <3>3
  <2>2. Min(C(d, r)) \in C(d, r) /\ \A i \in C(d, r) : Min(C(d, r)) <= i
    BY <2>1, MinOf
  <2>3. PICK c \in C(d, r) : c = Min(C(d, r)) /\ \A i \in C(d, r) : c <= i
    BY <2>2
  <2>4. c \in 0 .. n /\ c >= d /\ (c \in Irq => Register[c] # r)
    BY <1>1, <2>3
  <2>5. ASSUME NEW i \in Irq, i < c PROVE Register[i] <= r
    <3>1. CASE i < d
      BY <1>1, <1>2, <3>1
    <3>2. CASE i >= d
      <4>1. i \notin C(d, r)
        BY <1>1, <2>3, <2>4, <2>5
      <4> QED
        BY <1>1, <3>2, <4>1
    <3> QED
      BY <1>1, <3>1, <3>2
  <2>6. ASSUME NEW i \in Irq, Register[i] <= r PROVE i < c
    <3> SUFFICES ASSUME i >= c PROVE FALSE
      BY <1>1, <2>4
    <3>1. c \in Irq /\ Register[c] <= r
      BY <1>1, <2>4, <2>6
    <3>2. Register[c] <= r - 1
      BY <1>1, <2>4, <3>1
    <3>3. c < d
      BY <1>2, <3>1, <3>2
    <3> QED
      BY <2>4, <3>3
  <2>7. \A i \in Irq : i < c <=> Register[i] <= r
    BY <2>5, <2>6
  <2> QED
    BY <2>3, <2>4, <2>7
<1> DEFINE c0 == Min(C(0, 0))
           c1 == Min(C(c0, 1))
           c2 == Min(C(c1, 2))
           g == [r \in -1 .. 2 |-> IF r = -1 THEN 0 ELSE IF r = 0 THEN c0
                                    ELSE IF r = 1 THEN c1 ELSE c2]
<1> HIDE DEF C
<1>3. /\ Cursor = [r \in -1 .. 2 |-> IF r = -1 THEN 0 ELSE Min(C(Cursor[r - 1], r))]
  <2>1. g = [r \in -1 .. 2 |-> IF r = -1 THEN 0 ELSE Min(C(g[r - 1], r))]
    <3>1. ASSUME NEW r \in -1 .. 2
          PROVE  g[r] = IF r = -1 THEN 0 ELSE Min(C(g[r - 1], r))
      <4>1. r = -1 \/ r = 0 \/ r = 1 \/ r = 2
        OBVIOUS
      <4>2. g[-1] = 0 /\ g[0] = c0 /\ g[1] = c1 /\ g[2] = c2
        OBVIOUS
      <4> QED
        BY <4>1, <4>2
    <3> HIDE DEF c0, c1, c2
    <3> QED
      BY <3>1
  <2> HIDE DEF g
  <2> QED
    BY <2>1 DEF Cursor, C, n
<1>4. /\ Cursor[-1] = 0
      /\ Cursor[0] = Min(C(Cursor[-1], 0))
      /\ Cursor[1] = Min(C(Cursor[0], 1))
      /\ Cursor[2] = Min(C(Cursor[1], 2))
  BY <1>3
<1>5. Cursor[-1] \in 0 .. n /\ \A i \in Irq : i < Cursor[-1] <=> Register[i] <= -1
  BY <1>1, <1>4
<1>6. Cursor[0] \in 0 .. n /\ \A i \in Irq : i < Cursor[0] <=> Register[i] <= 0
  BY <1>2, <1>4, <1>5
<1>7. Cursor[1] \in 0 .. n /\ \A i \in Irq : i < Cursor[1] <=> Register[i] <= 1
  BY <1>2, <1>4, <1>6
<1>8. Cursor[2] \in 0 .. n /\ \A i \in Irq : i < Cursor[2] <=> Register[i] <= 2
  BY <1>2, <1>4, <1>7
<1>9. \A r \in -1 .. 2 : r = -1 \/ r = 0 \/ r = 1 \/ r = 2
  OBVIOUS
<1> QED
  BY <1>5, <1>6, <1>7, <1>8, <1>9 DEF n

\* dv_bcm2835_interrupt_handler() passes every pending source of its own once.
LEMMA WalkIs ==
  ASSUME NEW P
  PROVE  Handler2835(P) = Sorted(P \cap Irq)
<1>1. ASSUME NEW i \in Irq PROVE i \in Cursor[Register[i] - 1] .. Cursor[Register[i]] - 1
  <2>1. PICK r \in 0 .. 2 : r = Register[i]
    BY IrqLockAssumption
  <2>2. i \in Int /\ Cursor[r - 1] \in Int /\ Cursor[r] \in Int
    BY CursorIs, IrqLockAssumption, FS_CardinalityType
  <2>3. i < Cursor[r] /\ ~(i < Cursor[r - 1])
    BY <2>1, CursorIs
  <2> QED
    BY <2>1, <2>2, <2>3
<1>2. {i \in P \cap Irq : i \in Cursor[Register[i] - 1] .. Cursor[Register[i]] - 1} = P \cap Irq
  BY <1>1
<1> QED
  BY <1>2 DEF Handler2835

\* One sequence after the other, of sets that have nothing in common.
LEMMA WalksInOrder ==
  ASSUME NEW P \in SUBSET (Irq \union Local)
  PROVE  LET v == Sorted(P \cap Irq) \o Sorted(P \cap Local)
         IN  ToSet(v) = P /\ Len(v) = Cardinality(P)
<1> DEFINE a == Sorted(P \cap Irq)
           b == Sorted(P \cap Local)
<1>1. Irq \in SUBSET Nat /\ Local \in SUBSET Nat
  BY IrqLockAssumption, FS_CardinalityType
<1>2. IsFiniteSet(P \cap Irq) /\ IsFiniteSet(P \cap Local)
  BY IrqLockAssumption, FS_Subset
<1>3. P \cap Irq \in SUBSET Nat /\ P \cap Local \in SUBSET Nat
  BY <1>1
<1>4. /\ ToSet(a) = P \cap Irq /\ a \in Seq(Nat) /\ Len(a) = Cardinality(P \cap Irq)
      /\ ToSet(b) = P \cap Local /\ b \in Seq(Nat) /\ Len(b) = Cardinality(P \cap Local)
  BY <1>2, <1>3, SortedIs
<1> HIDE DEF a, b
<1>5. PICK v \in Seq(Nat) : v = a \o b
  <2>1. a \o b \in Seq(Nat)
    BY <1>4
  <2> QED
    BY <2>1
<1>6. /\ Len(v) = Len(a) + Len(b) /\ Len(a) \in Nat /\ Len(b) \in Nat
      /\ DOMAIN v = 1 .. Len(v) /\ DOMAIN a = 1 .. Len(a) /\ DOMAIN b = 1 .. Len(b)
      /\ \A i \in 1 .. Len(a) : v[i] = a[i]
      /\ \A i \in 1 .. Len(b) : v[Len(a) + i] = b[i]
      /\ \A i \in Len(a) + 1 .. Len(v) : v[i] = b[i - Len(a)]
  <2>0. a \in Seq(Nat) /\ b \in Seq(Nat) /\ v \in Seq(Nat) /\ v = a \o b
    BY <1>4, <1>5
  <2>1. /\ Len(v) = Len(a) + Len(b) /\ Len(a) \in Nat /\ Len(b) \in Nat
        /\ DOMAIN v = 1 .. Len(v) /\ DOMAIN a = 1 .. Len(a) /\ DOMAIN b = 1 .. Len(b)
    <3>1. Len(v) = Len(a) + Len(b) /\ Len(a) \in Nat /\ Len(b) \in Nat
      BY <2>0
    <3>2. \A q \in Seq(Nat) : DOMAIN q = 1 .. Len(q)
      OBVIOUS
    <3> QED
      BY <2>0, <3>1, <3>2
  <2>2. \A i \in 1 .. Len(a) : v[i] = a[i]
    BY <2>0, <2>1
  <2>3. \A i \in Len(a) + 1 .. Len(v) : v[i] = b[i - Len(a)]
    BY <2>0, <2>1
  <2>4. ASSUME NEW i \in 1 .. Len(b) PROVE v[Len(a) + i] = b[i]
    <3>1. Len(a) + i \in Len(a) + 1 .. Len(v) /\ (Len(a) + i) - Len(a) = i
      BY <2>1
    <3> QED
      BY <2>3, <3>1
  <2> QED
    BY <2>1, <2>2, <2>3, <2>4
<1>7. ToSet(v) = ToSet(a) \union ToSet(b)
  <2>1. ASSUME NEW i \in DOMAIN v PROVE v[i] \in ToSet(a) \union ToSet(b)
    <3>1. CASE i <= Len(a)
      BY <1>6, <2>1, <3>1 DEF ToSet
    <3>2. CASE i > Len(a)
      <4>1. i - Len(a) \in DOMAIN b /\ v[i] = b[i - Len(a)]
        BY <1>6, <2>1, <3>2
      <4> QED
        BY <4>1 DEF ToSet
    <3> QED
      BY <1>6, <3>1, <3>2
  <2>2. \A i \in DOMAIN a : a[i] \in ToSet(v)
    BY <1>6 DEF ToSet
  <2>3. ASSUME NEW i \in DOMAIN b PROVE b[i] \in ToSet(v)
    <3>1. Len(a) + i \in DOMAIN v /\ v[Len(a) + i] = b[i]
      BY <1>6, <2>3
    <3> QED
      BY <3>1 DEF ToSet
  <2> QED
    BY <2>1, <2>2, <2>3 DEF ToSet
<1>8. P = (P \cap Irq) \union (P \cap Local) /\ (P \cap Irq) \cap (P \cap Local) = {}
  BY LocalApart
<1>9. Cardinality(P) = Cardinality(P \cap Irq) + Cardinality(P \cap Local)
  <2>1. /\ Cardinality((P \cap Irq) \union (P \cap Local)) =
             Cardinality(P \cap Irq) + Cardinality(P \cap Local)
                - Cardinality((P \cap Irq) \cap (P \cap Local))
    BY <1>2, FS_Union
  <2>2. Cardinality((P \cap Irq) \cap (P \cap Local)) = 0
    BY <1>8, FS_EmptySet
  <2>3. Cardinality(P \cap Irq) \in Nat /\ Cardinality(P \cap Local) \in Nat
    BY <1>2, FS_CardinalityType
  <2> QED
    <3>1. Cardinality(P) = Cardinality((P \cap Irq) \union (P \cap Local))
      BY <1>8
    <3> QED
      BY <2>1, <2>2, <2>3, <3>1
<1> QED
  BY <1>4, <1>5, <1>6, <1>7, <1>8, <1>9 DEF a, b

-----------------------------------------------------------------------------
(* What is open on the BCM2835 is in its driver's table                    *)

VectorInv ==
  /\ asserted \subseteq Sources
  /\ enabled \subseteq Irq /\ gate \subseteq Irq
  /\ kind = "bcm2835" => gate \subseteq enabled
  /\ VectoredOnce

LEMMA VectorInit ==
  ASSUME Init
  PROVE  VectorInv
<1>1. ToSet(<<>>) = {} /\ Len(<<>>) = 0 /\ Cardinality({}) = 0
  BY FS_EmptySet DEF ToSet
<1> QED
  BY <1>1 DEF Init, VectorInv, VectoredOnce

\* An interrupt calls the functions of what it finds open and asserted.
LEMMA InterruptVectors ==
  ASSUME VectorInv, Interrupt
  PROVE  VectoredOnce'
<1>1. Requests \subseteq Sources
  BY DEF VectorInv, Requests
<1>2. CASE Interrupt2835
  <2>1. /\ kind = "bcm2835" /\ pending' = Requests
        /\ vectored' = Handler2836(pending' \cap (enabled \union Local))
    BY <1>2 DEF Interrupt2835
  <2>2. Requests \in SUBSET (Irq \union Local)
    BY <1>1, <2>1 DEF Sources
  <2>3. Requests \subseteq enabled \union Local
    BY <2>1 DEF Requests, Open, VectorInv
  <2>4. vectored' = Sorted(Requests \cap Irq) \o Sorted(Requests \cap Local)
    BY <2>1, <2>3, WalkIs DEF Handler2836
  <2> HIDE DEF Requests
  <2>5. /\ ToSet(Sorted(Requests \cap Irq) \o Sorted(Requests \cap Local)) = Requests
        /\ Len(Sorted(Requests \cap Irq) \o Sorted(Requests \cap Local))
             = Cardinality(Requests)
    BY <2>2, WalksInOrder
  <2> QED
    BY <2>1, <2>4, <2>5 DEF VectoredOnce
<1>3. CASE InterruptVectored
  <2>1. PICK i \in Urgent : pending' = {i} /\ vectored' = <<i>>
    BY <1>3 DEF InterruptVectored
  <2>2. ToSet(<<i>>) = {i} /\ Len(<<i>>) = 1 /\ Cardinality({i}) = 1
    BY FS_Singleton DEF ToSet
  <2> QED
    BY <2>1, <2>2 DEF VectoredOnce
<1>4. CASE InterruptDv3
  <2>1. /\ kind = "dv3" /\ pending' = Requests
        /\ vectored' = Sorted(pending' \cap Irq) \o Sorted(pending' \cap Local)
    BY <1>4 DEF InterruptDv3
  <2>2. Requests \in SUBSET (Irq \union Local)
    BY <1>1, <2>1 DEF Sources
  <2>3. /\ ToSet(Sorted(Requests \cap Irq) \o Sorted(Requests \cap Local)) = Requests
        /\ Len(Sorted(Requests \cap Irq) \o Sorted(Requests \cap Local))
             = Cardinality(Requests)
    BY <2>2, WalksInOrder
  <2> QED
    BY <2>1, <2>3 DEF VectoredOnce
<1> QED
  BY <1>2, <1>3, <1>4 DEF Interrupt

LEMMA VectorStep ==
  ASSUME VectorInv, [Next]_vars
  PROVE  VectorInv'
<1>1. \A i \in Irq : i \in Sources
  BY DEF Sources
<1> USE DEF tables, cpuVars
<1>2. ASSUME UNCHANGED <<kind, pending, vectored, enabled, gate>>,
             asserted' \subseteq Sources
      PROVE  VectorInv'
  <2>1. VectoredOnce'
    BY <1>2 DEF VectorInv, VectoredOnce
  <2> QED
    BY <1>2, <2>1 DEF VectorInv, Sources
<1>3. ASSUME UNCHANGED <<kind, asserted, pending, vectored>>,
             gate' \subseteq Irq, enabled' \subseteq Irq,
             kind = "bcm2835" => gate' \subseteq enabled'
      PROVE  VectorInv'
  <2>1. VectoredOnce'
    BY <1>3 DEF VectorInv, VectoredOnce
  <2> QED
    BY <1>3, <2>1 DEF VectorInv, Sources
<1>4. ASSUME NEW l, SetLevel(l) PROVE VectorInv'
  <2>1. UNCHANGED <<kind, asserted, pending, vectored, enabled>>
    BY <1>4 DEF SetLevel
  <2>2. gate' \subseteq gate \union enabled
    BY <1>4 DEF SetLevel, SetLevel2835, SetLevelNvic7, SetLevelNvic6
  <2> QED
    BY <1>3, <2>1, <2>2 DEF VectorInv
<1>5. ASSUME NEW i \in Irq, NEW l \in Levels[kind], Config(i, l) PROVE VectorInv'
  BY <1>2, <1>5 DEF Config, VectorInv
<1>6. ASSUME NEW i \in Irq, NEW p \in Levels[kind], ConfigGic(i, p) PROVE VectorInv'
  BY <1>2, <1>6 DEF ConfigGic, VectorInv
<1>7. CASE StartOs
  BY <1>2, <1>4, <1>7 DEF StartOs, VectorInv
<1>8. ASSUME NEW l \in Levels[kind] \union {LockAll}, Lock(l) PROVE VectorInv'
  BY <1>4, <1>8 DEF Lock
<1>9. ASSUME NEW p \in Levels[kind], SetPriorityMask(p) PROVE VectorInv'
  BY <1>2, <1>9 DEF SetPriorityMask, VectorInv
<1>10. ASSUME NEW i \in Irq, Enable(i) PROVE VectorInv'
  <2>1. UNCHANGED <<kind, asserted, pending, vectored>>
    BY <1>10 DEF Enable
  <2>2. /\ enabled' \subseteq Irq /\ gate' \subseteq Irq
        /\ kind = "bcm2835" => gate' \subseteq enabled'
    BY <1>10 DEF Enable, Enable2835, EnableNvic6, EnableDirectly, VectorInv
  <2> QED
    BY <1>3, <2>1, <2>2
<1>11. ASSUME NEW i \in Irq, Disable(i) PROVE VectorInv'
  <2>1. UNCHANGED <<kind, asserted, pending, vectored>>
    BY <1>11 DEF Disable
  <2>2. enabled' \subseteq Irq /\ gate' \subseteq Irq /\ kind # "bcm2835"
    BY <1>11 DEF Disable, VectorInv
  <2> QED
    BY <1>3, <2>1, <2>2
<1>12. ASSUME NEW i \in Sources, Request(i) \/ Quieten(i) PROVE VectorInv'
  BY <1>2, <1>12 DEF Request, Quieten, VectorInv
<1>13. CASE Interrupt
  <2>1. VectoredOnce'
    BY <1>13, InterruptVectors
  <2>2. UNCHANGED <<kind, asserted, enabled>> /\ gate' \subseteq gate
    BY <1>13 DEF Interrupt, Interrupt2835, InterruptVectored, InterruptDv3
  <2> QED
    BY <2>1, <2>2 DEF VectorInv, Sources
<1>14. CASE UNCHANGED vars
  BY <1>2, <1>14 DEF vars, VectorInv
<1> QED
  BY <1>5, <1>6, <1>7, <1>8, <1>9, <1>10, <1>11, <1>12, <1>13, <1>14 DEF Next

\* One pass of the handler calls the vector function of every source that is open and
\* pending, once, and of no other: for every list of sources that is in the order of its
\* registers, and with every lock level on every controller
\* (dv_bcm2835_interrupt_handler(), dv_bcm2836_interrupt_handler()).
THEOREM EachSourceOnce == Spec => []VectoredOnce
<1>1. Init => VectorInv
  BY VectorInit
<1>2. VectorInv /\ [Next]_vars => VectorInv'
  BY VectorStep
<1>3. VectorInv => VectoredOnce
  BY DEF VectorInv
<1> QED
  BY <1>1, <1>2, <1>3, PTL DEF Spec

-----------------------------------------------------------------------------
(* The clocks: what the inductive invariants are made of                   *)

JobType == [at : {"out", "low", "again", "compare", "difference", "sum", "last"},
            high : Int, low : Int, again : Int, begun : Int, got : Int]

ClockTypes ==
  /\ clock \in Tickers \cup Reads
  /\ time \in Nat /\ match \in Int /\ flag \in BOOLEAN /\ ticks \in Nat
  /\ isr \in {"out", "in", "half"}
  /\ job \in [Readers -> JobType]
  /\ stamp \in Int /\ last \in Int

\* k periods
Span(k) == k * Period

\* The instant in which the tick after the first k becomes due, and how many are due by t.
Instant(c, k) == IF c = "alarm" THEN FirstTick + Span(k) ELSE Span(k + 1)
DueAt(c, t) ==
  CASE c = "alarm"   -> IF t < FirstTick THEN 0 ELSE (t - FirstTick) \div Period + 1
    [] c = "compare" -> IF t < 2 * Period THEN 1 ELSE t \div Period
    [] OTHER         -> t \div Period

\* What has been counted; and what the compare register holds, if it is armed, is the
\* next instant.
Counted ==
  Ticker => /\ isr = "out" => ticks + (IF flag THEN 1 ELSE 0) = DueAt(clock, time)
            /\ isr # "out" => ticks = DueAt(clock, time) /\ ticks >= 1
AlarmArmed ==
  clock = "alarm" =>
    /\ isr = "in" => flag
    /\ isr = "half" => ~flag
    /\ match = IF isr = "out" /\ ~flag THEN Instant("alarm", ticks) % Wrap ELSE Nowhere
CompareArmed ==
  clock = "compare" =>
    /\ isr # "out" => flag
    /\ match = (IF isr = "in" THEN Span(ticks) ELSE Span(ticks + 1)) % Wrap
ReloadArmed ==
  clock = "reload" =>
    /\ isr # "half"
    /\ isr = "in" => flag
    /\ match = Instant("reload", DueAt("reload", time)) % Wrap
TickInv == ClockTypes /\ Counted /\ AlarmArmed /\ CompareArmed /\ ReloadArmed

-----------------------------------------------------------------------------
(* Facts about division                                                    *)

\* x is d times m and a rest, and x \div m is at least q if and only if x reaches m * q.
LEMMA Quotient ==
  ASSUME NEW m \in Nat \ {0}, NEW x \in Nat
  PROVE  /\ x \div m \in Nat /\ x % m \in 0 .. m - 1 /\ x = m * (x \div m) + (x % m)
<1>1. x % m \in 0 .. m - 1 /\ x = m * (x \div m) + (x % m) /\ x \div m \in Int
  OBVIOUS
<1>2. PICK d \in Int, s \in 0 .. m - 1 : d = x \div m /\ s = x % m /\ x = m * d + s
  BY <1>1
<1>3. d >= 0
  <2>1. SUFFICES ASSUME d < 0 PROVE FALSE
    BY <1>2
  <2>2. PICK e \in Nat : d = -1 - e
    BY <1>2, <2>1
  <2>3. m * d = -m - m * e /\ m * e \in Nat
    BY <2>2, SMT
  <2> QED
    BY <1>2, <2>3
<1> QED
  BY <1>1, <1>2, <1>3

\* Numbers compare as their multiples do.
LEMMA Multiples ==
  ASSUME NEW m \in Nat \ {0}, NEW a \in Int, NEW b \in Int
  PROVE  /\ m * a \in Int /\ m * b \in Int
         /\ a <= b => m * a <= m * b
         /\ a < b => m * a + m <= m * b
<1>1. m * a \in Int /\ m * b \in Int
  OBVIOUS
<1>2. ASSUME a <= b PROVE m * a <= m * b
  <2>1. PICK e \in Nat : b = a + e
    BY <1>2
  <2>2. m * b = m * a + m * e /\ m * e \in Nat
    BY <2>1, SMT
  <2> QED
    BY <1>1, <2>2
<1>3. ASSUME a < b PROVE m * a + m <= m * b
  <2>1. PICK e \in Nat : b = a + 1 + e
    BY <1>3
  <2>2. m * b = m * a + m + m * e /\ m * e \in Nat
    BY <2>1, SMT
  <2> QED
    BY <1>1, <2>2
<1> QED
  BY <1>1, <1>2, <1>3

\* x \div m is at least q if and only if x reaches q * m.
LEMMA Reaches ==
  ASSUME NEW m \in Nat \ {0}, NEW x \in Nat, NEW q \in Nat
  PROVE  x \div m >= q <=> q * m <= x
<1>1. x \div m \in Nat /\ x % m \in 0 .. m - 1 /\ x = m * (x \div m) + (x % m)
  BY Quotient
<1>2. PICK d \in Nat, s \in 0 .. m - 1 : d = x \div m /\ x = m * d + s
  BY <1>1
<1>3. m * q = q * m /\ m * q \in Int /\ m * d \in Int
  OBVIOUS
<1>4. q <= d => m * q <= m * d
  BY Multiples
<1>5. d < q => m * d + m <= m * q
  BY Multiples
<1> QED
  BY <1>2, <1>3, <1>4, <1>5

\* What is less than m apart and has the same rest is the same.
LEMMA SameRest ==
  ASSUME NEW m \in Nat \ {0}, NEW a \in Nat, NEW b \in Nat,
         a <= b, b - a < m, a % m = b % m
  PROVE  a = b
<1>1. a \div m \in Nat /\ a % m \in 0 .. m - 1 /\ a = m * (a \div m) + (a % m)
  BY Quotient
<1>2. b \div m \in Nat /\ b % m \in 0 .. m - 1 /\ b = m * (b \div m) + (b % m)
  BY Quotient
<1>3. PICK c \in Nat, d \in Nat, s \in 0 .. m - 1 : a = m * c + s /\ b = m * d + s
  BY <1>1, <1>2
<1>4. m * c \in Int /\ m * d \in Int
  OBVIOUS
<1>5. c < d => m * c + m <= m * d
  BY Multiples
<1>6. d <= c => m * d <= m * c
  BY Multiples
<1> QED
  BY <1>3, <1>4, <1>5, <1>6

\* The quotient and the rest are the only ones.
LEMMA Only ==
  ASSUME NEW m \in Nat \ {0}, NEW x \in Nat, NEW q \in Int, NEW r \in 0 .. m - 1, x = m * q + r
  PROVE  x \div m = q /\ x % m = r
<1>1. x \div m \in Nat /\ x % m \in 0 .. m - 1 /\ x = m * (x \div m) + (x % m)
  BY Quotient
<1>2. PICK d \in Nat, s \in 0 .. m - 1 : d = x \div m /\ s = x % m /\ x = m * d + s
  BY <1>1
<1>3. m * q \in Int /\ m * d \in Int
  OBVIOUS
<1>4. d < q => m * d + m <= m * q
  BY Multiples
<1>5. q < d => m * q + m <= m * d
  BY Multiples
<1>6. d = q
  BY <1>2, <1>3, <1>4, <1>5
<1> QED
  BY <1>2, <1>3, <1>6

\* The rest of a sum
LEMMA RestOfSum ==
  ASSUME NEW m \in Nat \ {0}, NEW a \in Nat, NEW c \in Nat
  PROVE  ((a % m) + c) % m = (a + c) % m
<1>1. a \div m \in Nat /\ a % m \in 0 .. m - 1 /\ a = m * (a \div m) + (a % m)
  BY Quotient
<1>2. PICK d \in Nat, s \in 0 .. m - 1 : d = a \div m /\ s = a % m /\ a = m * d + s
  BY <1>1
<1>3. s + c \in Nat /\ a + c \in Nat
  OBVIOUS
<1>4. (s + c) \div m \in Nat /\ (s + c) % m \in 0 .. m - 1
        /\ s + c = m * ((s + c) \div m) + ((s + c) % m)
  BY <1>3, Quotient
<1>5. PICK e \in Nat, u \in 0 .. m - 1 : e = (s + c) \div m /\ u = (s + c) % m /\ s + c = m * e + u
  BY <1>4
<1>6. a + c = m * (d + e) + u
  <2>1. m * (d + e) = m * d + m * e /\ m * d \in Int /\ m * e \in Int
    BY SMT
  <2> QED
    BY <1>2, <1>5, <2>1
<1>7. d + e \in Int
  OBVIOUS
<1>8. (a + c) % m = u
  BY <1>3, <1>6, <1>7, Only
<1> QED
  BY <1>2, <1>5, <1>8

-----------------------------------------------------------------------------
(* The tick: instants and what is due                                      *)

LEMMA ClockConstants ==
  /\ Period \in Nat \ {0} /\ FirstTick \in Nat \ {0} /\ Wrap \in Nat \ {0}
  /\ FirstTick < Wrap /\ Period < Wrap /\ 2 * Period <= Wrap /\ 2 * Period \in Nat
BY ClocksAssumption

LEMMA Spans ==
  ASSUME NEW k \in Nat
  PROVE  /\ Span(k) \in Nat /\ Span(k + 1) \in Nat /\ Span(k + 1) = Span(k) + Period
         /\ Span(0) = 0 /\ Span(1) = Period /\ Span(2) = 2 * Period
         /\ k >= 1 => Span(k) >= Period
         /\ k >= 2 => Span(k) >= 2 * Period
<1>1. PICK p \in Nat \ {0} : p = Period
  BY ClockConstants
<1>2. k * p \in Nat /\ (k + 1) * p \in Nat /\ (k + 1) * p = k * p + p
  BY SMT
<1>3. 0 * p = 0 /\ 1 * p = p /\ 2 * p \in Nat
  BY SMT
<1>4. k >= 1 => k * p >= p
  <2>1. 1 <= k => p * 1 <= p * k
    BY Multiples
  <2>2. p * 1 = p /\ p * k = k * p
    OBVIOUS
  <2> QED
    BY <2>1, <2>2
<1>5. k >= 2 => k * p >= 2 * p
  <2>1. 2 <= k => p * 2 <= p * k
    BY Multiples
  <2>2. p * 2 = 2 * p /\ p * k = k * p
    OBVIOUS
  <2> QED
    BY <2>1, <2>2
<1> QED
  BY <1>1, <1>2, <1>3, <1>4, <1>5 DEF Span

LEMMA DueOf ==
  ASSUME NEW t
  PROVE  /\ DueAt("alarm", t) =
              IF t < FirstTick THEN 0 ELSE (t - FirstTick) \div Period + 1
         /\ DueAt("compare", t) = IF t < 2 * Period THEN 1 ELSE t \div Period
         /\ DueAt("reload", t) = t \div Period
<1>1. "alarm" # "compare" /\ "alarm" # "reload" /\ "compare" # "reload"
  OBVIOUS
<1>2. DueAt("alarm", t) = IF t < FirstTick THEN 0 ELSE (t - FirstTick) \div Period + 1
  BY <1>1, Zenon DEF DueAt
<1>3. DueAt("compare", t) = IF t < 2 * Period THEN 1 ELSE t \div Period
  BY <1>1, Zenon DEF DueAt
<1>4. DueAt("reload", t) = t \div Period
  BY <1>1, Zenon DEF DueAt
<1> QED
  BY <1>2, <1>3, <1>4

\* What is due only grows when the next instant comes, and that is less than the counter's
\* range ahead.
Comes(c, t, n, k) ==
  /\ t < Instant(c, k) /\ Instant(c, k) - (t + 1) < Wrap
  /\ \/ n = k /\ t + 1 < Instant(c, k)
     \/ n = k + 1 /\ t + 1 = Instant(c, k)

LEMMA AlarmComes ==
  ASSUME NEW t \in Nat
  PROVE  /\ DueAt("alarm", t) \in Nat
         /\ Comes("alarm", t, DueAt("alarm", t + 1), DueAt("alarm", t))
<1>1. PICK p \in Nat \ {0}, f \in Nat \ {0}, w \in Nat \ {0} :
        p = Period /\ f = FirstTick /\ w = Wrap /\ f < w /\ p < w
  BY ClockConstants
<1>2. CASE t < f
  <2>1. DueAt("alarm", t) = 0
    BY <1>1, <1>2, DueOf
  <2>2. Instant("alarm", 0) = f
    <3>1. Span(0) = 0
      BY Spans
    <3> QED
      BY <1>1, <3>1 DEF Instant
  <2>3. t + 1 < f => DueAt("alarm", t + 1) = 0
    BY <1>1, DueOf
  <2>4. t + 1 = f => DueAt("alarm", t + 1) = 1
    <3>1. 0 \div p >= 1 <=> 1 * p <= 0
      BY Reaches
    <3>2. 0 \div p \in Nat
      BY Quotient
    <3>3. 0 \div p = 0
      BY <3>1, <3>2
    <3> QED
      BY <1>1, <3>3, DueOf
  <2>5. t + 1 < f \/ t + 1 = f
    BY <1>2
  <2> QED
    BY <1>1, <1>2, <2>1, <2>2, <2>3, <2>4, <2>5 DEF Comes
<1>3. CASE t >= f
  <2>1. PICK x \in Nat : x = t - f
    BY <1>3
  <2>2. x \div p \in Nat /\ (x + 1) \div p \in Nat
    BY Quotient
  <2>3. PICK d \in Nat, e \in Nat : d = x \div p /\ e = (x + 1) \div p
    BY <2>2
  <2>4. DueAt("alarm", t) = d + 1
    BY <1>1, <1>3, <2>1, <2>3, DueOf
  <2>5. DueAt("alarm", t + 1) = e + 1
    <3>1. ~(t + 1 < f) /\ (t + 1) - f = x + 1
      BY <1>3, <2>1
    <3> QED
      BY <1>1, <2>3, <3>1, DueOf
  <2>6. /\ d >= d <=> d * p <= x
        /\ d >= d + 1 <=> (d + 1) * p <= x
    BY <2>3, Reaches
  <2>0. x + 1 \in Nat /\ d + 1 \in Nat /\ d + 2 \in Nat
    OBVIOUS
  <2>7. /\ e >= d <=> d * p <= x + 1
        /\ e >= d + 1 <=> (d + 1) * p <= x + 1
        /\ e >= d + 2 <=> (d + 2) * p <= x + 1
    BY <2>0, <2>3, Reaches
  <2>8. /\ d * p \in Nat /\ (d + 1) * p = d * p + p /\ (d + 2) * p = d * p + p + p
    BY SMT
  <2>9. Instant("alarm", d + 1) = f + (d * p + p)
    BY <1>1, <2>8 DEF Instant, Span
  <2>10. d * p <= x /\ x < d * p + p
    BY <2>6, <2>8
  <2>11. (e = d /\ x + 1 < d * p + p) \/ (e = d + 1 /\ x + 1 = d * p + p)
    BY <2>7, <2>8, <2>10, <1>1
  <2>12. PICK y \in Nat : y = d * p
    BY <2>8
  <2> QED
    BY <1>1, <2>1, <2>4, <2>5, <2>9, <2>10, <2>11, <2>12 DEF Comes
<1> QED
  BY <1>1, <1>2, <1>3

\* Without an offset
LEMMA PeriodComes ==
  ASSUME NEW t \in Nat, NEW p \in Nat \ {0}
  PROVE  /\ t \div p \in Nat /\ (t \div p) * p \in Nat
         /\ (t \div p) * p <= t /\ t < (t \div p) * p + p
         /\ (t \div p + 1) * p = (t \div p) * p + p
         /\ \/ (t + 1) \div p = t \div p /\ t + 1 < (t \div p) * p + p
            \/ (t + 1) \div p = t \div p + 1 /\ t + 1 = (t \div p) * p + p
<1>2. t \div p \in Nat /\ (t + 1) \div p \in Nat
  BY Quotient
<1>3. PICK d \in Nat, e \in Nat : d = t \div p /\ e = (t + 1) \div p
  BY <1>2
<1>6. /\ d >= d <=> d * p <= t
      /\ d >= d + 1 <=> (d + 1) * p <= t
  BY <1>3, Reaches
<1>0. t + 1 \in Nat /\ d + 1 \in Nat /\ d + 2 \in Nat
  OBVIOUS
<1>7. /\ e >= d <=> d * p <= t + 1
      /\ e >= d + 1 <=> (d + 1) * p <= t + 1
      /\ e >= d + 2 <=> (d + 2) * p <= t + 1
  BY <1>0, <1>3, Reaches
<1>8. /\ d * p \in Nat /\ (d + 1) * p = d * p + p /\ (d + 2) * p = d * p + p + p
  BY SMT
<1>10. d * p <= t /\ t < d * p + p
  BY <1>6, <1>8
<1>11. (e = d /\ t + 1 < d * p + p) \/ (e = d + 1 /\ t + 1 = d * p + p)
  BY <1>7, <1>8, <1>10
<1> QED
  BY <1>3, <1>8, <1>10, <1>11

LEMMA ReloadComes ==
  ASSUME NEW t \in Nat
  PROVE  /\ DueAt("reload", t) \in Nat
         /\ Comes("reload", t, DueAt("reload", t + 1), DueAt("reload", t))
<1>1. PICK p \in Nat \ {0}, w \in Nat \ {0} : p = Period /\ w = Wrap /\ p < w
  BY ClockConstants
<1>2. t \div p \in Nat
  BY PeriodComes
<1>3. PICK d \in Nat : d = t \div p
  BY <1>2
<1>4. DueAt("reload", t) = d /\ DueAt("reload", t + 1) = (t + 1) \div p
  BY <1>1, <1>3, DueOf
<1>5. /\ d * p \in Nat /\ d * p <= t /\ t < d * p + p /\ (d + 1) * p = d * p + p
      /\ \/ (t + 1) \div p = d /\ t + 1 < d * p + p
         \/ (t + 1) \div p = d + 1 /\ t + 1 = d * p + p
  BY <1>3, PeriodComes
<1>6. PICK y \in Nat : y = d * p
  BY <1>5
<1>7. Instant("reload", d) = y + p
  BY <1>1, <1>5, <1>6 DEF Instant, Span
<1> QED
  BY <1>1, <1>4, <1>5, <1>6, <1>7 DEF Comes

\* The first comparison of the STM32 is met at the initialisation, so that the second
\* instant comes first.
LEMMA CompareComes ==
  ASSUME NEW t \in Nat
  PROVE  /\ DueAt("compare", t) \in Nat /\ DueAt("compare", t) >= 1
         /\ Comes("compare", t, DueAt("compare", t + 1), DueAt("compare", t))
<1>1. PICK p \in Nat \ {0}, w \in Nat \ {0} : p = Period /\ w = Wrap /\ p < w /\ 2 * p <= w
  BY ClockConstants
<1>2. t \div p \in Nat
  BY PeriodComes
<1>3. PICK d \in Nat : d = t \div p
  BY <1>2
<1>5. /\ d * p \in Nat /\ d * p <= t /\ t < d * p + p /\ (d + 1) * p = d * p + p
      /\ \/ (t + 1) \div p = d /\ t + 1 < d * p + p
         \/ (t + 1) \div p = d + 1 /\ t + 1 = d * p + p
  BY <1>3, PeriodComes
<1>6. PICK y \in Nat : y = d * p
  BY <1>5
<1>7. CASE t < 2 * p
  <2>1. DueAt("compare", t) = 1
    BY <1>1, <1>7, DueOf
  <2>2. Instant("compare", 1) = 2 * p
    BY <1>1 DEF Instant, Span
  <2>3. t + 1 < 2 * p => DueAt("compare", t + 1) = 1
    BY <1>1, DueOf
  <2>4. t + 1 = 2 * p => DueAt("compare", t + 1) = 2
    <3>1. SUFFICES ASSUME t + 1 = 2 * p PROVE (t + 1) \div p = 2
      BY <1>1, DueOf
    <3>2. 2 * p = p * 2 + 0 /\ 0 \in 0 .. p - 1 /\ 2 * p \in Nat
      OBVIOUS
    <3>3. (2 * p) \div p = 2
      BY <3>2, Only
    <3> QED
      BY <3>1, <3>3
  <2>5. t + 1 < 2 * p \/ t + 1 = 2 * p
    BY <1>7
  <2> QED
    BY <1>1, <1>7, <2>1, <2>2, <2>3, <2>4, <2>5 DEF Comes
<1>8. CASE t >= 2 * p
  <2>1. d >= 2
    BY <1>3, <1>8, Reaches
  <2>4. DueAt("compare", t) = d /\ DueAt("compare", t + 1) = (t + 1) \div p
    <3>1. ~(t < 2 * p) /\ ~(t + 1 < 2 * p)
      BY <1>8
    <3> QED
      BY <1>1, <1>3, <3>1, DueOf
  <2>7. Instant("compare", d) = y + p
    BY <1>1, <1>5, <1>6 DEF Instant, Span
  <2> QED
    BY <1>1, <1>5, <1>6, <2>1, <2>4, <2>7 DEF Comes
<1> QED
  BY <1>1, <1>7, <1>8

-----------------------------------------------------------------------------
(* The tick: every step of the clock and of the ISR                        *)

LEMMA DueIs == Due = DueAt(clock, time) /\ Due' = DueAt(clock', time')
<1>1. Due = DueAt(clock, time)
  BY Zenon DEF Due, DueAt
<1>2. Due' = DueAt(clock', time')
  BY Zenon DEF Due, DueAt
<1> QED
  BY <1>1, <1>2

LEMMA ComesAt ==
  ASSUME NEW c \in Tickers, NEW t \in Nat
  PROVE  /\ DueAt(c, t) \in Nat
         /\ c = "compare" => DueAt(c, t) >= 1
         /\ Comes(c, t, DueAt(c, t + 1), DueAt(c, t))
<1>1. CASE c = "alarm"
  BY <1>1, AlarmComes
<1>2. CASE c = "compare"
  BY <1>2, CompareComes
<1>3. CASE c = "reload"
  BY <1>3, ReloadComes
<1> QED
  BY <1>1, <1>2, <1>3 DEF Tickers

LEMMA InstantType ==
  ASSUME NEW c \in Tickers, NEW k \in Nat
  PROVE  /\ Instant(c, k) \in Nat /\ Instant(c, k + 1) = Instant(c, k) + Period
<1>1. Span(k) \in Nat /\ Span(k + 1) \in Nat /\ Span(k + 1) = Span(k) + Period
  BY Spans
<1>2. k + 1 \in Nat
  OBVIOUS
<1>3. Span((k + 1) + 1) = Span(k + 1) + Period
  BY <1>2, Spans
<1>4. FirstTick \in Nat /\ Period \in Nat
  BY ClockConstants
<1> QED
  BY <1>1, <1>3, <1>4 DEF Instant

\* The compare register meets the counter in the instant it was set for and not before.
LEMMA Meets ==
  ASSUME NEW c \in Tickers, NEW t \in Nat
  PROVE  /\ (t + 1) % Wrap \in Nat
         /\ Instant(c, DueAt(c, t)) % Wrap = (t + 1) % Wrap <=> DueAt(c, t + 1) = DueAt(c, t) + 1
         /\ DueAt(c, t + 1) \in {DueAt(c, t), DueAt(c, t) + 1}
<1>1. PICK k \in Nat, n \in Nat : k = DueAt(c, t) /\ n = DueAt(c, t + 1)
  <2>1. t + 1 \in Nat
    OBVIOUS
  <2>2. DueAt(c, t) \in Nat
    BY ComesAt
  <2>3. DueAt(c, t + 1) \in Nat
    BY <2>1, ComesAt
  <2> QED
    BY <2>2, <2>3
<1>2. PICK i \in Nat : i = Instant(c, k)
  BY InstantType
<1>3. PICK w \in Nat \ {0} : w = Wrap
  BY ClockConstants
<1>4. /\ t < i /\ i - (t + 1) < w
      /\ (n = k /\ t + 1 < i) \/ (n = k + 1 /\ t + 1 = i)
  <2>1. Comes(c, t, n, k)
    BY <1>1, ComesAt
  <2> QED
    BY <1>2, <1>3, <2>1 DEF Comes
<1>5. t + 1 \in Nat /\ t + 1 <= i
  BY <1>4
<1>6. (t + 1) % w \in Nat
  BY <1>5
<1>7. i % w = (t + 1) % w => i = t + 1
  <2>1. SUFFICES ASSUME (t + 1) % w = i % w PROVE t + 1 = i
    BY <1>5
  <2> QED
    BY <1>4, <1>5, <2>1, SameRest
<1>8. i = t + 1 => i % w = (t + 1) % w
  OBVIOUS
<1>9. i % w = (t + 1) % w <=> n = k + 1
  BY <1>4, <1>7, <1>8
<1> QED
  BY <1>1, <1>2, <1>3, <1>4, <1>6, <1>9

\* What Elapse does to a ticker
LEMMA ElapseOfTicker ==
  ASSUME Late \notin Liberties, Elapse, clock \in Tickers
  PROVE  /\ time' = time + 1 /\ clock' = clock /\ ticks' = ticks /\ isr' = isr
         /\ flag' = (flag \/ match = (time + 1) % Wrap)
         /\ match = (time + 1) % Wrap /\ clock = "alarm" => match' = Nowhere
         /\ match = (time + 1) % Wrap /\ clock = "reload" => match' = (match + Period) % Wrap
         /\ (match # (time + 1) % Wrap \/ clock = "compare") => match' = match
         /\ (flag' \/ isr # "out") =>
              ticks + (IF isr = "out" THEN 1 ELSE 0) >= DueAt(clock, time + 1)
<1>1. /\ time' = time + 1 /\ UNCHANGED <<clock, ticks, isr, job, stamp, last>>
      /\ InTime'
      /\ flag' = (flag \/ (Ticker /\ match = time' % Wrap))
      /\ match' = CASE Ticker /\ match = time' % Wrap /\ clock = "alarm"  -> Nowhere
                    [] Ticker /\ match = time' % Wrap /\ clock = "reload" -> (match + Period) % Wrap
                    [] OTHER -> match
  BY DEF Elapse
<1>2. Ticker
  BY DEF Ticker
<1>3. match = (time + 1) % Wrap /\ clock = "alarm" => match' = Nowhere
  <2>1. "alarm" # "reload"
    OBVIOUS
  <2> QED
    BY <1>1, <1>2, <2>1, Zenon
<1>4. match = (time + 1) % Wrap /\ clock = "reload" => match' = (match + Period) % Wrap
  <2>1. "alarm" # "reload"
    OBVIOUS
  <2> QED
    BY <1>1, <1>2, <2>1, Zenon
<1>5. (match # (time + 1) % Wrap \/ clock = "compare") => match' = match
  <2>1. "alarm" # "compare" /\ "reload" # "compare"
    OBVIOUS
  <2> QED
    BY <1>1, <1>2, <2>1, Zenon
<1>6. (flag' \/ isr # "out") =>
        ticks + (IF isr = "out" THEN 1 ELSE 0) >= DueAt(clock, time + 1)
  <2>1. Due' = DueAt(clock, time + 1)
    BY <1>1, DueIs
  <2>2. Ticker'
    BY <1>1, <1>2 DEF Ticker
  <2>3. (flag' \/ isr' # "out") => ticks' + (IF isr' = "out" THEN 1 ELSE 0) >= Due'
    BY <1>1, <2>2 DEF InTime
  <2> QED
    BY <1>1, <2>1, <2>3
<1>7. flag' = (flag \/ match = (time + 1) % Wrap)
  BY <1>1, <1>2
<1> QED
  BY <1>1, <1>3, <1>4, <1>5, <1>6, <1>7

LEMMA ClockTypesStep ==
  ASSUME ClockTypes, [ClockNext]_clockVars
  PROVE  ClockTypes'
<1>1. /\ Period \in Nat /\ FirstTick \in Nat /\ Wrap \in Nat \ {0} /\ Nowhere \in Int
      /\ \A x \in Int : x % Wrap \in Int /\ x \div Wrap \in Int
  BY ClockConstants DEF Nowhere
<1>2. CASE Elapse
  <2>1. match' \in {Nowhere, (match + Period) % Wrap, match}
    <3>1. match' =
            CASE Ticker /\ match = time' % Wrap /\ clock = "alarm"  -> Nowhere
              [] Ticker /\ match = time' % Wrap /\ clock = "reload" -> (match + Period) % Wrap
              [] OTHER -> match
      BY <1>2 DEF Elapse
    <3>2. "alarm" # "reload"
      OBVIOUS
    <3>3. match' = Nowhere \/ match' = (match + Period) % Wrap \/ match' = match
      BY <3>1, <3>2, Zenon
    <3> QED
      BY <3>3
  <2>2. flag' \in BOOLEAN
    BY <1>2 DEF Elapse, ClockTypes
  <2>3. time' = time + 1 /\ UNCHANGED <<clock, ticks, isr, job, stamp, last>>
    BY <1>2 DEF Elapse
  <2>4. match' \in Int
    BY <1>1, <2>1 DEF ClockTypes
  <2> QED
    BY <2>2, <2>3, <2>4 DEF ClockTypes
<1>3. CASE Enter
  BY <1>3 DEF Enter, ClockTypes
<1>4. Rearm \in Int
  <2>1. ticks \in Int /\ match \in Int
    BY DEF ClockTypes
  <2>2. (ticks - 1) * Period \in Int
    BY <1>1, <2>1
  <2>3. Rearm = (FirstTick + (ticks - 1) * Period + Period) % Wrap
        \/ Rearm = (match + Period) % Wrap \/ Rearm = match
    <3>1. "alarm" # "compare"
      OBVIOUS
    <3> QED
      BY <3>1, Zenon DEF Rearm
  <2>4. FirstTick + (ticks - 1) * Period + Period \in Int /\ match + Period \in Int
    BY <1>1, <2>1, <2>2
  <2> QED
    BY <1>1, <2>1, <2>3, <2>4
<1>5. CASE PicoClear
  BY <1>4, <1>5 DEF PicoClear, ClockTypes
<1>6. CASE StmClear
  BY <1>4, <1>6 DEF StmClear, ClockTypes
<1>7. CASE BcmClear
  BY <1>7 DEF BcmClear, ClockTypes
<1>8. ASSUME NEW r \in Readers, ReadHalves(r) PROVE ClockTypes'
  <2>1. UNCHANGED <<clock, time, match, flag, ticks, isr, stamp, last>>
    BY <1>8 DEF ReadHalves, Goes, Returns
  <2>2. PICK j \in JobType : j = job[r]
    BY DEF ClockTypes
  <2>3. time \in Int /\ High \in Int /\ Low \in Int /\ j.again * Wrap + j.low \in Int
    BY <1>1, <2>2 DEF ClockTypes, High, Low, JobType
  <2>4. \E n \in JobType : job' = [job EXCEPT ![r] = n]
    <3>1. CASE Goes(r, "out", [job[r] EXCEPT !.at = "low", !.high = High, !.begun = time])
      BY <2>2, <2>3, <3>1 DEF Goes, JobType
    <3>2. CASE Goes(r, "low", [job[r] EXCEPT !.at = "again", !.low = Low])
      BY <2>2, <2>3, <3>2 DEF Goes, JobType
    <3>3. CASE Goes(r, "again", [job[r] EXCEPT !.at = "compare", !.again = High])
      BY <2>2, <2>3, <3>3 DEF Goes, JobType
    <3>4. CASE Returns(r, "compare", job[r].again * Wrap + job[r].low)
      BY <1>1, <2>2, <2>3, <3>4 DEF Returns, Resting, JobType
    <3>5. CASE Goes(r, "compare", [job[r] EXCEPT !.at = "low", !.high = job[r].again])
      BY <2>2, <2>3, <3>5 DEF Goes, JobType
    <3> QED
      BY <1>8, <3>1, <3>2, <3>3, <3>4, <3>5 DEF ReadHalves
  <2>5. job' \in [Readers -> JobType]
    BY <2>4 DEF ClockTypes
  <2> QED
    BY <2>1, <2>5 DEF ClockTypes
<1>9. ASSUME NEW r \in Readers, ReadExtended(r) PROVE ClockTypes'
  <2>1. UNCHANGED <<clock, time, match, flag, ticks, isr>>
    BY <1>9 DEF ReadExtended, Goes, Returns
  <2>2. PICK j \in JobType : j = job[r]
    BY DEF ClockTypes
  <2>3. /\ time \in Int /\ Low \in Int /\ stamp \in Int /\ last \in Int
        /\ (j.low - last + Wrap) % Wrap \in Int /\ j.again + j.high \in Int
    BY <1>1, <2>2 DEF ClockTypes, Low, JobType
  <2>4. /\ \E n \in JobType : job' = [job EXCEPT ![r] = n]
        /\ stamp' \in Int /\ last' \in Int
    <3>1. CASE /\ Goes(r, "out", [job[r] EXCEPT !.at = "difference", !.low = Low, !.begun = time])
               /\ UNCHANGED <<stamp, last>>
      BY <2>2, <2>3, <3>1 DEF Goes, JobType
    <3>2. CASE /\ Goes(r, "difference",
                       [job[r] EXCEPT !.at = "sum", !.again = stamp,
                                      !.high = (job[r].low - last + Wrap) % Wrap])
               /\ UNCHANGED <<stamp, last>>
      BY <2>2, <2>3, <3>2 DEF Goes, JobType
    <3>3. CASE /\ Goes(r, "sum", [job[r] EXCEPT !.at = "last"])
               /\ stamp' = job[r].again + job[r].high /\ last' = last
      BY <2>2, <2>3, <3>3 DEF Goes, JobType
    <3>4. CASE /\ Returns(r, "last", stamp)
               /\ last' = job[r].low /\ stamp' = stamp
      BY <1>1, <2>2, <2>3, <3>4 DEF Returns, Resting, JobType
    <3> QED
      BY <1>9, <3>1, <3>2, <3>3, <3>4 DEF ReadExtended
  <2>5. job' \in [Readers -> JobType]
    BY <2>4 DEF ClockTypes
  <2> QED
    BY <2>1, <2>4, <2>5 DEF ClockTypes
<1>10. CASE UNCHANGED clockVars
  BY <1>10 DEF ClockTypes, clockVars
<1> QED
  BY <1>2, <1>3, <1>5, <1>6, <1>7, <1>8, <1>9, <1>10 DEF ClockNext, Stop

LEMMA CountedElapse ==
  ASSUME Late \notin Liberties, TickInv, Elapse
  PROVE  Counted'
<1> SUFFICES ASSUME Ticker' PROVE Counted'
  BY DEF Counted
<1>0. clock' = clock
  BY DEF Elapse
<1>1. clock \in Tickers
  BY <1>0 DEF Ticker
<1>2. time \in Nat /\ ticks \in Nat /\ flag \in BOOLEAN /\ Ticker
  BY <1>1 DEF TickInv, ClockTypes, Ticker
<1>3. PICK d \in Nat, n \in Nat : d = DueAt(clock, time) /\ n = DueAt(clock, time + 1)
  <2>1. DueAt(clock, time) \in Nat
    BY <1>1, <1>2, ComesAt
  <2>2. time + 1 \in Nat
    BY <1>2
  <2>3. DueAt(clock, time + 1) \in Nat
    BY <1>1, <2>2, ComesAt
  <2> QED
    BY <2>1, <2>3
<1>4. PICK x \in Nat : x = (time + 1) % Wrap
  BY <1>1, <1>2, Meets
<1>5. /\ Instant(clock, d) % Wrap = x <=> n = d + 1
      /\ n = d \/ n = d + 1
  BY <1>1, <1>2, <1>3, <1>4, Meets
<1>6. /\ time' = time + 1 /\ clock' = clock /\ ticks' = ticks /\ isr' = isr
      /\ flag' = (flag \/ match = x)
      /\ (flag' \/ isr # "out") => ticks + (IF isr = "out" THEN 1 ELSE 0) >= n
  BY <1>1, <1>3, <1>4, ElapseOfTicker
<1>7. /\ isr = "out" => ticks + (IF flag THEN 1 ELSE 0) = d
      /\ isr # "out" => ticks = d /\ ticks >= 1
  BY <1>2, <1>3 DEF TickInv, Counted
<1>8. CASE isr # "out"
  <2>1. n = d
    BY <1>2, <1>5, <1>6, <1>7, <1>8
  <2> QED
    BY <1>3, <1>6, <1>7, <1>8, <2>1 DEF Counted
<1>9. CASE isr = "out" /\ flag
  <2>1. n = d
    <3>1. flag'
      BY <1>6, <1>9
    <3>2. ticks + 1 >= n
      BY <1>6, <1>9, <3>1
    <3>3. ticks + 1 = d
      BY <1>7, <1>9
    <3> QED
      BY <1>2, <1>5, <3>2, <3>3
  <2>2. flag'
    BY <1>6, <1>9
  <2> QED
    BY <1>3, <1>6, <1>7, <1>9, <2>1, <2>2 DEF Counted
<1>10. CASE isr = "out" /\ ~flag
  <2>1. ticks = d
    BY <1>2, <1>7, <1>10
  <2>2. match = Instant(clock, d) % Wrap
    <3>1. CASE clock = "alarm"
      BY <1>10, <2>1, <3>1 DEF TickInv, AlarmArmed
    <3>2. CASE clock = "compare"
      BY <1>10, <2>1, <3>2 DEF TickInv, CompareArmed, Instant
    <3>3. CASE clock = "reload"
      BY <1>3, <1>10, <2>1, <3>3 DEF TickInv, ReloadArmed
    <3> QED
      BY <1>1, <3>1, <3>2, <3>3 DEF Tickers
  <2>3. flag' <=> n = d + 1
    BY <1>5, <1>6, <1>10, <2>2
  <2>4. ticks + (IF flag' THEN 1 ELSE 0) = n
    BY <1>5, <2>1, <2>3
  <2> QED
    BY <1>3, <1>6, <1>10, <2>4 DEF Counted
<1> QED
  BY <1>2, <1>8, <1>9, <1>10

LEMMA ArmedElapse ==
  ASSUME Late \notin Liberties, TickInv, Elapse
  PROVE  AlarmArmed' /\ CompareArmed' /\ ReloadArmed'
<1>0. clock' = clock
  BY DEF Elapse
<1> SUFFICES ASSUME clock \in Tickers PROVE AlarmArmed' /\ CompareArmed' /\ ReloadArmed'
  BY <1>0 DEF AlarmArmed, CompareArmed, ReloadArmed, Tickers
<1>2. time \in Nat /\ ticks \in Nat /\ flag \in BOOLEAN
  BY DEF TickInv, ClockTypes
<1>3. DueAt(clock, time) \in Nat
  BY <1>2, ComesAt
<1>4. PICK x \in Nat : x = (time + 1) % Wrap
  BY <1>2, Meets
<1>6. /\ time' = time + 1 /\ clock' = clock /\ ticks' = ticks /\ isr' = isr
      /\ flag' = (flag \/ match = x)
  BY <1>4, ElapseOfTicker
<1>7. /\ match = x /\ clock = "alarm" => match' = Nowhere
      /\ match = x /\ clock = "reload" => match' = (match + Period) % Wrap
      /\ (match # x \/ clock = "compare") => match' = match
  BY <1>4, ElapseOfTicker
<1>8. Nowhere # x
  BY <1>4 DEF Nowhere
<1>9. AlarmArmed'
  <2>1. SUFFICES ASSUME clock = "alarm" PROVE AlarmArmed'
    BY <1>0 DEF AlarmArmed
  <2>2. /\ isr = "in" => flag
        /\ isr = "half" => ~flag
        /\ match = IF isr = "out" /\ ~flag THEN Instant("alarm", ticks) % Wrap ELSE Nowhere
    BY <2>1 DEF TickInv, AlarmArmed
  <2>3. CASE match = x
    <3>1. isr = "out" /\ ~flag
      BY <1>8, <2>2, <2>3
    <3> QED
      BY <1>6, <1>7, <2>1, <2>3, <3>1 DEF AlarmArmed
  <2>4. CASE match # x
    <3>1. match' = match
      BY <1>7, <2>4
    <3>2. flag' <=> flag
      BY <1>2, <1>6, <2>4
    <3> QED
      BY <1>6, <2>2, <3>1, <3>2 DEF AlarmArmed
  <2> QED
    BY <2>3, <2>4
<1>10. CompareArmed'
  <2>1. SUFFICES ASSUME clock = "compare" PROVE CompareArmed'
    BY <1>0 DEF CompareArmed
  <2>2. match' = match
    BY <1>7, <2>1
  <2>3. isr # "out" => flag'
    BY <1>6, <2>1 DEF TickInv, CompareArmed
  <2>4. match = (IF isr = "in" THEN Span(ticks) ELSE Span(ticks + 1)) % Wrap
    BY <2>1 DEF TickInv, CompareArmed
  <2> QED
    BY <1>6, <2>2, <2>3, <2>4 DEF CompareArmed
<1>11. ReloadArmed'
  <2>1. SUFFICES ASSUME clock = "reload" PROVE ReloadArmed'
    BY <1>0 DEF ReloadArmed
  <2>2. PICK d \in Nat : d = DueAt("reload", time)
    BY <1>3, <2>1
  <2>3. isr # "half" /\ (isr = "in" => flag) /\ match = Instant("reload", d) % Wrap
    BY <2>1, <2>2 DEF TickInv, ReloadArmed
  <2>4. isr' # "half" /\ (isr' = "in" => flag')
    BY <1>6, <2>3
  <2>5. /\ match = x <=> DueAt("reload", time + 1) = d + 1
        /\ DueAt("reload", time + 1) \in {d, d + 1}
    BY <1>2, <1>4, <2>1, <2>2, <2>3, Meets
  <2>6. match' = Instant("reload", DueAt("reload", time + 1)) % Wrap
    <3>1. CASE match # x
      BY <1>7, <2>3, <2>5, <3>1
    <3>2. CASE match = x
      <4>1. PICK i \in Nat, p \in Nat, w \in Nat \ {0} :
              i = Instant("reload", d) /\ p = Period /\ w = Wrap
        BY <2>1, InstantType, ClockConstants
      <4>2. ((i % w) + p) % w = (i + p) % w
        BY RestOfSum
      <4>3. Instant("reload", d + 1) = i + p
        BY <2>1, <4>1, InstantType
      <4> QED
        BY <1>7, <2>1, <2>3, <2>5, <3>2, <4>1, <4>2, <4>3
    <3> QED
      BY <3>1, <3>2
  <2> QED
    BY <1>6, <2>1, <2>4, <2>6 DEF ReloadArmed
<1> QED
  BY <1>9, <1>10, <1>11

LEMMA RearmRight ==
  ASSUME TickInv, isr # "out"
  PROVE  /\ clock = "alarm" => Rearm = Instant("alarm", ticks) % Wrap
         /\ clock = "compare" /\ isr = "in" => Rearm = Span(ticks + 1) % Wrap
<1>1. ticks \in Nat
  BY DEF TickInv, ClockTypes
<1>2. PICK p \in Nat, f \in Nat, w \in Nat \ {0} : p = Period /\ f = FirstTick /\ w = Wrap
  BY ClockConstants
<1>3. ASSUME clock = "alarm" PROVE Rearm = Instant("alarm", ticks) % Wrap
  <2>1. Rearm = (FirstTick + (ticks - 1) * Period + Period) % Wrap
    BY <1>3, Zenon DEF Rearm
  <2>2. (ticks - 1) * p = ticks * p - p /\ ticks * p \in Int
    BY <1>1, SMT
  <2>3. FirstTick + (ticks - 1) * Period + Period = FirstTick + Span(ticks)
    BY <1>2, <2>2 DEF Span
  <2> QED
    BY <2>1, <2>3 DEF Instant
<1>4. ASSUME clock = "compare", isr = "in" PROVE Rearm = Span(ticks + 1) % Wrap
  <2>1. Rearm = (match + Period) % Wrap
    <3>1. "alarm" # "compare"
      OBVIOUS
    <3> QED
      BY <1>4, <3>1, Zenon DEF Rearm
  <2>2. match = Span(ticks) % Wrap
    BY <1>4 DEF TickInv, CompareArmed
  <2>3. PICK s \in Nat : s = Span(ticks)
    BY <1>1, Spans
  <2>4. Span(ticks + 1) = s + p
    BY <1>1, <1>2, <2>3, Spans
  <2>5. ((s % w) + p) % w = (s + p) % w
    BY RestOfSum
  <2> QED
    BY <1>2, <2>1, <2>2, <2>3, <2>4, <2>5
<1> QED
  BY <1>3, <1>4

LEMMA TickStep ==
  ASSUME Late \notin Liberties, TickInv, [ClockNext]_clockVars
  PROVE  TickInv'
<1>1. ClockTypes'
  BY ClockTypesStep DEF TickInv
<1>2. CASE Elapse
  BY <1>1, <1>2, CountedElapse, ArmedElapse DEF TickInv
<1>t. ticks \in Nat /\ flag \in BOOLEAN
  BY DEF TickInv, ClockTypes
<1>3. CASE Enter
  <2>1. /\ Ticker /\ flag /\ isr = "out" /\ isr' = "in" /\ ticks' = ticks + 1
        /\ UNCHANGED <<clock, time, match, flag>>
    BY <1>3 DEF Enter
  <2>2. Counted'
    BY <1>t, <2>1 DEF TickInv, Counted, Ticker
  <2>3. AlarmArmed' /\ CompareArmed' /\ ReloadArmed'
    BY <1>t, <2>1 DEF TickInv, AlarmArmed, CompareArmed, ReloadArmed
  <2> QED
    BY <1>1, <2>2, <2>3 DEF TickInv
<1>4. CASE PicoClear
  <2>1. /\ clock = "alarm" /\ isr # "out"
        /\ isr = "in" => isr' = "half" /\ flag' = FALSE /\ match' = match
        /\ isr # "in" => isr' = "out" /\ match' = Rearm /\ flag' = flag
        /\ UNCHANGED <<clock, time, ticks>>
    BY <1>4 DEF PicoClear
  <2>2. Ticker /\ ticks = DueAt(clock, time) /\ ticks >= 1
    BY <2>1 DEF TickInv, Counted, Ticker, Tickers
  <2>3. isr # "in" => ~flag
    BY <1>1, <2>1 DEF TickInv, ClockTypes, AlarmArmed
  <2>4. Counted'
    BY <1>t, <2>1, <2>2, <2>3 DEF Counted, Ticker
  <2>5. AlarmArmed'
    BY <2>1, <2>3, RearmRight DEF TickInv, AlarmArmed
  <2>6. CompareArmed' /\ ReloadArmed'
    BY <2>1 DEF CompareArmed, ReloadArmed
  <2> QED
    BY <1>1, <2>4, <2>5, <2>6 DEF TickInv
<1>5. CASE StmClear
  <2>1. /\ clock = "compare" /\ isr # "out"
        /\ isr = "in" => isr' = "half" /\ match' = Rearm /\ flag' = flag
        /\ isr # "in" => isr' = "out" /\ flag' = FALSE /\ match' = match
        /\ UNCHANGED <<clock, time, ticks>>
    BY <1>5 DEF StmClear
  <2>2. Ticker /\ ticks = DueAt(clock, time) /\ ticks >= 1
    BY <2>1 DEF TickInv, Counted, Ticker, Tickers
  <2>4. Counted'
    BY <1>t, <2>1, <2>2 DEF Counted, Ticker
  <2>5. CompareArmed'
    <3>1. flag /\ match = (IF isr = "in" THEN Span(ticks) ELSE Span(ticks + 1)) % Wrap
      BY <2>1 DEF TickInv, CompareArmed
    <3>2. CASE isr = "in"
      <4>1. Rearm = Span(ticks + 1) % Wrap
        BY <2>1, <3>2, RearmRight
      <4> QED
        BY <2>1, <3>1, <3>2, <4>1 DEF CompareArmed
    <3>3. CASE isr # "in"
      BY <2>1, <3>1, <3>3 DEF CompareArmed
    <3> QED
      BY <3>2, <3>3
  <2>6. AlarmArmed' /\ ReloadArmed'
    BY <2>1 DEF AlarmArmed, ReloadArmed
  <2> QED
    BY <1>1, <2>4, <2>5, <2>6 DEF TickInv
<1>6. CASE BcmClear
  <2>1. /\ clock = "reload" /\ isr = "in" /\ isr' = "out" /\ flag' = FALSE
        /\ UNCHANGED <<clock, time, match, ticks>>
    BY <1>6 DEF BcmClear
  <2>2. Ticker /\ ticks = DueAt(clock, time) /\ ticks >= 1
    BY <2>1 DEF TickInv, Counted, Ticker, Tickers
  <2>4. Counted'
    BY <1>t, <2>1, <2>2 DEF Counted, Ticker
  <2>5. ReloadArmed'
    BY <2>1 DEF TickInv, ReloadArmed
  <2>6. AlarmArmed' /\ CompareArmed'
    BY <2>1 DEF AlarmArmed, CompareArmed
  <2> QED
    BY <1>1, <2>4, <2>5, <2>6 DEF TickInv
<1>7. CASE UNCHANGED <<clock, time, match, flag, ticks, isr>>
  BY <1>1, <1>7 DEF TickInv, Counted, AlarmArmed, CompareArmed, ReloadArmed, Ticker
<1>8. ASSUME NEW r \in Readers, ReadHalves(r) \/ ReadExtended(r)
      PROVE  UNCHANGED <<clock, time, match, flag, ticks, isr>>
  BY <1>8 DEF ReadHalves, ReadExtended, Goes, Returns
<1>9. CASE UNCHANGED clockVars
  BY <1>7, <1>9 DEF clockVars
<1> QED
  BY <1>2, <1>3, <1>4, <1>5, <1>6, <1>7, <1>8, <1>9 DEF ClockNext, Stop

LEMMA TickInit ==
  ASSUME ClockInit
  PROVE  TickInv
<1>1. /\ clock \in Tickers \cup Reads
      /\ time = 0 /\ ticks = 0 /\ isr = "out" /\ stamp = 0 /\ last = 0
      /\ flag \in BOOLEAN /\ match \in {Nowhere, FirstTick, Period}
      /\ job = [r \in Readers |-> Resting(0)]
  BY DEF ClockInit
<1>2. PICK p \in Nat \ {0}, f \in Nat \ {0}, w \in Nat \ {0} :
        p = Period /\ f = FirstTick /\ w = Wrap /\ f < w /\ p < w
  BY ClockConstants
<1>3. ClockTypes
  BY <1>1, <1>2 DEF ClockTypes, JobType, Resting, Nowhere
<1>4. Span(0) = 0 /\ Span(1) = p /\ 0 + 1 = 1
  BY <1>2, Spans
<1>5. f % w = f /\ p % w = p
  BY <1>2
<1>6. 0 \div p = 0
  <2>1. 0 = p * 0 + 0 /\ 0 \in 0 .. p - 1
    OBVIOUS
  <2> QED
    BY <2>1, Only
<1>7. CASE clock = "alarm"
  <2>1. PicoTicker
    BY <1>7, Zenon DEF ClockInit
  <2>2. match = f /\ ~flag
    BY <1>2, <2>1 DEF PicoTicker
  <2>3. DueAt("alarm", 0) = 0
    BY <1>2, DueOf
  <2>4. Instant("alarm", 0) = f
    BY <1>2, <1>4 DEF Instant
  <2>5. Counted
    BY <1>1, <1>7, <2>2, <2>3 DEF Counted
  <2>6. AlarmArmed
    BY <1>1, <1>2, <1>5, <1>7, <2>2, <2>4 DEF AlarmArmed
  <2>7. CompareArmed /\ ReloadArmed
    BY <1>7 DEF CompareArmed, ReloadArmed
  <2> QED
    BY <1>3, <2>5, <2>6, <2>7 DEF TickInv
<1>8. CASE clock = "compare"
  <2>1. StmTicker
    <3>1. "alarm" # "compare"
      OBVIOUS
    <3> QED
      BY <1>8, <3>1, Zenon DEF ClockInit
  <2>2. match = p /\ flag
    BY <1>2, <2>1 DEF StmTicker
  <2>3. DueAt("compare", 0) = 1
    <3>1. 0 < 2 * p
      OBVIOUS
    <3> QED
      BY <1>2, <3>1, DueOf
  <2>5. Counted
    BY <1>1, <1>8, <2>2, <2>3 DEF Counted
  <2>6. CompareArmed
    BY <1>1, <1>2, <1>4, <1>5, <1>8, <2>2 DEF CompareArmed
  <2>7. AlarmArmed /\ ReloadArmed
    BY <1>8 DEF AlarmArmed, ReloadArmed
  <2> QED
    BY <1>3, <2>5, <2>6, <2>7 DEF TickInv
<1>9. CASE clock = "reload"
  <2>1. BcmTicker
    <3>1. "alarm" # "reload" /\ "compare" # "reload"
      OBVIOUS
    <3> QED
      BY <1>9, <3>1, Zenon DEF ClockInit
  <2>2. match = p /\ ~flag
    BY <1>2, <2>1 DEF BcmTicker
  <2>3. DueAt("reload", 0) = 0
    BY <1>2, <1>6, DueOf
  <2>4. Instant("reload", 0) = p
    BY <1>4 DEF Instant
  <2>5. Counted
    BY <1>1, <1>9, <2>2, <2>3 DEF Counted
  <2>6. ReloadArmed
    BY <1>1, <1>2, <1>5, <1>9, <2>2, <2>3, <2>4 DEF ReloadArmed
  <2>7. AlarmArmed /\ CompareArmed
    BY <1>9 DEF AlarmArmed, CompareArmed
  <2> QED
    BY <1>3, <2>5, <2>6, <2>7 DEF TickInv
<1>10. CASE clock \notin Tickers
  BY <1>3, <1>10 DEF TickInv, Counted, AlarmArmed, CompareArmed, ReloadArmed, Ticker, Tickers
<1> QED
  BY <1>7, <1>8, <1>9, <1>10 DEF Tickers

\* The tick neither stalls nor drifts (hw_ClearTimer(), hw_InitialiseMillisecondTicker()), for
\* every period, every first alarm and every width of the counter from two periods on, as
\* long as an interrupt is served before the next one is due.
THEOREM TickNeverLost ==
  ASSUME Late \notin Liberties
  PROVE  ClockSpec => []TicksRight
<1>1. ClockInit => TickInv
  BY TickInit
<1>2. TickInv /\ [ClockNext]_clockVars => TickInv'
  BY TickStep
<1>3. TickInv => TicksRight
  <2>1. SUFFICES ASSUME TickInv, Ticker, isr = "out"
                 PROVE  ticks + (IF flag THEN 1 ELSE 0) = Due
    BY DEF TicksRight
  <2>2. ticks + (IF flag THEN 1 ELSE 0) = DueAt(clock, time)
    BY <2>1 DEF TickInv, Counted
  <2> QED
    BY <2>2, DueIs
<1> QED
  BY <1>1, <1>2, <1>3, PTL DEF ClockSpec

-----------------------------------------------------------------------------
(* The readings: the moments whose halves have been read                   *)

\* A reader of the halves that began at j.begun, at the time t
HalvesOf(j, t) ==
  /\ j.at \in {"out", "low", "again", "compare"} /\ j.begun \in 0 .. t
  /\ j.at = "low" => \E a \in j.begun .. t : j.high = a \div Wrap
  /\ j.at = "again" =>
       \E a \in j.begun .. t : \E b \in a .. t : j.high = a \div Wrap /\ j.low = b % Wrap
  /\ j.at = "compare" =>
       \E a \in j.begun .. t : \E b \in a .. t : \E c \in b .. t :
         j.high = a \div Wrap /\ j.low = b % Wrap /\ j.again = c \div Wrap

\* The sum of the differences was right at the last reading, which was less than the
\* counter's range ago; the reader under way has read the counter when it began.
Summed(s, l, t) == s \in 0 .. t /\ t < s + Wrap /\ l = s % Wrap
UnderWay(j, s, l, t) ==
  /\ j.at \in {"difference", "sum", "last"}
  /\ j.begun \in 0 .. t /\ t < j.begun + Wrap /\ j.low = j.begun % Wrap
  /\ j.at = "difference" => Summed(s, l, j.begun)
  /\ j.at = "sum" => j.again + j.high = j.begun
  /\ j.at = "last" => s = j.begun

HalvesRead == clock = "halves" => \A r \in Readers : HalvesOf(job[r], time)
ExtendedRead ==
  clock = "extended" =>
    /\ \A r \in Readers : job[r].begun \in 0 .. time
    /\ (\A r \in Readers : job[r].at = "out") =>
         /\ Summed(stamp, last, time)
         /\ \A r \in Readers : job[r].begun <= stamp
    /\ \A r \in Readers : job[r].at # "out" =>
         /\ UnderWay(job[r], stamp, last, time)
         /\ \A o \in Readers : job[o].begun <= job[r].begun
         /\ \A o \in Readers \ {r} : job[o].at = "out"
ReadInv ==
  /\ ClockTypes /\ ReadingsRight /\ HalvesRead /\ ExtendedRead
  /\ Ticker => \A r \in Readers : job[r].at = "out"

\* The two upper halves agree: so does that of the moment between them whose lower half
\* was read.
LEMMA HalvesAgree ==
  ASSUME NEW w \in Nat \ {0}, NEW a \in Nat, NEW b \in Nat, NEW c \in Nat,
         a <= b, b <= c, a \div w = c \div w
  PROVE  (c \div w) * w + (b % w) = b
<1>1. PICK h \in Nat : h = a \div w
  BY Quotient
<1>2. b \div w \in Nat /\ b % w \in 0 .. w - 1 /\ b = w * (b \div w) + (b % w)
  BY Quotient
<1>3. PICK d \in Nat, s \in 0 .. w - 1 : d = b \div w /\ s = b % w /\ b = w * d + s
  BY <1>2
<1>4. h * w \in Nat /\ d * w \in Nat /\ w * d = d * w
  BY SMT
<1>5. h * w <= a
  <2>1. a \div w >= h
    BY <1>1
  <2> QED
    BY <2>1, Reaches
<1>6. d >= h
  <2>1. h * w <= b
    BY <1>4, <1>5
  <2> QED
    BY <1>3, <2>1, Reaches
<1>7. h >= d
  <2>1. d * w <= c
    BY <1>3, <1>4
  <2>2. c \div w >= d
    BY <2>1, Reaches
  <2> QED
    BY <1>1, <2>2
<1>8. h = d
  BY <1>6, <1>7
<1> QED
  BY <1>1, <1>3, <1>4, <1>8

\* A difference in the width of the counter
LEMMA DifferenceOf ==
  ASSUME NEW w \in Nat \ {0}, NEW s \in Nat, NEW b \in Nat, s <= b, b < s + w
  PROVE  ((b % w) - (s % w) + w) % w = b - s
<1>1. b \div w \in Nat /\ b % w \in 0 .. w - 1 /\ b = w * (b \div w) + (b % w)
  BY Quotient
<1>2. s \div w \in Nat /\ s % w \in 0 .. w - 1 /\ s = w * (s \div w) + (s % w)
  BY Quotient
<1>3. PICK d \in Nat, u \in 0 .. w - 1 : d = s \div w /\ u = s % w /\ s = w * d + u
  BY <1>2
<1>4. PICK e \in Nat, v \in 0 .. w - 1 : e = b \div w /\ v = b % w /\ b = w * e + v
  BY <1>1
<1>5. w * d \in Int /\ w * e \in Int
  OBVIOUS
<1>6. e < d => w * e + w <= w * d
  BY Multiples
<1>7. e \in Int /\ d + 1 \in Int /\ w * (d + 1) = w * d + w
  BY SMT
<1>8. d + 1 < e => w * (d + 1) + w <= w * e
  BY <1>7, Multiples
<1>9. e = d \/ e = d + 1
  BY <1>3, <1>4, <1>5, <1>6, <1>7, <1>8
<1>10. PICK y \in Nat : y = v - u + w
  OBVIOUS
<1>11. PICK x \in 0 .. w - 1 : x = b - s
  OBVIOUS
<1>12. y = w * 1 + x \/ y = w * 0 + x
  BY <1>3, <1>4, <1>5, <1>7, <1>9, <1>10, <1>11
<1>13. y % w = x
  BY <1>12, Only
<1> QED
  BY <1>3, <1>4, <1>10, <1>11, <1>13

LEMMA HalvesLater ==
  ASSUME NEW j \in JobType, NEW t \in Nat, HalvesOf(j, t)
  PROVE  HalvesOf(j, t + 1)
<1>1. PICK b0 \in Int : b0 = j.begun
  BY DEF JobType
<1>2. \A x \in Int : x .. t \subseteq x .. t + 1
  OBVIOUS
<1> QED
  BY <1>1, <1>2 DEF HalvesOf

LEMMA HalvesLow ==
  ASSUME NEW j \in JobType, NEW t \in Nat, HalvesOf(j, t), j.at = "low", NEW x, x = t % Wrap
  PROVE  HalvesOf([j EXCEPT !.at = "again", !.low = x], t)
<1>1. PICK b0 \in 0 .. t : b0 = j.begun
  BY DEF HalvesOf
<1>2. PICK a \in b0 .. t : j.high = a \div Wrap
  BY <1>1 DEF HalvesOf
<1>3. t \in a .. t
  BY <1>1, <1>2
<1>4. PICK k : k = [j EXCEPT !.at = "again", !.low = x]
  OBVIOUS
<1>5. k.at = "again" /\ k.low = t % Wrap /\ k.high = a \div Wrap /\ k.begun = b0
  BY <1>1, <1>2, <1>4 DEF JobType
<1>6. HalvesOf(k, t)
  BY <1>1, <1>2, <1>3, <1>5 DEF HalvesOf
<1> QED
  BY <1>4, <1>6

LEMMA HalvesAgain ==
  ASSUME NEW j \in JobType, NEW t \in Nat, HalvesOf(j, t), j.at = "again", NEW x, x = t \div Wrap
  PROVE  HalvesOf([j EXCEPT !.at = "compare", !.again = x], t)
<1>1. PICK b0 \in 0 .. t : b0 = j.begun
  BY DEF HalvesOf
<1>2. PICK a \in b0 .. t : \E b \in a .. t : j.high = a \div Wrap /\ j.low = b % Wrap
  BY <1>1 DEF HalvesOf
<1>3. PICK b \in a .. t : j.high = a \div Wrap /\ j.low = b % Wrap
  BY <1>2
<1>4. t \in b .. t
  BY <1>1, <1>2, <1>3
<1>5. PICK k : k = [j EXCEPT !.at = "compare", !.again = x]
  OBVIOUS
<1>6. /\ k.at = "compare" /\ k.low = b % Wrap /\ k.high = a \div Wrap
      /\ k.again = t \div Wrap /\ k.begun = b0
  BY <1>1, <1>3, <1>5 DEF JobType
<1>7. \E c \in b .. t : k.high = a \div Wrap /\ k.low = b % Wrap /\ k.again = c \div Wrap
  BY <1>4, <1>6
<1>8. HalvesOf(k, t)
  BY <1>1, <1>2, <1>3, <1>6, <1>7 DEF HalvesOf
<1> QED
  BY <1>5, <1>8

LEMMA HalvesCompared ==
  ASSUME NEW j \in JobType, NEW t \in Nat, HalvesOf(j, t), j.at = "compare"
  PROVE  /\ HalvesOf([j EXCEPT !.at = "low", !.high = j.again], t)
         /\ j.high = j.again => j.again * Wrap + j.low \in j.begun .. t
<1>1. PICK b0 \in 0 .. t : b0 = j.begun
  BY DEF HalvesOf
<1>2. PICK a \in b0 .. t : \E b \in a .. t : \E c \in b .. t :
        j.high = a \div Wrap /\ j.low = b % Wrap /\ j.again = c \div Wrap
  BY <1>1 DEF HalvesOf
<1>3. PICK b \in a .. t : \E c \in b .. t :
        j.high = a \div Wrap /\ j.low = b % Wrap /\ j.again = c \div Wrap
  BY <1>2
<1>4. PICK c \in b .. t : j.high = a \div Wrap /\ j.low = b % Wrap /\ j.again = c \div Wrap
  BY <1>3
<1>5. PICK w \in Nat \ {0} : w = Wrap
  BY ClockConstants
<1>6. a \in Nat /\ b \in Nat /\ c \in Nat /\ a <= b /\ b <= c /\ c \in b0 .. t /\ b \in b0 .. t
  BY <1>1, <1>2, <1>3, <1>4
<1>7. HalvesOf([j EXCEPT !.at = "low", !.high = j.again], t)
  <2>1. PICK k : k = [j EXCEPT !.at = "low", !.high = j.again]
    OBVIOUS
  <2>2. k.at = "low" /\ k.high = c \div Wrap /\ k.begun = b0
    BY <1>1, <1>4, <2>1 DEF JobType
  <2>3. HalvesOf(k, t)
    BY <1>1, <1>6, <2>2 DEF HalvesOf
  <2> QED
    BY <2>1, <2>3
<1>8. ASSUME j.high = j.again PROVE j.again * Wrap + j.low \in j.begun .. t
  <2>1. a \div w = c \div w
    BY <1>4, <1>5, <1>8
  <2>2. (c \div w) * w + (b % w) = b
    BY <1>6, <2>1, HalvesAgree
  <2> QED
    BY <1>1, <1>4, <1>5, <1>6, <2>2
<1> QED
  BY <1>7, <1>8

LEMMA ReadElapse ==
  ASSUME ReadInv, Elapse
  PROVE  ReadInv'
<1>1. ClockTypes'
  BY ClockTypesStep DEF ReadInv, ClockNext
<1>2. /\ time' = time + 1 /\ clock' = clock /\ job' = job /\ stamp' = stamp /\ last' = last
      /\ clock = "extended" => OftenEnough'
  BY DEF Elapse
<1>3. /\ time \in Nat /\ Wrap \in Nat \ {0}
      /\ \A r \in Readers : job[r] \in JobType
      /\ \A r \in Readers : job[r].begun \in Int /\ job[r].got \in Int
  BY ClockConstants DEF ReadInv, ClockTypes, JobType
<1>4. ReadingsRight'
  BY <1>2, <1>3 DEF ReadInv, ReadingsRight
<1>5. HalvesRead'
  <2>1. SUFFICES ASSUME clock = "halves", NEW r \in Readers PROVE HalvesOf(job[r], time + 1)
    BY <1>2 DEF HalvesRead
  <2>2. HalvesOf(job[r], time)
    BY <2>1 DEF ReadInv, HalvesRead
  <2> QED
    BY <1>3, <2>2, HalvesLater
<1>6. ExtendedRead'
  <2>1. SUFFICES ASSUME clock = "extended" PROVE ExtendedRead'
    BY <1>2 DEF ExtendedRead
  <2>2. PICK q \in Readers : time + 1 < job[q].begun + Wrap
    BY <1>2, <2>1 DEF OftenEnough
  <2>3. \A r \in Readers : job[r].begun \in 0 .. time + 1
    BY <1>3, <2>1 DEF ReadInv, ExtendedRead
  <2>4. ASSUME \A r \in Readers : job[r].at = "out"
        PROVE  Summed(stamp, last, time + 1) /\ \A r \in Readers : job[r].begun <= stamp
    <3>1. Summed(stamp, last, time) /\ \A r \in Readers : job[r].begun <= stamp
      BY <2>1, <2>4 DEF ReadInv, ExtendedRead
    <3> QED
      BY <1>3, <2>2, <3>1 DEF Summed
  <2>5. ASSUME NEW r \in Readers, job[r].at # "out"
        PROVE  /\ UnderWay(job[r], stamp, last, time + 1)
               /\ \A o \in Readers : job[o].begun <= job[r].begun
               /\ \A o \in Readers \ {r} : job[o].at = "out"
    <3>1. /\ UnderWay(job[r], stamp, last, time)
          /\ \A o \in Readers : job[o].begun <= job[r].begun
          /\ \A o \in Readers \ {r} : job[o].at = "out"
      BY <2>1, <2>5 DEF ReadInv, ExtendedRead
    <3>2. time + 1 < job[r].begun + Wrap
      BY <1>3, <2>2, <3>1
    <3>3. job[r].begun \in 0 .. time + 1
      BY <2>3
    <3> QED
      BY <3>1, <3>2, <3>3 DEF UnderWay
  <2> QED
    BY <1>2, <2>3, <2>4, <2>5 DEF ExtendedRead
<1>7. Ticker' => \A r \in Readers : job'[r].at = "out"
  BY <1>2 DEF ReadInv, Ticker
<1> QED
  BY <1>1, <1>4, <1>5, <1>6, <1>7 DEF ReadInv

LEMMA ReadRests ==
  ASSUME ReadInv, UNCHANGED <<clock, time, job, stamp, last>>, ClockTypes'
  PROVE  ReadInv'
BY DEF ReadInv, ReadingsRight, HalvesRead, ExtendedRead, Ticker

LEMMA HalvesStep ==
  ASSUME ReadInv, NEW r \in Readers, ReadHalves(r)
  PROVE  ReadInv'
<1>1. ClockTypes'
  BY ClockTypesStep DEF ReadInv, ClockNext
<1>2. clock = "halves" /\ clock' = clock /\ time' = time
  BY DEF ReadHalves, Goes, Returns
<1>3. PICK j \in JobType : j = job[r]
  BY DEF ReadInv, ClockTypes
<1>4. PICK t \in Nat, w \in Nat \ {0} : t = time /\ w = Wrap
  BY ClockConstants DEF ReadInv, ClockTypes
<1>5. HalvesOf(j, t)
  BY <1>2, <1>3, <1>4 DEF ReadInv, HalvesRead
<1>6. j.begun \in 0 .. t
  BY <1>5 DEF HalvesOf
<1>7. PICK k : /\ job' = [job EXCEPT ![r] = k] /\ HalvesOf(k, t)
               /\ k.at = "out" => k.begun <= k.got /\ k.got <= t
  <2>1. CASE Start(r) /\ Goes(r, "out", [job[r] EXCEPT !.at = "low", !.high = High, !.begun = time])
    <3>1. PICK k : k = [j EXCEPT !.at = "low", !.high = t \div Wrap, !.begun = t]
      OBVIOUS
    <3>2. k.at = "low" /\ k.high = t \div Wrap /\ k.begun = t
      BY <3>1 DEF JobType
    <3>3. HalvesOf(k, t)
      <4>1. t \in t .. t /\ t \in 0 .. t
        OBVIOUS
      <4>2. "low" # "again" /\ "low" # "compare"
        OBVIOUS
      <4> QED
        BY <3>2, <4>1, <4>2 DEF HalvesOf
    <3>4. job' = [job EXCEPT ![r] = k]
      BY <1>3, <1>4, <2>1, <3>1 DEF Goes, High
    <3> QED
      BY <3>2, <3>3, <3>4
  <2>2. CASE Goes(r, "low", [job[r] EXCEPT !.at = "again", !.low = Low])
    <3>1. PICK x : x = t % Wrap
      OBVIOUS
    <3>2. j.at = "low"
      BY <1>3, <2>2 DEF Goes
    <3>3. HalvesOf([j EXCEPT !.at = "again", !.low = x], t)
      BY <1>5, <3>1, <3>2, HalvesLow
    <3>4. PICK k : k = [j EXCEPT !.at = "again", !.low = x]
      OBVIOUS
    <3>5. k.at = "again"
      BY <3>4 DEF JobType
    <3>6. job' = [job EXCEPT ![r] = k]
      BY <1>3, <1>4, <2>2, <3>1, <3>4 DEF Goes, Low
    <3> QED
      BY <3>3, <3>4, <3>5, <3>6
  <2>3. CASE Goes(r, "again", [job[r] EXCEPT !.at = "compare", !.again = High])
    <3>1. PICK x : x = t \div Wrap
      OBVIOUS
    <3>2. j.at = "again"
      BY <1>3, <2>3 DEF Goes
    <3>3. HalvesOf([j EXCEPT !.at = "compare", !.again = x], t)
      BY <1>5, <3>1, <3>2, HalvesAgain
    <3>4. PICK k : k = [j EXCEPT !.at = "compare", !.again = x]
      OBVIOUS
    <3>5. k.at = "compare"
      BY <3>4 DEF JobType
    <3>6. job' = [job EXCEPT ![r] = k]
      BY <1>3, <1>4, <2>3, <3>1, <3>4 DEF Goes, High
    <3> QED
      BY <3>3, <3>4, <3>5, <3>6
  <2>4. CASE /\ job[r].high = job[r].again
             /\ Returns(r, "compare", job[r].again * Wrap + job[r].low)
    <3>1. j.at = "compare" /\ j.high = j.again
      BY <1>3, <2>4 DEF Returns
    <3>2. j.again * Wrap + j.low \in j.begun .. t
      BY <1>5, <3>1, HalvesCompared
    <3>3. PICK k : k = [Resting(j.begun) EXCEPT !.got = j.again * Wrap + j.low]
      OBVIOUS
    <3>4. k.at = "out" /\ k.begun = j.begun /\ k.got = j.again * Wrap + j.low
      BY <3>3 DEF Resting
    <3>5. job' = [job EXCEPT ![r] = k]
      BY <1>3, <2>4, <3>3 DEF Returns
    <3>6. HalvesOf(k, t)
      BY <1>6, <3>4 DEF HalvesOf
    <3>7. k.begun <= k.got /\ k.got <= t
      BY <1>6, <3>2, <3>4
    <3> QED
      BY <3>4, <3>5, <3>6, <3>7
  <2>5. CASE Goes(r, "compare", [job[r] EXCEPT !.at = "low", !.high = job[r].again])
    <3>2. j.at = "compare"
      BY <1>3, <2>5 DEF Goes
    <3>3. HalvesOf([j EXCEPT !.at = "low", !.high = j.again], t)
      BY <1>5, <3>2, HalvesCompared
    <3>4. PICK k : k = [j EXCEPT !.at = "low", !.high = j.again]
      OBVIOUS
    <3>5. k.at = "low"
      BY <3>4 DEF JobType
    <3>6. job' = [job EXCEPT ![r] = k]
      BY <1>3, <2>5, <3>4 DEF Goes
    <3> QED
      BY <3>3, <3>4, <3>5, <3>6
  <2> QED
    BY <2>1, <2>2, <2>3, <2>4, <2>5 DEF ReadHalves
<1>8. \A o \in Readers : job'[o] = IF o = r THEN k ELSE job[o]
  BY <1>7 DEF ReadInv, ClockTypes
<1>9. ReadingsRight'
  BY <1>2, <1>4, <1>7, <1>8 DEF ReadInv, ReadingsRight
<1>10. HalvesRead'
  BY <1>2, <1>4, <1>7, <1>8 DEF ReadInv, HalvesRead
<1>11. ExtendedRead' /\ (Ticker' => \A o \in Readers : job'[o].at = "out")
  BY <1>2 DEF ExtendedRead, Ticker, Tickers
<1> QED
  BY <1>1, <1>9, <1>10, <1>11 DEF ReadInv

LEMMA ExtendedStep ==
  ASSUME Together \notin Liberties, ReadInv, NEW r \in Readers, ReadExtended(r)
  PROVE  ReadInv'
<1>1. ClockTypes'
  BY ClockTypesStep DEF ReadInv, ClockNext
<1>2. clock = "extended" /\ clock' = clock /\ time' = time
  BY DEF ReadExtended, Goes, Returns
<1>3. PICK j \in JobType : j = job[r]
  BY DEF ReadInv, ClockTypes
<1>4. PICK t \in Nat, w \in Nat \ {0} : t = time /\ w = Wrap
  BY ClockConstants DEF ReadInv, ClockTypes
<1>5. /\ \A o \in Readers : job[o].begun \in 0 .. t
      /\ (\A o \in Readers : job[o].at = "out") =>
           /\ Summed(stamp, last, t)
           /\ \A o \in Readers : job[o].begun <= stamp
      /\ j.at # "out" =>
           /\ UnderWay(j, stamp, last, t)
           /\ \A o \in Readers : job[o].begun <= j.begun
           /\ \A o \in Readers \ {r} : job[o].at = "out"
  BY <1>2, <1>3, <1>4 DEF ReadInv, ExtendedRead
\* What r's step leaves: it is under way, or it has returned.
<1>6. /\ \A o \in Readers \ {r} : job[o].at = "out"
      /\ \E k : /\ job' = [job EXCEPT ![r] = k] /\ k.begun \in 0 .. t
                /\ \A o \in Readers : job[o].begun <= k.begun
                /\ k.at # "out" => UnderWay(k, stamp', last', t)
                /\ k.at = "out" => /\ Summed(stamp', last', t) /\ k.begun <= stamp'
                                   /\ \A o \in Readers : job[o].begun <= stamp'
                                   /\ k.begun <= k.got /\ k.got <= t
  <2>1. CASE /\ Start(r)
             /\ Goes(r, "out", [job[r] EXCEPT !.at = "difference", !.low = Low, !.begun = time])
             /\ UNCHANGED <<stamp, last>>
    <3>1. job[r].at = "out" /\ \A o \in Readers \ {r} : job[o].at = "out"
      BY <1>2, <2>1 DEF Start, Goes
    <3>2. Summed(stamp, last, t) /\ \A o \in Readers : job[o].begun <= stamp
      BY <1>5, <3>1
    <3>3. PICK k : k = [j EXCEPT !.at = "difference", !.low = t % Wrap, !.begun = t]
      OBVIOUS
    <3>4. k.at = "difference" /\ k.low = t % Wrap /\ k.begun = t
      BY <3>3 DEF JobType
    <3>5. job' = [job EXCEPT ![r] = k]
      BY <1>3, <1>4, <2>1, <3>3 DEF Goes, Low
    <3>6. t \in 0 .. t /\ t < t + Wrap /\ \A o \in Readers : job[o].begun <= t
      BY <1>4, <1>5
    <3>7. UnderWay(k, stamp, last, t)
      BY <3>2, <3>4, <3>6 DEF UnderWay
    <3> QED
      BY <2>1, <3>1, <3>4, <3>5, <3>6, <3>7
  <2>2. CASE /\ Goes(r, "difference",
                     [job[r] EXCEPT !.at = "sum", !.again = stamp,
                                    !.high = (job[r].low - last + Wrap) % Wrap])
             /\ UNCHANGED <<stamp, last>>
    <3>1. j.at = "difference"
      BY <1>3, <2>2 DEF Goes
    <3>2. /\ UnderWay(j, stamp, last, t)
          /\ \A o \in Readers : job[o].begun <= j.begun
          /\ \A o \in Readers \ {r} : job[o].at = "out"
      BY <1>5, <3>1
    <3>3. PICK b \in 0 .. t : /\ b = j.begun /\ t < b + w /\ j.low = b % w
                              /\ Summed(stamp, last, b)
      BY <1>4, <3>1, <3>2 DEF UnderWay
    <3>4. PICK s \in 0 .. b : s = stamp /\ b < s + w /\ last = s % w
      BY <1>4, <3>3 DEF Summed
    <3>5. (j.low - last + Wrap) % Wrap = b - s
      <4>1. s \in Nat /\ b \in Nat /\ s <= b
        OBVIOUS
      <4>2. ((b % w) - (s % w) + w) % w = b - s
        BY <3>4, <4>1, DifferenceOf
      <4> QED
        BY <1>4, <3>3, <3>4, <4>2
    <3>6. PICK k : k = [j EXCEPT !.at = "sum", !.again = s, !.high = b - s]
      OBVIOUS
    <3>7. k.at = "sum" /\ k.low = b % w /\ k.begun = b /\ k.again = s /\ k.high = b - s
      BY <3>3, <3>6 DEF JobType
    <3>8. job' = [job EXCEPT ![r] = k]
      BY <1>3, <2>2, <3>4, <3>5, <3>6 DEF Goes
    <3>9. k.again + k.high = b
      BY <3>7
    <3>10. UnderWay(k, stamp, last, t)
      BY <1>4, <3>3, <3>7, <3>9 DEF UnderWay
    <3> QED
      BY <2>2, <3>2, <3>3, <3>7, <3>8, <3>10
  <2>3. CASE /\ Goes(r, "sum", [job[r] EXCEPT !.at = "last"])
             /\ stamp' = job[r].again + job[r].high /\ last' = last
    <3>1. j.at = "sum"
      BY <1>3, <2>3 DEF Goes
    <3>2. /\ UnderWay(j, stamp, last, t)
          /\ \A o \in Readers : job[o].begun <= j.begun
          /\ \A o \in Readers \ {r} : job[o].at = "out"
      BY <1>5, <3>1
    <3>3. PICK b \in 0 .. t : /\ b = j.begun /\ t < b + w /\ j.low = b % w
                              /\ j.again + j.high = b
      BY <1>4, <3>1, <3>2 DEF UnderWay
    <3>4. PICK k : k = [j EXCEPT !.at = "last"]
      OBVIOUS
    <3>5. k.at = "last" /\ k.low = b % w /\ k.begun = b
      BY <3>3, <3>4 DEF JobType
    <3>6. job' = [job EXCEPT ![r] = k] /\ stamp' = b
      BY <1>3, <2>3, <3>3, <3>4 DEF Goes
    <3>7. UnderWay(k, stamp', last', t)
      BY <1>4, <3>3, <3>5, <3>6 DEF UnderWay
    <3> QED
      BY <3>2, <3>3, <3>5, <3>6, <3>7
  <2>4. CASE /\ Returns(r, "last", stamp)
             /\ last' = job[r].low /\ stamp' = stamp
    <3>1. j.at = "last"
      BY <1>3, <2>4 DEF Returns
    <3>2. /\ UnderWay(j, stamp, last, t)
          /\ \A o \in Readers : job[o].begun <= j.begun
          /\ \A o \in Readers \ {r} : job[o].at = "out"
      BY <1>5, <3>1
    <3>3. PICK b \in 0 .. t : b = j.begun /\ t < b + w /\ j.low = b % w /\ stamp = b
      BY <1>4, <3>1, <3>2 DEF UnderWay
    <3>4. PICK k : k = [Resting(b) EXCEPT !.got = stamp]
      OBVIOUS
    <3>5. k.at = "out" /\ k.begun = b /\ k.got = b
      BY <3>3, <3>4 DEF Resting
    <3>6. job' = [job EXCEPT ![r] = k]
      BY <1>3, <2>4, <3>3, <3>4 DEF Returns
    <3>7. Summed(stamp', last', t)
      BY <1>3, <1>4, <2>4, <3>3 DEF Summed
    <3>8. b <= b /\ b <= t
      OBVIOUS
    <3> QED
      BY <2>4, <3>2, <3>3, <3>5, <3>6, <3>7, <3>8
  <2> QED
    BY <2>1, <2>2, <2>3, <2>4 DEF ReadExtended
<1>7. PICK k : /\ job' = [job EXCEPT ![r] = k] /\ k.begun \in 0 .. t
               /\ \A o \in Readers : job[o].begun <= k.begun
               /\ k.at # "out" => UnderWay(k, stamp', last', t)
               /\ k.at = "out" => /\ Summed(stamp', last', t) /\ k.begun <= stamp'
                                  /\ \A o \in Readers : job[o].begun <= stamp'
                                  /\ k.begun <= k.got /\ k.got <= t
  BY <1>6
<1>8. \A o \in Readers : job'[o] = IF o = r THEN k ELSE job[o]
  BY <1>7 DEF ReadInv, ClockTypes
<1>9. ReadingsRight'
  BY <1>2, <1>4, <1>7, <1>8 DEF ReadInv, ReadingsRight
<1>10. ExtendedRead'
  <2>1. \A o \in Readers : job'[o].begun \in 0 .. t
    BY <1>5, <1>7, <1>8
  <2>2. ASSUME \A o \in Readers : job'[o].at = "out"
        PROVE  Summed(stamp', last', t) /\ \A o \in Readers : job'[o].begun <= stamp'
    BY <1>7, <1>8, <2>2
  <2>3. ASSUME NEW q \in Readers, job'[q].at # "out"
        PROVE  /\ UnderWay(job'[q], stamp', last', t)
               /\ \A o \in Readers : job'[o].begun <= job'[q].begun
               /\ \A o \in Readers \ {q} : job'[o].at = "out"
    <3>1. q = r
      BY <1>6, <1>8, <2>3
    <3>2. k.begun <= k.begun
      BY <1>7
    <3> QED
      BY <1>6, <1>7, <1>8, <2>3, <3>1, <3>2
  <2> QED
    BY <1>2, <1>4, <2>1, <2>2, <2>3 DEF ExtendedRead
<1>11. HalvesRead' /\ (Ticker' => \A o \in Readers : job'[o].at = "out")
  BY <1>2 DEF HalvesRead, Ticker, Tickers
<1> QED
  BY <1>1, <1>9, <1>10, <1>11 DEF ReadInv

LEMMA ReadStep ==
  ASSUME Together \notin Liberties, ReadInv, [ClockNext]_clockVars
  PROVE  ReadInv'
<1>1. ClockTypes'
  BY ClockTypesStep DEF ReadInv
<1>2. CASE UNCHANGED <<clock, time, job, stamp, last>>
  BY <1>1, <1>2, ReadRests
<1>3. CASE Enter \/ PicoClear \/ StmClear \/ BcmClear
  BY <1>2, <1>3 DEF Enter, PicoClear, StmClear, BcmClear
<1>4. CASE UNCHANGED clockVars
  BY <1>2, <1>4 DEF clockVars
<1> QED
  BY <1>3, <1>4, ReadElapse, HalvesStep, ExtendedStep DEF ClockNext, Stop

LEMMA ReadInit ==
  ASSUME ClockInit
  PROVE  ReadInv
<1>1. ClockTypes
  BY TickInit DEF TickInv
<1>2. time = 0 /\ stamp = 0 /\ last = 0 /\ job = [r \in Readers |-> Resting(0)]
  BY DEF ClockInit
<1>3. \A r \in Readers : job[r].at = "out" /\ job[r].begun = 0 /\ job[r].got = 0
  BY <1>2 DEF Resting
<1>4. 0 \in 0 .. 0 /\ 0 % Wrap = 0 /\ 0 < 0 + Wrap
  BY ClockConstants
<1>5. ReadingsRight
  BY <1>2, <1>3 DEF ReadingsRight
<1>6. HalvesRead
  BY <1>2, <1>3, <1>4 DEF HalvesRead, HalvesOf
<1>7. ExtendedRead
  BY <1>2, <1>3, <1>4 DEF ExtendedRead, Summed
<1> QED
  BY <1>1, <1>3, <1>5, <1>6, <1>7 DEF ReadInv

\* A reading of the time, by halves or by differences, is one that the clock had between the
\* call and the return (dv_readtime() of both timers of the BCM2835), for every width of the
\* counter and any number of cores, of which one at a time adds up the differences.
THEOREM ReadingsNeverTorn ==
  ASSUME Together \notin Liberties
  PROVE  ClockSpec => []ReadingsRight
<1>1. ClockInit => ReadInv
  BY ReadInit
<1>2. ReadInv /\ [ClockNext]_clockVars => ReadInv'
  BY ReadStep
<1>3. ReadInv => ReadingsRight
  BY DEF ReadInv
<1> QED
  BY <1>1, <1>2, <1>3, PTL DEF ClockSpec

\* Both together: the applications count and read the time that really passes.
THEOREM ClocksAlwaysRight ==
  ASSUME Late \notin Liberties, Together \notin Liberties
  PROVE  ClockSpec => []ClocksRight
<1>1. TicksRight /\ ReadingsRight => ClocksRight
  BY DEF ClocksRight
<1> QED
  BY <1>1, TickNeverLost, ReadingsNeverTorn, PTL

-----------------------------------------------------------------------------
(***************************************************************************)
(* CortexM.                                                                *)
(*                                                                         *)
(* A frame of the stack does not say whose code it interrupts nor at which *)
(* priority: the model, like the code, has only the current executable and *)
(* the priorities of now.  The invariant therefore says that there are two *)
(* sequences beside the stack that do: x[k] is the executable in whose     *)
(* context frame k runs, c[k] the current priority that frame k has left   *)
(* it.  A third, l, has the ceilings of the mutexes that are held.         *)
(***************************************************************************)

-----------------------------------------------------------------------------
(* Frames                                                                  *)

ExeFrame     == [kind : {"exe"}, exe : Exe]
RunFrame     == [kind : {"run"}, p : Prio, low : Prio, exe : Exe]
IrqFrame     == [kind : {"irq"}, isr : Isr, me : Exe \union {None}, myp : Prio,
                 pc : {"save", "raise", "vector", "restore", "scan"}]
PendSVFrame  == [kind : {"pendsv"}]
PreemptFrame == [kind : {"preempt"}, pc : {"frame", "unwind", "svc"}]
Frame == ExeFrame \union RunFrame \union IrqFrame \union PendSVFrame \union PreemptFrame

IsHandler(f) == f.kind \in {"irq", "pendsv"}

\* Frame k is in handler mode because of a frame below it.
InHandler(s, k) == \E h \in 1 .. k - 1 : IsHandler(s[h])

\* dv_preempt() with interrupts enabled, which only v6 lets through.
OpenPreempt(v, f) == v = "v6" /\ f.kind = "preempt" /\ f.pc \in {"frame", "svc"}

-----------------------------------------------------------------------------
(* A frame, with respect to those below it                                 *)

Same(x, c, k) == x[k] = x[k - 1] /\ c[k] = c[k - 1]

\* Priorities only rise.  On v6 what is above the tasks is in an ISR as urgent as that.
Rising(v, s, x, c, k) ==
  /\ Base[x[k]] <= c[k]
  /\ \A j \in 1 .. k - 1 : c[j] <= c[k] /\ Base[x[j]] <= Base[x[k]]
  /\ v = "v6" /\ c[k] > MaxTaskPrio =>
       \E h \in 1 .. k : s[h].kind = "irq" /\ c[k] <= Base[s[h].isr]

BottomOK(s, x, c) == s[1] = Main(Idle) /\ x[1] = Idle /\ c[1] = 0

\* dv_runqueued() has called the main function of a task, or of an ISR in a handler.
ExeOK(s, x, c, k) ==
  /\ s[k - 1].kind = "run" /\ s[k - 1].p = Base[s[k].exe]
  /\ x[k] = s[k].exe /\ s[k].exe # Idle
  /\ c[k - 1] < Base[x[k]]
  /\ x[k] \in Isr <=> InHandler(s, k)

\* dv_runqueued() has been called by an executable, by dv_irq() or by dv_preempt().
RunOK(s, x, c, k) ==
  /\ Same(x, c, k)
  /\ s[k].exe = x[k] /\ s[k].low = c[k] /\ c[k] < s[k].p
  /\ InHandler(s, k) => c[k] >= MaxTaskPrio
  /\ \/ s[k - 1].kind = "exe"
     \/ s[k - 1].kind = "irq" /\ s[k - 1].pc = "restore"
     \/ s[k - 1].kind = "preempt" /\ s[k - 1].pc = "unwind"

\* dv_irq() knows what it has interrupted.
IrqOK(v, s, x, c, k) ==
  /\ s[k - 1].kind \in {"exe", "irq", "pendsv"} \/ OpenPreempt(v, s[k - 1])
  /\ x[k] = x[k - 1]
  /\ c[k] = IF s[k].pc \in {"vector", "restore"} THEN Raised(c[k - 1]) ELSE c[k - 1]
  /\ c[k] < Base[s[k].isr]
  /\ s[k].pc # "save" => s[k].me = x[k] /\ s[k].myp = c[k - 1]

\* PendSV is taken in thread mode, at level 0.
PendOK(v, s, x, c, k) ==
  /\ s[k - 1].kind = "exe" \/ OpenPreempt(v, s[k - 1])
  /\ Same(x, c, k)
  /\ c[k] <= MaxTaskPrio
  /\ ~InHandler(s, k)

Placed(v, s, x, c, k) ==
  /\ s[k].kind = "exe" => ExeOK(s, x, c, k)
  /\ s[k].kind = "run" => RunOK(s, x, c, k)
  /\ s[k].kind = "irq" => IrqOK(v, s, x, c, k)
  /\ s[k].kind \in {"pendsv", "preempt"} => PendOK(v, s, x, c, k)

FrameOK(v, s, x, c, k) ==
  /\ Rising(v, s, x, c, k)
  /\ k = 1 => BottomOK(s, x, c)
  /\ k > 1 => Placed(v, s, x, c, k)

Shaped(s, x, c) ==
  /\ s \in Seq(Frame) /\ x \in Seq(Exe) /\ c \in Seq(Prio)
  /\ Len(x) = Len(s) /\ Len(c) = Len(s) /\ Len(s) >= 1

StackOK(v, s, x, c) == Shaped(s, x, c) /\ \A k \in 1 .. Len(s) : FrameOK(v, s, x, c, k)

-----------------------------------------------------------------------------
(* The rest of the state, with respect to the stack                        *)

\* What dv_exe[].currprio is for the executables that code will return to.
CurrentOK(s, x, c, cp) ==
  \A k \in 1 .. Len(s) :
    (k = Len(s) \/ s[k + 1].kind = "exe") => cp[x[k]] = c[k]

\* currentexe and the lock level
ContextOK(v, s, x, c, me, lo) ==
  LET n == Len(s)
      f == s[n]
  IN
  /\ f.kind # "run" => me = x[n]
  /\ f.kind \in {"exe", "irq", "pendsv"} => lo = Level(c[n])
  /\ f.kind = "preempt" /\ f.pc # "unwind" => lo = (IF v = "v7" THEN AllShut ELSE 0)
  /\ f.kind = "run" /\ me = f.exe /\ s[n - 1].kind # "preempt" => lo = Level(c[n])

\* Executable e runs somewhere on the stack at priority p at least.
RunsAt(s, c, e, p) == \E k \in 2 .. Len(s) : s[k].kind = "exe" /\ s[k].exe = e /\ p <= c[k]

\* The mutex m is the newest of its owner.
Newest(mu, m) == m = Len(mu) \/ mu[m + 1].owner # mu[m].owner

MutexOK(v, s, c, mu, l) ==
  /\ mu \in Seq([owner : Exe, save : Prio]) /\ l \in Seq(Prio) /\ Len(l) = Len(mu)
  /\ \A m \in 1 .. Len(mu) :
       /\ RunsAt(s, c, mu[m].owner, l[m])
       /\ Base[mu[m].owner] <= mu[m].save /\ mu[m].save < l[m]
       /\ mu[m].save = IF m > 1 /\ mu[m - 1].owner = mu[m].owner
                       THEN l[m - 1] ELSE Base[mu[m].owner]
       /\ v = "v6" => l[m] <= MaxTaskPrio
       /\ \A n \in 1 .. m - 1 : l[n] < l[m] /\ Base[mu[n].owner] <= Base[mu[m].owner]

\* Code runs at the ceiling of its newest mutex, or at its base priority.
CeilingOK(s, c, mu, l) ==
  \A k \in 1 .. Len(s) : s[k].kind = "exe" =>
    /\ (\A m \in 1 .. Len(mu) : mu[m].owner # s[k].exe) => c[k] = Base[s[k].exe]
    /\ \A m \in 1 .. Len(mu) : mu[m].owner = s[k].exe /\ Newest(mu, m) => c[k] = l[m]

InQueue(q, e) == \E j \in 1 .. Len(q[Base[e]]) : q[Base[e]][j] = e

\* An executable that has taken a mutex is first in the queue of its ceiling; behind it
\* is at most the executable that has this base priority.
QueueOK(s, q, mu, l) ==
  /\ q \in [Prio -> Seq(Exe)]
  /\ \A p \in Prio :
       /\ Len(q[p]) <= 2
       /\ Len(q[p]) = 2 => Base[q[p][1]] # p
       /\ \A j \in 1 .. Len(q[p]) : Base[q[p][j]] # p =>
            j = 1 /\ \E m \in 1 .. Len(mu) : l[m] = p /\ mu[m].owner = q[p][1]
  /\ \A m \in 1 .. Len(mu) : q[l[m]] # <<>> /\ q[l[m]][1] = mu[m].owner
  /\ \A k \in 1 .. Len(s) : s[k].kind = "exe" => InQueue(q, s[k].exe)

Live(s, e)     == \E k \in 1 .. Len(s) : s[k].kind = "exe" /\ s[k].exe = e
Waits(s, q, e) == InQueue(q, e) /\ ~Live(s, e)

\* What the processor is executing comes to a task of priority p.
Serves(f, pend, p) ==
  CASE f.kind = "run"     -> p <= f.p
    [] f.kind = "exe"     -> pend
    [] f.kind = "preempt" -> f.pc = "frame" \/ (f.pc = "svc" /\ pend)
    [] OTHER              -> TRUE

\* An ISR waits only for dv_runqueued() of its own dv_irq(); a task above the running
\* priority is going to be served.
WaitOK(s, c, q, pend) ==
  LET n == Len(s) IN
  /\ \A i \in Isr : Waits(s, q, i) =>
       /\ n > 1 /\ s[n].kind = "run" /\ s[n].p = Base[i]
       /\ s[n - 1].kind = "irq" /\ s[n - 1].isr = i
  /\ \A t \in Task : Waits(s, q, t) /\ Base[t] > c[n] => Serves(s[n], pend, Base[t])

\* What depends on the stack by the frames of executables only
Rest(v, s, c, q, mu, l) ==
  MutexOK(v, s, c, mu, l) /\ CeilingOK(s, c, mu, l) /\ QueueOK(s, q, mu, l)

Good(v, s, x, c, cp, me, lo, q, mu, l, pend) ==
  /\ v \in {"v6", "v7"} /\ cp \in [Exe -> Prio] /\ me \in Exe /\ pend \in BOOLEAN
  /\ StackOK(v, s, x, c)
  /\ CurrentOK(s, x, c, cp)
  /\ ContextOK(v, s, x, c, me, lo)
  /\ Rest(v, s, c, q, mu, l)
  /\ WaitOK(s, c, q, pend)

Holds(x, c, l) ==
  /\ request \subseteq Isr /\ panic = FALSE
  /\ Good(machine, stack, x, c, currprio, currentexe, locklevel, queue, mutex, l, pendsv)

Inv == \E x \in Seq(Exe), c \in Seq(Prio), l \in Seq(Prio) : Holds(x, c, l)

-----------------------------------------------------------------------------
(* Numbers                                                                 *)

\* The largest value of a function on a finite set
LEMMA Largest ==
  ASSUME NEW S, IsFiniteSet(S), S # {}, NEW f \in [S -> Nat]
  PROVE  \E a \in S : \A b \in S : f[b] <= f[a]
<1>1. DEFINE Up(a) == {b \in S : f[b] >= f[a]}
<1>2. ASSUME NEW a \in S
      PROVE  IsFiniteSet(Up(a)) /\ Cardinality(Up(a)) \in Nat
  <2>1. Up(a) \in SUBSET S
    OBVIOUS
  <2>2. IsFiniteSet(Up(a))
    BY <2>1, FS_Subset
  <2> QED
    BY <2>2, FS_CardinalityType
<1>3. PICK g : g = [a \in S |-> Cardinality(Up(a))]
  OBVIOUS
<1>4. PICK T : T = {g[a] : a \in S}
  OBVIOUS
<1>5. T \subseteq Nat /\ T # {}
  BY <1>2, <1>3, <1>4
<1>6. PICK n \in T : \A m \in T : ~(<<m, n>> \in OpToRel(<, Nat))
  BY <1>5, NatLessThanWellFounded, WFMin
<1>7. \A m \in T : n <= m
  <2>1. \A m \in T : m \in Nat /\ n \in Nat /\ ~(m < n)
    BY <1>5, <1>6 DEF OpToRel
  <2> QED
    BY <2>1
<1>8. PICK a \in S : n = g[a]
  BY <1>4
<1>9. ASSUME NEW b \in S, ~(f[b] <= f[a]) PROVE FALSE
  <2>1. Up(b) \in SUBSET Up(a) /\ a \in Up(a) /\ a \notin Up(b)
    BY <1>9
  <2>2. Cardinality(Up(b)) <= Cardinality(Up(a)) /\ Cardinality(Up(a)) # Cardinality(Up(b))
    BY <1>2, <2>1, FS_Subset
  <2>3. g[b] \in T /\ g[b] = Cardinality(Up(b)) /\ g[a] = Cardinality(Up(a))
    BY <1>3, <1>4
  <2>4. g[b] \in Nat /\ g[a] \in Nat
    BY <1>2, <1>3
  <2> QED
    BY <1>7, <1>8, <2>2, <2>3, <2>4
<1> QED
  BY <1>9

\* The largest of the numbers of a finite set and one more
LEMMA LargestOf ==
  ASSUME NEW S, IsFiniteSet(S), NEW f \in [S -> Nat], NEW T, T # {}, T \subseteq Nat,
         {f[a] : a \in S} \subseteq T, T \subseteq {0} \union {f[a] : a \in S}
  PROVE  Max(T) \in T /\ \A n \in T : n <= Max(T)
<1>1. ASSUME S # {} PROVE \E m \in T : \A n \in T : n <= m
  <2>1. PICK a \in S : \A b \in S : f[b] <= f[a]
    BY <1>1, Largest
  <2>2. f[a] \in T /\ f[a] \in Nat
    OBVIOUS
  <2> QED
    BY <2>1, <2>2
<1>2. ASSUME S = {} PROVE \E m \in T : \A n \in T : n <= m
  <2>1. {f[a] : a \in S} = {}
    BY <1>2
  <2>2. T = {0}
    BY <2>1
  <2> QED
    BY <2>2
<1>3. PICK m \in T : \A n \in T : n <= m
  BY <1>1, <1>2
<1>4. \A n \in T : m >= n
  BY <1>3
<1>5. Max(T) \in T /\ \A n \in T : Max(T) >= n
  BY <1>4 DEF Max
<1> QED
  BY <1>5

\* What the proofs use of the constants
Numbers ==
  /\ MaxTaskPrio \in Nat /\ MaxPrio \in Nat /\ MaxTaskPrio < MaxPrio
  /\ Idle \notin Isr /\ Idle \notin Task /\ Base[Idle] = 0
  /\ \A e \in Exe : Base[e] \in Nat /\ Base[e] < MaxPrio
  /\ \A t \in Task : 0 < Base[t] /\ Base[t] <= MaxTaskPrio /\ t \notin Isr
  /\ \A i \in Isr : Base[i] > MaxTaskPrio
  /\ \A e, f \in Exe : Base[e] = Base[f] => e = f
  /\ Ceilings \subseteq Prio /\ Machines \subseteq {"v7", "v6"}

\* The levels rise with the priorities; at 0 nothing is shut.
LevelsRise ==
  /\ \A p \in Prio : Level(p) \in Nat /\ Level(p) <= AllShut
  /\ \A p \in Prio : Level(p) = 0 <=> p <= MaxTaskPrio
  /\ \A p, r \in Prio : Level(p) < Level(r) => p < r
  /\ AllShut \in Nat /\ AllShut > 0

\* What the numbers need, from the assumption on the constants
LEMMA NumbersHold ==
  Numbers
<1>0. Base \in [Exe -> Nat] /\ IsFiniteSet(Task) /\ IsFiniteSet(Isr) /\ Base[Idle] = 0
  BY CortexMAssumption
<1>1. IsFiniteSet(Exe)
  <2>1. IsFiniteSet(Task \union Isr)
    BY <1>0, FS_Union
  <2>2. IsFiniteSet({Idle})
    BY FS_Singleton
  <2> QED
    BY <2>1, <2>2, FS_Union DEF Exe
<1>2. Idle \in Exe /\ Task \subseteq Exe /\ Isr \subseteq Exe
  BY DEF Exe
<1>3. MaxTaskPrio \in Nat /\ \A t \in Task : Base[t] <= MaxTaskPrio
  <2>1. PICK f : f = [t \in Task |-> Base[t]]
    OBVIOUS
  <2>2. PICK T : T = {0} \union {Base[t] : t \in Task}
    OBVIOUS
  <2>3. f \in [Task -> Nat] /\ T # {} /\ T \subseteq Nat
    BY <1>0, <1>2, <2>1, <2>2
  <2>4. {f[a] : a \in Task} \subseteq T /\ T \subseteq {0} \union {f[a] : a \in Task}
    BY <2>1, <2>2
  <2>5. Max(T) \in T /\ \A n \in T : n <= Max(T)
    BY <1>0, <2>3, <2>4, LargestOf
  <2>6. MaxTaskPrio = Max(T)
    BY <2>2 DEF MaxTaskPrio
  <2> QED
    BY <2>2, <2>3, <2>5, <2>6
<1>4. MaxTaskPrio = 0 \/ \E t \in Task : MaxTaskPrio = Base[t]
  <2>1. PICK f : f = [t \in Task |-> Base[t]]
    OBVIOUS
  <2>2. PICK T : T = {0} \union {Base[t] : t \in Task}
    OBVIOUS
  <2>3. f \in [Task -> Nat] /\ T # {} /\ T \subseteq Nat
    BY <1>0, <1>2, <2>1, <2>2
  <2>4. {f[a] : a \in Task} \subseteq T /\ T \subseteq {0} \union {f[a] : a \in Task}
    BY <2>1, <2>2
  <2>5. Max(T) \in T
    BY <1>0, <2>3, <2>4, LargestOf
  <2>6. MaxTaskPrio = Max(T)
    BY <2>2 DEF MaxTaskPrio
  <2> QED
    BY <2>2, <2>5, <2>6
<1>5. MaxPrio \in Nat /\ \A e \in Exe : Base[e] \in Nat /\ Base[e] < MaxPrio
  <2>1. PICK T : T = {Base[e] : e \in Exe}
    OBVIOUS
  <2>2. T # {} /\ T \subseteq Nat
    BY <1>0, <1>2, <2>1
  <2>3. {Base[e] : e \in Exe} \subseteq T /\ T \subseteq {0} \union {Base[e] : e \in Exe}
    BY <2>1
  <2>4. Max(T) \in T /\ \A n \in T : n <= Max(T)
    BY <1>0, <1>1, <2>2, <2>3, LargestOf
  <2>5. MaxPrio = 1 + Max(T)
    BY <2>1 DEF MaxPrio
  <2>6. \A e \in Exe : Base[e] \in T
    BY <2>1
  <2>7. PICK m : m = Max(T)
    OBVIOUS
  <2>8. m \in Nat /\ MaxPrio = 1 + m /\ \A n \in T : n \in Nat /\ n <= m
    BY <2>2, <2>4, <2>5, <2>7
  <2> QED
    BY <2>6, <2>8
<1>6. MaxTaskPrio < MaxPrio
  BY <1>0, <1>2, <1>4, <1>5
<1>7. \A e \in Task \union Isr : 0 < Base[e]
  BY CortexMAssumption
<1>8. \A t \in Task, i \in Isr : Base[t] < Base[i]
  BY CortexMAssumption
<1>9. \A i \in Isr : Base[i] > MaxTaskPrio
  BY <1>2, <1>4, <1>5, <1>7, <1>8
<1>10. Idle \notin Isr /\ Idle \notin Task
  BY <1>0, <1>7
<1>11. \A t \in Task : 0 < Base[t] /\ t \notin Isr
  BY <1>2, <1>5, <1>7, <1>8
<1>12. /\ \A e, f \in Exe : Base[e] = Base[f] => e = f
       /\ Ceilings \subseteq Prio /\ Machines \subseteq {"v7", "v6"}
  BY CortexMAssumption
<1> QED
  BY <1>0, <1>3, <1>5, <1>6, <1>9, <1>10, <1>11, <1>12 DEF Numbers

\* dv_calculatelevels(): the levels rise with the priorities of the ISRs.
LEMMA LevelsHold ==
  LevelsRise
<1>1. Numbers
  BY NumbersHold
<1>2. IsFiniteSet(Isr) /\ \A i \in Isr : Base[i] \in Nat
  BY <1>1, CortexMAssumption DEF Numbers, Exe
<1>3. DEFINE S(p) == {i \in Isr : Base[i] < p}
<1>4. ASSUME NEW p \in Prio PROVE IsFiniteSet(S(p)) /\ Cardinality(S(p)) \in Nat
  <2>1. S(p) \in SUBSET Isr
    OBVIOUS
  <2>2. IsFiniteSet(S(p))
    BY <1>2, <2>1, FS_Subset
  <2> QED
    BY <2>2, FS_CardinalityType
<1>5. ASSUME NEW p \in Prio, NEW r \in Prio, p <= r
      PROVE  Cardinality(S(p)) <= Cardinality(S(r))
  <2>1. S(p) \in SUBSET S(r)
    BY <1>2, <1>5 DEF Prio
  <2> QED
    BY <1>4, <2>1, FS_Subset
<1>6. ASSUME NEW p \in Prio
      PROVE  Level(p) = IF p <= MaxTaskPrio THEN 0 ELSE 1 + Cardinality(S(p))
  BY DEF Level
<1>7. MaxPrio \in Prio /\ MaxTaskPrio \in Prio /\ MaxTaskPrio < MaxPrio
  BY <1>1 DEF Numbers, Prio
<1>8. \A p \in Prio : p \in Nat /\ p <= MaxPrio
  BY <1>1 DEF Prio, Numbers
<1>9. PICK k : k = [p \in Prio |-> Cardinality(S(p))]
  OBVIOUS
<1>10. \A p \in Prio : k[p] \in Nat /\ Level(p) = IF p <= MaxTaskPrio THEN 0 ELSE 1 + k[p]
  BY <1>4, <1>6, <1>9
<1>11. \A p, r \in Prio : p <= r => k[p] <= k[r]
  BY <1>5, <1>9
<1>12. AllShut = Level(MaxPrio)
  BY DEF AllShut
<1>13. MaxTaskPrio \in Nat /\ MaxPrio \in Nat
  BY <1>1 DEF Numbers
<1>14. AllShut = 1 + k[MaxPrio] /\ k[MaxPrio] \in Nat
  BY <1>7, <1>10, <1>12, <1>13
<1>15. \A p \in Prio : Level(p) \in Nat /\ Level(p) <= AllShut
  BY <1>7, <1>8, <1>10, <1>11, <1>14
<1>16. \A p \in Prio : Level(p) = 0 <=> p <= MaxTaskPrio
  BY <1>8, <1>10
<1>17. ASSUME NEW p \in Prio, NEW r \in Prio, Level(p) < Level(r), ~(p < r) PROVE FALSE
  <2>1. r <= p /\ p \in Nat /\ r \in Nat
    BY <1>8, <1>17
  <2>2. k[r] <= k[p] /\ k[r] \in Nat /\ k[p] \in Nat
    BY <1>10, <1>11, <2>1
  <2>3. /\ Level(p) = IF p <= MaxTaskPrio THEN 0 ELSE 1 + k[p]
        /\ Level(r) = IF r <= MaxTaskPrio THEN 0 ELSE 1 + k[r]
    BY <1>10
  <2> QED
    BY <1>13, <1>17, <2>1, <2>2, <2>3
<1> QED
  BY <1>14, <1>15, <1>16, <1>17 DEF LevelsRise

-----------------------------------------------------------------------------
(* Stacks, one frame longer, one shorter, or with another frame on top     *)

Agree(s, t, n) == \A j \in 1 .. n : t[j] = s[j]

Longer(s, t, a)  == Len(t) = Len(s) + 1 /\ t[Len(s) + 1] = a /\ Agree(s, t, Len(s))
Shorter(s, t)    == Len(t) = Len(s) - 1 /\ Agree(s, t, Len(s) - 1)
Changed(s, t, a) == Len(t) = Len(s) /\ t[Len(s)] = a /\ Agree(s, t, Len(s) - 1)

\* Append, Front and EXCEPT on a sequence, element by element
LEMMA LongerExists ==
  ASSUME NEW A, NEW s \in Seq(A), NEW a \in A
  PROVE  \E t \in Seq(A) : t = Append(s, a) /\ Longer(s, t, a)
<1>1. PICK t : t = Append(s, a)
  OBVIOUS
<1>2. t \in Seq(A) /\ Len(t) = Len(s) + 1 /\ t[Len(s) + 1] = a
  BY <1>1
<1>3. \A j \in 1 .. Len(s) : t[j] = s[j]
  BY <1>1
<1> QED
  BY <1>1, <1>2, <1>3 DEF Longer, Agree

LEMMA ShorterExists ==
  ASSUME NEW A, NEW s \in Seq(A), Len(s) >= 1
  PROVE  \E t \in Seq(A) : t = Front(s) /\ Shorter(s, t)
<1>0. \A i \in 1 .. Len(s) - 1 : s[i] \in A
  OBVIOUS
<1>1. PICK t : t = SubSeq(s, 1, Len(s) - 1)
  OBVIOUS
<1>2. PICK n \in Nat : n = Len(s) - 1
  OBVIOUS
<1>3. /\ SubSeq(s, 1, n) \in Seq(A)
      /\ Len(SubSeq(s, 1, n)) = IF 1 <= n THEN n - 1 + 1 ELSE 0
      /\ \A i \in 1 .. n - 1 + 1 : SubSeq(s, 1, n)[i] = s[1 + i - 1]
  <2>1. 1 \in Int /\ n \in Int /\ \A i \in 1 .. n : s[i] \in A
    BY <1>0, <1>2
  <2> QED
    BY <2>1, SubSeqProperties
<1>4. t \in Seq(A) /\ Len(t) = Len(s) - 1
  <2>1. t = SubSeq(s, 1, n)
    BY <1>1, <1>2
  <2>2. Len(t) = IF 1 <= n THEN n - 1 + 1 ELSE 0
    BY <1>3, <2>1
  <2>3. Len(t) = n
    BY <2>2
  <2> QED
    BY <1>2, <1>3, <2>1, <2>3
<1>5. \A j \in 1 .. Len(s) - 1 : t[j] = s[j]
  BY <1>1, <1>2, <1>3
<1> QED
  BY <1>1, <1>4, <1>5 DEF Shorter, Agree, Front

LEMMA ChangedExists ==
  ASSUME NEW A, NEW s \in Seq(A), Len(s) >= 1, NEW a \in A
  PROVE  \E t \in Seq(A) : t = [s EXCEPT ![Len(s)] = a] /\ Changed(s, t, a)
<1>1. PICK t : t = [s EXCEPT ![Len(s)] = a]
  OBVIOUS
<1>2. t \in Seq(A) /\ Len(t) = Len(s) /\ t[Len(s)] = a
  BY <1>1
<1>3. \A j \in 1 .. Len(s) - 1 : t[j] = s[j]
  BY <1>1
<1> QED
  BY <1>1, <1>2, <1>3 DEF Changed, Agree

\* What is said of a frame is said of it and those below it.
LEMMA FrameLocal ==
  ASSUME NEW v, NEW s, NEW x, NEW c, NEW t, NEW y, NEW d, NEW k \in Nat \ {0}, NEW n \in Nat,
         k <= n, Agree(s, t, n), Agree(x, y, n), Agree(c, d, n), FrameOK(v, s, x, c, k)
  PROVE  FrameOK(v, t, y, d, k)
<1>1. /\ \A j \in 1 .. k : t[j] = s[j] /\ y[j] = x[j] /\ d[j] = c[j]
      /\ k \in 1 .. k /\ 1 \in 1 .. k /\ (k > 1 => k - 1 \in 1 .. k)
      /\ \A j \in 1 .. k - 1 : j \in 1 .. k
  BY DEF Agree
<1>2. Rising(v, t, y, d, k)
  BY <1>1 DEF FrameOK, Rising
<1>3. InHandler(t, k) <=> InHandler(s, k)
  BY <1>1 DEF InHandler
<1>4. k = 1 => BottomOK(t, y, d)
  BY <1>1 DEF FrameOK, BottomOK
<1>5. ASSUME k > 1 PROVE Placed(v, t, y, d, k)
  <2>1. t[k] = s[k] /\ t[k - 1] = s[k - 1] /\ y[k] = x[k] /\ y[k - 1] = x[k - 1]
        /\ d[k] = c[k] /\ d[k - 1] = c[k - 1]
    BY <1>1, <1>5
  <2>2. Placed(v, s, x, c, k)
    BY <1>5 DEF FrameOK
  <2>3. ExeOK(s, x, c, k) => ExeOK(t, y, d, k)
    BY <1>3, <2>1 DEF ExeOK
  <2>4. RunOK(s, x, c, k) => RunOK(t, y, d, k)
    BY <1>3, <2>1 DEF RunOK, Same
  <2>5. IrqOK(v, s, x, c, k) => IrqOK(v, t, y, d, k)
    BY <2>1 DEF IrqOK
  <2>6. PendOK(v, s, x, c, k) => PendOK(v, t, y, d, k)
    BY <1>3, <2>1 DEF PendOK, Same
  <2> QED
    BY <2>1, <2>2, <2>3, <2>4, <2>5, <2>6 DEF Placed
<1> QED
  BY <1>2, <1>4, <1>5 DEF FrameOK

\* Only the newest frame has to be looked at.
LEMMA StackStep ==
  ASSUME NEW v, NEW s, NEW x, NEW c, NEW t, NEW y, NEW d, NEW n \in Nat \ {0},
         StackOK(v, s, x, c), Shaped(t, y, d), n = Len(t), n - 1 <= Len(s),
         Agree(s, t, n - 1), Agree(x, y, n - 1), Agree(c, d, n - 1),
         FrameOK(v, t, y, d, n)
  PROVE  StackOK(v, t, y, d)
<1>1. ASSUME NEW k \in 1 .. n, k # n PROVE FrameOK(v, t, y, d, k)
  <2>1. k \in Nat \ {0} /\ k <= n - 1 /\ n - 1 \in Nat /\ k \in 1 .. Len(s)
    BY <1>1 DEF StackOK, Shaped
  <2>2. FrameOK(v, s, x, c, k)
    BY <2>1 DEF StackOK
  <2> QED
    BY <2>1, <2>2, FrameLocal
<1> QED
  BY <1>1 DEF StackOK

\* Taking a frame off disturbs none of those below it.
LEMMA StackPop ==
  ASSUME NEW v, NEW s, NEW x, NEW c, NEW t, NEW y, NEW d,
         StackOK(v, s, x, c), Shaped(t, y, d), Shorter(s, t), Shorter(x, y), Shorter(c, d)
  PROVE  StackOK(v, t, y, d)
<1>1. /\ Len(s) \in Nat /\ Len(t) = Len(s) - 1 /\ Len(t) \in Nat \ {0}
      /\ Len(x) = Len(s) /\ Len(c) = Len(s)
  BY DEF StackOK, Shaped, Shorter
<1>2. PICK n \in Nat \ {0} : n = Len(t)
  BY <1>1
<1>3. Agree(s, t, n) /\ Agree(x, y, n) /\ Agree(c, d, n)
  BY <1>1, <1>2 DEF Shorter
<1>4. ASSUME NEW k \in 1 .. n PROVE FrameOK(v, t, y, d, k)
  <2>1. k \in Nat \ {0} /\ k <= n /\ k \in 1 .. Len(s) /\ n \in Nat
    BY <1>1, <1>2
  <2>2. FrameOK(v, s, x, c, k)
    BY <2>1 DEF StackOK
  <2> QED
    BY <1>3, <2>1, <2>2, FrameLocal
<1> QED
  BY <1>2, <1>4 DEF StackOK

\* Priorities rise from one frame to the next.
LEMMA RisingStep ==
  ASSUME Numbers, NEW v, NEW s, NEW x, NEW c, NEW k \in Nat, k > 1, Rising(v, s, x, c, k - 1),
         Shaped(s, x, c), k = Len(s),
         c[k - 1] <= c[k], Base[x[k - 1]] <= Base[x[k]], Base[x[k]] <= c[k],
         v = "v6" /\ c[k] > MaxTaskPrio =>
           c[k] = c[k - 1] \/ \E h \in 1 .. k : s[h].kind = "irq" /\ c[k] <= Base[s[h].isr]
  PROVE  Rising(v, s, x, c, k)
<1>1. /\ \A j \in 1 .. k : c[j] \in Nat /\ Base[x[j]] \in Nat
      /\ k \in 1 .. k /\ k - 1 \in 1 .. k
  <2>1. \A j \in 1 .. k : c[j] \in Prio /\ x[j] \in Exe
    BY DEF Shaped
  <2> QED
    BY <2>1 DEF Prio, Numbers
<1>2. ASSUME NEW j \in 1 .. k - 1 PROVE c[j] <= c[k] /\ Base[x[j]] <= Base[x[k]]
  <2>1. j \in 1 .. k /\ (j = k - 1 \/ j \in 1 .. (k - 1) - 1)
    OBVIOUS
  <2>2. j \in 1 .. (k - 1) - 1 => c[j] <= c[k - 1] /\ Base[x[j]] <= Base[x[k - 1]]
    BY DEF Rising
  <2>3. /\ c[j] \in Nat /\ c[k - 1] \in Nat /\ c[k] \in Nat
        /\ Base[x[j]] \in Nat /\ Base[x[k - 1]] \in Nat /\ Base[x[k]] \in Nat
    BY <1>1, <2>1
  <2> QED
    BY <2>1, <2>2, <2>3, SMTT(20)
<1>3. ASSUME v = "v6", c[k] > MaxTaskPrio
      PROVE  \E h \in 1 .. k : s[h].kind = "irq" /\ c[k] <= Base[s[h].isr]
  <2>1. CASE c[k] = c[k - 1]
    <3>1. \E h \in 1 .. k - 1 : s[h].kind = "irq" /\ c[k - 1] <= Base[s[h].isr]
      BY <1>3, <2>1 DEF Rising
    <3>2. \A h \in 1 .. k - 1 : h \in 1 .. k
      OBVIOUS
    <3> QED
      BY <2>1, <3>1, <3>2
  <2> QED
    BY <1>3, <2>1
<1> QED
  BY <1>2, <1>3 DEF Rising

-----------------------------------------------------------------------------
(* The frames of executables stay as they are                              *)

SameExes(s, c, t, d) ==
  /\ Len(s) \in Nat /\ Len(t) \in Nat
  /\ \A k \in 1 .. Len(s) : s[k].kind = "exe" => k <= Len(t) /\ t[k] = s[k] /\ d[k] = c[k]
  /\ \A k \in 1 .. Len(t) : t[k].kind = "exe" => k <= Len(s) /\ t[k] = s[k] /\ d[k] = c[k]

\* What is said of the frames of executables only, on a stack with the same ones
LEMMA SameLive ==
  ASSUME NEW s, NEW c, NEW t, NEW d, SameExes(s, c, t, d), NEW e
  PROVE  Live(s, e) <=> Live(t, e)
<1>1. ASSUME NEW k \in 1 .. Len(s), s[k].kind = "exe", s[k].exe = e PROVE Live(t, e)
  <2>1. k \in 1 .. Len(t) /\ t[k] = s[k]
    BY <1>1 DEF SameExes
  <2> QED
    BY <1>1, <2>1 DEF Live
<1>2. ASSUME NEW k \in 1 .. Len(t), t[k].kind = "exe", t[k].exe = e PROVE Live(s, e)
  <2>1. k \in 1 .. Len(s) /\ t[k] = s[k]
    BY <1>2 DEF SameExes
  <2> QED
    BY <1>2, <2>1 DEF Live
<1> QED
  BY <1>1, <1>2 DEF Live

LEMMA SameWaits ==
  ASSUME NEW s, NEW c, NEW t, NEW d, SameExes(s, c, t, d), NEW q, NEW e
  PROVE  Waits(s, q, e) <=> Waits(t, q, e)
BY SameLive DEF Waits

LEMMA RestStays ==
  ASSUME NEW s, NEW c, NEW t, NEW d, SameExes(s, c, t, d),
         NEW v, NEW q, NEW mu, NEW l, Rest(v, s, c, q, mu, l)
  PROVE  Rest(v, t, d, q, mu, l)
<1>1. ASSUME NEW e, NEW p, RunsAt(s, c, e, p) PROVE RunsAt(t, d, e, p)
  <2>1. PICK k \in 2 .. Len(s) : s[k].kind = "exe" /\ s[k].exe = e /\ p <= c[k]
    BY <1>1 DEF RunsAt
  <2>2. k \in 1 .. Len(s) /\ k >= 2
    BY DEF SameExes
  <2>3. k <= Len(t) /\ t[k] = s[k] /\ d[k] = c[k] /\ k \in 2 .. Len(t)
    BY <2>1, <2>2 DEF SameExes
  <2> QED
    BY <2>1, <2>3 DEF RunsAt
<1>2. MutexOK(v, t, d, mu, l)
  BY <1>1 DEF Rest, MutexOK
<1>3. ASSUME NEW k \in 1 .. Len(t), t[k].kind = "exe"
      PROVE  k \in 1 .. Len(s) /\ t[k] = s[k] /\ d[k] = c[k]
  BY <1>3 DEF SameExes
<1>4. CeilingOK(t, d, mu, l)
  <2>1. CeilingOK(s, c, mu, l)
    BY DEF Rest
  <2> QED
    BY <1>3, <2>1, SMTT(20) DEF CeilingOK
<1>5. QueueOK(t, q, mu, l)
  <2>1. QueueOK(s, q, mu, l)
    BY DEF Rest
  <2> QED
    BY <1>3, <2>1 DEF QueueOK
<1> QED
  BY <1>2, <1>4, <1>5 DEF Rest

LEMMA SameLonger ==
  ASSUME NEW s, NEW c, NEW t, NEW d, Len(s) \in Nat, Len(c) = Len(s), NEW f, NEW p,
         f.kind # "exe", Longer(s, t, f), Longer(c, d, p)
  PROVE  SameExes(s, c, t, d)
<1>1. PICK n \in Nat : n = Len(s)
  OBVIOUS
<1>2. /\ Len(t) = n + 1 /\ t[n + 1] = f /\ \A k \in 1 .. n : t[k] = s[k] /\ d[k] = c[k]
  BY <1>1 DEF Longer, Agree
<1>3. \A k \in 1 .. n + 1 : k = n + 1 \/ k \in 1 .. n
  OBVIOUS
<1> QED
  BY <1>1, <1>2, <1>3 DEF SameExes

LEMMA SameShorter ==
  ASSUME NEW s, NEW c, NEW t, NEW d, Len(s) \in Nat, Len(s) >= 1, Len(c) = Len(s),
         s[Len(s)].kind # "exe", Shorter(s, t), Shorter(c, d)
  PROVE  SameExes(s, c, t, d)
<1>1. PICK n \in Nat : n = Len(s) /\ n >= 1
  OBVIOUS
<1>2. Len(t) = n - 1 /\ s[n].kind # "exe" /\ \A k \in 1 .. n - 1 : t[k] = s[k] /\ d[k] = c[k]
  BY <1>1 DEF Shorter, Agree
<1>3. \A k \in 1 .. n : k = n \/ k \in 1 .. n - 1
  OBVIOUS
<1> QED
  BY <1>1, <1>2, <1>3 DEF SameExes

LEMMA SameChanged ==
  ASSUME NEW s, NEW c, NEW t, NEW d, Len(s) \in Nat, Len(s) >= 1, Len(c) = Len(s), NEW f, NEW p,
         f.kind # "exe", s[Len(s)].kind # "exe", Changed(s, t, f), Changed(c, d, p)
  PROVE  SameExes(s, c, t, d)
<1>1. PICK n \in Nat : n = Len(s) /\ n >= 1
  OBVIOUS
<1>2. /\ Len(t) = n /\ s[n].kind # "exe" /\ t[n] = f
      /\ \A k \in 1 .. n - 1 : t[k] = s[k] /\ d[k] = c[k]
  BY <1>1 DEF Changed, Agree
<1>3. \A k \in 1 .. n : k = n \/ k \in 1 .. n - 1
  OBVIOUS
<1> QED
  BY <1>1, <1>2, <1>3 DEF SameExes

-----------------------------------------------------------------------------
(* The current priorities                                                  *)

\* A frame that is no executable can come and go: the priorities stay what they were.
LEMMA CurrentLonger ==
  ASSUME NEW s, NEW x, NEW c, NEW cp, Len(s) \in Nat \ {0}, Len(x) = Len(s), Len(c) = Len(s),
         CurrentOK(s, x, c, cp), NEW t, NEW y, NEW d, NEW f, f.kind # "exe",
         Longer(s, t, f), Longer(x, y, x[Len(s)]), Longer(c, d, c[Len(s)])
  PROVE  CurrentOK(t, y, d, cp)
<1>1. PICK n \in Nat \ {0} : n = Len(s)
  OBVIOUS
<1>2. /\ Len(t) = n + 1 /\ t[n + 1] = f /\ y[n + 1] = x[n] /\ d[n + 1] = c[n]
      /\ \A k \in 1 .. n : t[k] = s[k] /\ y[k] = x[k] /\ d[k] = c[k]
  BY <1>1 DEF Longer, Agree
<1>3. SUFFICES ASSUME NEW k \in 1 .. n + 1, k = n + 1 \/ t[k + 1].kind = "exe"
               PROVE  cp[y[k]] = d[k]
  BY <1>2 DEF CurrentOK
<1>4. n \in 1 .. n /\ cp[x[n]] = c[n]
  BY <1>1 DEF CurrentOK
<1>5. CASE k = n + 1
  BY <1>2, <1>4, <1>5
<1>6. CASE k = n
  BY <1>2, <1>4, <1>6
<1>7. CASE k \in 1 .. n - 1
  <2>1. k + 1 \in 1 .. n /\ k \in 1 .. n
    BY <1>7
  <2>2. s[k + 1].kind = "exe"
    BY <1>2, <1>3, <1>7, <2>1
  <2> QED
    BY <1>1, <1>2, <2>1, <2>2 DEF CurrentOK
<1> QED
  BY <1>5, <1>6, <1>7

LEMMA CurrentShorter ==
  ASSUME NEW s, NEW x, NEW c, NEW cp, Len(s) \in Nat, Len(s) > 1, Len(x) = Len(s), Len(c) = Len(s),
         CurrentOK(s, x, c, cp), NEW t, NEW y, NEW d,
         Same(x, c, Len(s)) \/ s[Len(s)].kind = "exe",
         Shorter(s, t), Shorter(x, y), Shorter(c, d)
  PROVE  CurrentOK(t, y, d, cp)
<1>1. PICK n \in Nat : n = Len(s) /\ n > 1
  OBVIOUS
<1>2. /\ Len(t) = n - 1
      /\ \A k \in 1 .. n - 1 : t[k] = s[k] /\ y[k] = x[k] /\ d[k] = c[k]
  BY <1>1 DEF Shorter, Agree
<1>3. SUFFICES ASSUME NEW k \in 1 .. n - 1, k = n - 1 \/ t[k + 1].kind = "exe"
               PROVE  cp[y[k]] = d[k]
  BY <1>2 DEF CurrentOK
<1>4. CASE k = n - 1
  <2>1. cp[x[n - 1]] = c[n - 1]
    <3>1. n \in 1 .. n /\ n - 1 \in 1 .. n /\ cp[x[n]] = c[n]
      BY <1>1 DEF CurrentOK
    <3>2. CASE Same(x, c, n)
      BY <3>1, <3>2 DEF Same
    <3>3. CASE s[n].kind = "exe"
      <4>1. s[(n - 1) + 1].kind = "exe"
        BY <3>3
      <4> QED
        BY <1>1, <3>1, <4>1 DEF CurrentOK
    <3> QED
      BY <1>1, <3>2, <3>3
  <2> QED
    BY <1>2, <1>4, <2>1
<1>5. CASE k # n - 1
  <2>1. k + 1 \in 1 .. n - 1 /\ k \in 1 .. n
    BY <1>5
  <2>2. s[k + 1].kind = "exe"
    BY <1>2, <1>3, <1>5, <2>1
  <2> QED
    BY <1>1, <1>2, <2>1, <2>2 DEF CurrentOK
<1> QED
  BY <1>4, <1>5

\* The executables on the stack are of rising base priorities.
LEMMA BelowExe ==
  ASSUME Numbers, NEW v, NEW s, NEW x, NEW c, StackOK(v, s, x, c),
         NEW k \in 2 .. Len(s), s[k].kind = "exe", NEW j \in k .. Len(s), NEW i \in 1 .. k - 1
  PROVE  Base[x[i]] < Base[x[j]] /\ c[i] < Base[x[k]] /\ Base[x[k]] <= c[k]
<1>1. Len(s) \in Nat /\ Len(x) = Len(s) /\ Len(c) = Len(s)
  BY DEF StackOK, Shaped
<1>2. k \in Nat /\ k > 1 /\ k \in 1 .. Len(s) /\ k - 1 \in 1 .. Len(s) /\ i \in 1 .. Len(s)
      /\ j \in 1 .. Len(s) /\ k - 1 \in 1 .. k - 1
  BY <1>1
<1>3. /\ FrameOK(v, s, x, c, k) /\ FrameOK(v, s, x, c, k - 1) /\ FrameOK(v, s, x, c, j)
      /\ FrameOK(v, s, x, c, i)
  BY <1>2 DEF StackOK
<1>4. \A h \in 1 .. Len(s) : x[h] \in Exe /\ c[h] \in Nat /\ Base[x[h]] \in Nat
  <2>1. \A h \in 1 .. Len(s) : x[h] \in Exe /\ c[h] \in Prio
    BY <1>1 DEF StackOK, Shaped
  <2> QED
    BY <2>1 DEF Numbers, Prio
<1>5. c[k - 1] < Base[x[k]] /\ Base[x[k]] <= c[k]
  BY <1>2, <1>3 DEF FrameOK, Placed, ExeOK, Rising
<1>6. c[i] <= c[k - 1] /\ Base[x[i]] <= c[i]
  <2>1. i = k - 1 \/ i \in 1 .. (k - 1) - 1
    BY <1>2
  <2> QED
    BY <1>2, <1>3, <1>4, <2>1 DEF FrameOK, Rising
<1>7. Base[x[k]] <= Base[x[j]]
  <2>1. j = k \/ k \in 1 .. j - 1
    BY <1>2
  <2> QED
    BY <1>2, <1>3, <1>4, <2>1 DEF FrameOK, Rising
<1> QED
  BY <1>2, <1>4, <1>5, <1>6, <1>7

\* The code in context gets another priority.
LEMMA CurrentChanged ==
  ASSUME Numbers, NEW v, NEW s, NEW x, NEW c, NEW cp \in [Exe -> Prio], StackOK(v, s, x, c),
         CurrentOK(s, x, c, cp), NEW t, NEW d, NEW f, NEW p \in Prio, NEW cq,
         f.kind = "exe" => s[Len(s)].kind = "exe",
         Changed(s, t, f), Changed(c, d, p), cq = [cp EXCEPT ![x[Len(s)]] = p]
  PROVE  CurrentOK(t, x, d, cq)
<1>1. PICK n \in Nat \ {0} : n = Len(s) /\ n = Len(c) /\ n = Len(x)
  BY DEF StackOK, Shaped
<1>2. /\ Len(t) = n /\ d[n] = p /\ t[n] = f
      /\ \A k \in 1 .. n - 1 : t[k] = s[k] /\ d[k] = c[k]
  BY <1>1 DEF Changed, Agree
<1>3. \A h \in 1 .. n : x[h] \in Exe /\ Base[x[h]] \in Nat
  BY <1>1 DEF StackOK, Shaped, Numbers
<1>4. SUFFICES ASSUME NEW k \in 1 .. n, k = n \/ t[k + 1].kind = "exe"
               PROVE  cq[x[k]] = d[k]
  BY <1>2 DEF CurrentOK
<1>5. CASE k = n
  BY <1>1, <1>2, <1>3, <1>5
<1>6. CASE k # n /\ s[k + 1].kind = "exe"
  <2>1. k + 1 \in 2 .. n /\ n \in k + 1 .. n /\ k \in 1 .. (k + 1) - 1 /\ k \in 1 .. n - 1
    BY <1>6
  <2>2. Base[x[k]] < Base[x[n]]
    BY <1>1, <1>6, <2>1, BelowExe
  <2>3. x[k] # x[n]
    BY <1>3, <2>2
  <2>4. cp[x[k]] = c[k]
    BY <1>1, <1>6 DEF CurrentOK
  <2> QED
    BY <1>1, <1>2, <1>3, <2>1, <2>3, <2>4
<1>7. ASSUME k # n PROVE s[k + 1].kind = "exe"
  <2>1. CASE k + 1 = n
    BY <1>1, <1>2, <1>4, <1>7, <2>1
  <2>2. CASE k + 1 \in 1 .. n - 1
    BY <1>2, <1>4, <1>7, <2>2
  <2> QED
    BY <1>7, <2>1, <2>2
<1> QED
  BY <1>5, <1>6, <1>7

-----------------------------------------------------------------------------
(* Steps of the stack that leave the frames of executables as they are     *)

\* The frame on top
LEMMA TopFacts ==
  ASSUME Numbers, NEW v, NEW s, NEW x, NEW c, StackOK(v, s, x, c), NEW n, n = Len(s)
  PROVE  /\ n \in Nat /\ n >= 1 /\ Len(x) = n /\ Len(c) = n
         /\ s[n] \in Frame /\ x[n] \in Exe /\ c[n] \in Prio /\ c[n] \in Nat
         /\ Rising(v, s, x, c, n)
         /\ s[n].kind # "exe" => n > 1
         /\ n > 1 => /\ Placed(v, s, x, c, n) /\ Rising(v, s, x, c, n - 1)
                     /\ s[n - 1] \in Frame /\ x[n - 1] \in Exe
                     /\ c[n - 1] \in Prio /\ c[n - 1] \in Nat /\ c[n - 1] <= c[n]
<1>1. /\ n \in Nat /\ n >= 1 /\ Len(x) = n /\ Len(c) = n /\ n \in 1 .. n
      /\ s \in Seq(Frame) /\ x \in Seq(Exe) /\ c \in Seq(Prio)
  BY DEF StackOK, Shaped
<1>2. \A k \in 1 .. n : s[k] \in Frame /\ x[k] \in Exe /\ c[k] \in Prio /\ FrameOK(v, s, x, c, k)
  BY <1>1 DEF StackOK
<1>3. \A p \in Prio : p \in Nat
  BY DEF Prio, Numbers
<1>4. s[1].kind = "exe"
  <2>1. FrameOK(v, s, x, c, 1)
    BY <1>1, <1>2
  <2> QED
    BY <2>1 DEF FrameOK, BottomOK, Main
<1>5. ASSUME n > 1
      PROVE  /\ Placed(v, s, x, c, n) /\ Rising(v, s, x, c, n - 1) /\ c[n - 1] <= c[n]
             /\ s[n - 1] \in Frame /\ x[n - 1] \in Exe /\ c[n - 1] \in Prio /\ c[n - 1] \in Nat
  <2>1. n - 1 \in 1 .. n /\ n - 1 \in 1 .. n - 1
    BY <1>1, <1>5
  <2> QED
    BY <1>1, <1>2, <1>3, <1>5, <2>1 DEF FrameOK, Rising
<1> QED
  BY <1>1, <1>2, <1>3, <1>4, <1>5 DEF FrameOK

\* A frame comes on top that interrupts, or calls dv_runqueued().
Over(v, s, x, c, t, y, d, f) ==
  /\ Shaped(t, y, d) /\ f.kind # "exe"
  /\ Longer(s, t, f) /\ Longer(x, y, x[Len(s)]) /\ Longer(c, d, c[Len(s)])
  /\ Placed(v, t, y, d, Len(s) + 1)

\* A new frame in the context of the one below it
LEMMA PushSame ==
  ASSUME Numbers, NEW v, NEW s, NEW x, NEW c, StackOK(v, s, x, c),
         NEW t, NEW y, NEW d, NEW f, Over(v, s, x, c, t, y, d, f)
  PROVE  /\ StackOK(v, t, y, d) /\ SameExes(s, c, t, d)
         /\ \A cp : CurrentOK(s, x, c, cp) => CurrentOK(t, y, d, cp)
<1>1. PICK n \in Nat \ {0} : n = Len(s) /\ Len(x) = n /\ Len(c) = n
  BY DEF StackOK, Shaped
<1>2. /\ Len(t) = n + 1 /\ t[n + 1] = f /\ y[n + 1] = x[n] /\ d[n + 1] = c[n]
      /\ Agree(s, t, n) /\ Agree(x, y, n) /\ Agree(c, d, n) /\ f.kind # "exe"
      /\ Shaped(t, y, d) /\ Placed(v, t, y, d, n + 1)
  BY <1>1 DEF Over, Longer
<1>3. y[n] = x[n] /\ d[n] = c[n]
  BY <1>2 DEF Agree
<1>4. FrameOK(v, s, x, c, n)
  BY <1>1 DEF StackOK
<1>5. FrameOK(v, t, y, d, n)
  BY <1>1, <1>2, <1>4, FrameLocal
<1>6. y[n] \in Exe /\ d[n] \in Nat /\ Base[y[n]] \in Nat
  <2>1. x[n] \in Exe /\ c[n] \in Prio
    BY <1>1 DEF StackOK, Shaped
  <2> QED
    BY <1>3, <2>1 DEF Prio, Numbers
<1>7. PICK k \in Nat : k = n + 1 /\ k > 1
  BY <1>1
<1>8. /\ Rising(v, t, y, d, k - 1) /\ k = Len(t) /\ k - 1 = n
      /\ d[k - 1] <= d[k] /\ Base[y[k - 1]] <= Base[y[k]] /\ Base[y[k]] <= d[k] /\ d[k] = d[k - 1]
  BY <1>2, <1>3, <1>5, <1>6, <1>7 DEF FrameOK, Rising
<1>9. Rising(v, t, y, d, k)
  BY <1>2, <1>7, <1>8, RisingStep
<1>10. FrameOK(v, t, y, d, k)
  BY <1>2, <1>7, <1>9 DEF FrameOK
<1>11. StackOK(v, t, y, d)
  <2>1. k \in Nat \ {0} /\ k = Len(t) /\ k - 1 <= Len(s) /\ k - 1 = n
    BY <1>1, <1>2, <1>7
  <2> QED
    BY <1>2, <1>10, <2>1, StackStep
<1>12. SameExes(s, c, t, d)
  BY <1>1, SameLonger DEF Over
<1>13. ASSUME NEW cp, CurrentOK(s, x, c, cp) PROVE CurrentOK(t, y, d, cp)
  BY <1>1, <1>13, CurrentLonger DEF Over
<1> QED
  BY <1>11, <1>12, <1>13

\* The newest frame is left.
Under(s, x, c, t, y, d) ==
  /\ Shaped(t, y, d) /\ Shorter(s, t) /\ Shorter(x, y) /\ Shorter(c, d)

\* The frame on top goes, and the one below had the same context.
LEMMA PopSame ==
  ASSUME Numbers, NEW v, NEW s, NEW x, NEW c, StackOK(v, s, x, c), s[Len(s)].kind # "exe",
         Same(x, c, Len(s)), NEW t, NEW y, NEW d, Under(s, x, c, t, y, d)
  PROVE  /\ StackOK(v, t, y, d) /\ SameExes(s, c, t, d)
         /\ \A cp : CurrentOK(s, x, c, cp) => CurrentOK(t, y, d, cp)
<1>1. PICK n \in Nat : n = Len(s) /\ n > 1 /\ Len(x) = n /\ Len(c) = n
  BY TopFacts
<1>2. StackOK(v, t, y, d)
  BY StackPop DEF Under
<1>3. SameExes(s, c, t, d)
  BY <1>1, SameShorter DEF Under
<1>4. ASSUME NEW cp, CurrentOK(s, x, c, cp) PROVE CurrentOK(t, y, d, cp)
  BY <1>1, <1>4, CurrentShorter DEF Under
<1> QED
  BY <1>2, <1>3, <1>4

\* The newest frame takes a step.
Stepped(v, s, x, c, t, d, f, p) ==
  /\ Shaped(t, x, d) /\ f.kind # "exe" /\ s[Len(s)].kind # "exe"
  /\ Changed(s, t, f) /\ Changed(c, d, p)
  /\ Placed(v, t, x, d, Len(s))

\* The current priorities, once executable e has got priority p
Follows(s, x, c, t, y, d, e, p) ==
  \A cp \in [Exe -> Prio] : CurrentOK(s, x, c, cp) =>
    \A cq : cq = [cp EXCEPT ![e] = p] => CurrentOK(t, y, d, cq)

\* The frame on top goes on to its next step.
LEMMA StepSame ==
  ASSUME Numbers, NEW v, NEW s, NEW x, NEW c, StackOK(v, s, x, c),
         NEW t, NEW d, NEW f, NEW p \in Prio, Stepped(v, s, x, c, t, d, f, p),
         p >= c[Len(s) - 1], p <= MaxTaskPrio \/ p = c[Len(s) - 1], x[Len(s)] = x[Len(s) - 1]
  PROVE  /\ StackOK(v, t, x, d) /\ SameExes(s, c, t, d)
         /\ Follows(s, x, c, t, x, d, x[Len(s)], p)
<1>1. PICK n \in Nat \ {0} : n = Len(s) /\ Len(x) = n /\ Len(c) = n /\ n > 1
  BY TopFacts DEF Stepped
<1>2. /\ Len(t) = n /\ t[n] = f /\ d[n] = p /\ f.kind # "exe" /\ s[n].kind # "exe"
      /\ Agree(s, t, n - 1) /\ Agree(x, x, n - 1) /\ Agree(c, d, n - 1)
      /\ Shaped(t, x, d) /\ Placed(v, t, x, d, n)
  BY <1>1 DEF Stepped, Changed, Agree
<1>3. d[n - 1] = c[n - 1]
  BY <1>1, <1>2 DEF Agree
<1>4. FrameOK(v, s, x, c, n - 1)
  <2>1. n - 1 \in 1 .. n
    BY <1>1
  <2> QED
    BY <1>1, <2>1 DEF StackOK
<1>5. FrameOK(v, t, x, d, n - 1)
  <2>1. n - 1 \in Nat \ {0} /\ n - 1 <= n - 1 /\ n - 1 \in Nat
    BY <1>1
  <2> QED
    BY <1>2, <1>4, <2>1, FrameLocal
<1>6. /\ x[n - 1] \in Exe /\ c[n - 1] \in Nat /\ Base[x[n - 1]] \in Nat /\ p \in Nat
      /\ MaxTaskPrio \in Nat
  <2>1. x[n - 1] \in Exe /\ c[n - 1] \in Prio
    <3>1. n - 1 \in 1 .. n
      BY <1>1
    <3> QED
      BY <1>1, <3>1 DEF StackOK, Shaped
  <2> QED
    BY <2>1 DEF Prio, Numbers
<1>7. /\ Rising(v, t, x, d, n - 1) /\ n = Len(t)
      /\ d[n - 1] <= d[n] /\ Base[x[n - 1]] <= Base[x[n]] /\ Base[x[n]] <= d[n]
      /\ (v = "v6" /\ d[n] > MaxTaskPrio => d[n] = d[n - 1])
  BY <1>1, <1>2, <1>3, <1>5, <1>6 DEF FrameOK, Rising
<1>8. Rising(v, t, x, d, n)
  BY <1>1, <1>2, <1>7, RisingStep
<1>9. FrameOK(v, t, x, d, n)
  BY <1>1, <1>2, <1>8 DEF FrameOK
<1>10. StackOK(v, t, x, d)
  <2>1. n \in Nat \ {0} /\ n - 1 <= Len(s)
    BY <1>1
  <2> QED
    BY <1>2, <1>9, <2>1, StackStep
<1>11. SameExes(s, c, t, d)
  BY <1>1, SameChanged DEF Stepped
<1>12. ASSUME NEW cp \in [Exe -> Prio], NEW cq, CurrentOK(s, x, c, cp),
              cq = [cp EXCEPT ![x[Len(s)]] = p]
       PROVE  CurrentOK(t, x, d, cq)
  BY <1>12, CurrentChanged DEF Stepped
<1> QED
  BY <1>10, <1>11, <1>12 DEF Follows

-----------------------------------------------------------------------------
(* What the invariant says of the code that runs                           *)

\* The frame of an executable is in its own context, at its base priority at least.
LEMMA ExeAt ==
  ASSUME Numbers, NEW v, NEW s, NEW x, NEW c, StackOK(v, s, x, c), NEW k \in 1 .. Len(s)
  PROVE  /\ s[k].kind = "exe" => x[k] = s[k].exe /\ (k > 1 <=> x[k] # Idle)
         /\ x[k] \in Exe /\ c[k] \in Prio /\ c[k] \in Nat /\ Base[x[k]] <= c[k]
         /\ c[k] <= c[Len(s)] /\ Base[x[k]] <= Base[x[Len(s)]]
<1>1. /\ Len(s) \in Nat /\ Len(x) = Len(s) /\ Len(c) = Len(s)
      /\ Len(s) \in 1 .. Len(s) /\ (k = Len(s) \/ k \in 1 .. Len(s) - 1)
  BY DEF StackOK, Shaped
<1>2. /\ FrameOK(v, s, x, c, k) /\ FrameOK(v, s, x, c, Len(s))
      /\ x[k] \in Exe /\ c[k] \in Prio
  BY <1>1 DEF StackOK, Shaped
<1>3. c[k] \in Nat /\ Base[x[k]] \in Nat
  BY <1>2 DEF Prio, Numbers
<1>4. s[k].kind = "exe" => x[k] = s[k].exe /\ (k > 1 <=> x[k] # Idle)
  <2>1. CASE k = 1
    BY <1>2, <2>1 DEF FrameOK, BottomOK, Main
  <2>2. CASE k > 1
    BY <1>2, <2>2 DEF FrameOK, Placed, ExeOK
  <2> QED
    BY <1>1, <2>1, <2>2
<1>5. c[k] <= c[Len(s)] /\ Base[x[k]] <= Base[x[Len(s)]]
  BY <1>1, <1>2, <1>3 DEF FrameOK, Rising
<1> QED
  BY <1>2, <1>3, <1>4, <1>5 DEF FrameOK, Rising

\* dv_exe[].currprio of the context that is on top
LEMMA CurrentTop ==
  ASSUME NEW s, NEW x, NEW c, NEW cp, Len(s) \in Nat \ {0}, CurrentOK(s, x, c, cp)
  PROVE  cp[x[Len(s)]] = c[Len(s)]
BY DEF CurrentOK

\* What is in a queue above the running priority waits, alone, at its base priority.
LEMMA Above ==
  ASSUME Numbers, NEW v, NEW s, NEW x, NEW c, NEW q, NEW mu, NEW l, StackOK(v, s, x, c),
         Rest(v, s, c, q, mu, l), NEW p \in Prio, p > c[Len(s)], q[p] # <<>>
  PROVE  /\ Len(q[p]) = 1 /\ q[p][1] \in Exe /\ Base[q[p][1]] = p
         /\ Waits(s, q, q[p][1])
<1>1. q[p] \in Seq(Exe) /\ Len(q[p]) <= 2 /\ (Len(q[p]) = 2 => Base[q[p][1]] # p)
  BY DEF Rest, QueueOK
<1>2. Len(q[p]) \in Nat /\ Len(q[p]) # 0 /\ 1 \in 1 .. Len(q[p])
  BY <1>1
<1>3. p \in Nat /\ Len(s) \in Nat /\ Len(s) \in 1 .. Len(s)
  BY DEF Prio, Numbers, StackOK, Shaped
<1>4. Base[q[p][1]] = p
  <2>1. SUFFICES ASSUME Base[q[p][1]] # p PROVE FALSE
    OBVIOUS
  <2>2. PICK m \in 1 .. Len(mu) : l[m] = p
    BY <1>2, <2>1 DEF Rest, QueueOK
  <2>3. RunsAt(s, c, mu[m].owner, l[m])
    BY DEF Rest, MutexOK
  <2>4. PICK k \in 2 .. Len(s) : p <= c[k]
    BY <2>2, <2>3 DEF RunsAt
  <2>5. k \in 1 .. Len(s)
    BY <1>3
  <2>6. c[k] \in Nat /\ c[k] <= c[Len(s)] /\ c[Len(s)] \in Nat
    BY <1>3, <2>5, ExeAt
  <2> QED
    BY <1>3, <2>4, <2>6
<1>5. Len(q[p]) = 1
  <2>1. PICK k \in Nat : k = Len(q[p])
    BY <1>2
  <2>2. k # 0 /\ k <= 2 /\ k # 2
    BY <1>1, <1>2, <1>4, <2>1
  <2>3. k = 1
    BY <2>2
  <2> QED
    BY <2>1, <2>3
<1>6. q[p][1] \in Exe
  BY <1>1, <1>2
<1>7. PICK e \in Exe : e = q[p][1] /\ Base[e] = p
  BY <1>4, <1>6
<1>8. InQueue(q, e)
  BY <1>2, <1>7 DEF InQueue
<1>9. ASSUME Live(s, e) PROVE FALSE
  <2>1. PICK k \in 1 .. Len(s) : s[k].kind = "exe" /\ s[k].exe = e
    BY <1>9 DEF Live
  <2>2. x[k] = e /\ c[k] \in Nat /\ Base[x[k]] <= c[k] /\ c[k] <= c[Len(s)] /\ c[Len(s)] \in Nat
    BY <1>3, <2>1, ExeAt
  <2> QED
    BY <1>3, <1>7, <2>2
<1> QED
  BY <1>5, <1>7, <1>8, <1>9 DEF Waits

\* An executable that waits is in the queue of its base priority.
LEMMA WaitsInQueue ==
  ASSUME Numbers, NEW s, NEW q, NEW e \in Exe, Waits(s, q, e)
  PROVE  q[Base[e]] # <<>> /\ Base[e] \in Prio
<1>1. PICK j \in 1 .. Len(q[Base[e]]) : q[Base[e]][j] = e
  BY DEF Waits, InQueue
<1>2. Base[e] \in Prio
  BY DEF Numbers, Prio
<1>3. q[Base[e]] = <<>> => FALSE
  BY <1>1
<1> QED
  BY <1>2, <1>3

\* The code of an executable runs, see Code.
CodeRuns(v, s, lo, pend) ==
  /\ s[Len(s)].kind = "exe"
  /\ ~(pend /\ (v = "v6" \/ lo = 0) /\ \A k \in 1 .. Len(s) : ~IsHandler(s[k]))

\* Nothing is queued above code that runs.
LEMMA NoneAbove ==
  ASSUME Numbers, LevelsRise, NEW v, NEW s, NEW x, NEW c,
         NEW cp, NEW me, NEW lo, NEW q, NEW mu, NEW l,
         NEW pend, Good(v, s, x, c, cp, me, lo, q, mu, l, pend), CodeRuns(v, s, lo, pend),
         NEW p \in Prio, p > c[Len(s)]
  PROVE  q[p] = <<>>
<1>1. PICK n \in Nat \ {0} : n = Len(s)
  BY DEF Good, StackOK, Shaped
<1>2. SUFFICES ASSUME q[p] # <<>> PROVE FALSE
  OBVIOUS
<1>3. PICK e \in Exe : Base[e] = p /\ Waits(s, q, e)
  BY <1>2, Above DEF Good
<1>4. /\ s[n].kind = "exe" /\ n \in 1 .. Len(s)
      /\ x[n] \in Exe /\ c[n] \in Prio /\ c[n] \in Nat /\ Base[x[n]] <= c[n] /\ p \in Nat
  BY <1>1, ExeAt DEF CodeRuns, Good, Prio, Numbers
<1>5. e \notin Isr
  BY <1>1, <1>3, <1>4 DEF Good, WaitOK
<1>6. e \in Task
  <2>1. e # Idle
    BY <1>1, <1>3, <1>4 DEF Numbers
  <2> QED
    BY <1>5, <2>1 DEF Exe
<1>7. pend
  BY <1>1, <1>3, <1>4, <1>6 DEF Good, WaitOK, Serves
<1>8. p <= MaxTaskPrio /\ c[n] < MaxTaskPrio /\ MaxTaskPrio \in Nat
  BY <1>1, <1>3, <1>4, <1>6 DEF Numbers
<1>9. v = "v6" \/ lo = 0
  <2>1. lo = Level(c[n])
    BY <1>1, <1>4 DEF Good, ContextOK
  <2> QED
    BY <1>4, <1>8, <2>1 DEF LevelsRise
<1>10. PICK k \in 1 .. n : IsHandler(s[k])
  BY <1>1, <1>7, <1>9 DEF CodeRuns
<1>11. k # n
  BY <1>4, <1>10 DEF IsHandler
<1>12. n > 1 /\ InHandler(s, n)
  BY <1>10, <1>11 DEF InHandler
<1>13. x[n] \in Isr
  <2>1. FrameOK(v, s, x, c, n)
    BY <1>1 DEF Good, StackOK
  <2> QED
    BY <1>4, <1>12, <2>1 DEF FrameOK, Placed, ExeOK
<1>14. Base[x[n]] > MaxTaskPrio /\ Base[x[n]] \in Nat
  BY <1>4, <1>13 DEF Numbers
<1> QED
  BY <1>4, <1>8, <1>14

-----------------------------------------------------------------------------
(* Exceptions                                                              *)

\* The lengths, and the newest frame
LEMMA GoodTop ==
  ASSUME Numbers, NEW v, NEW s, NEW x, NEW c, NEW cp, NEW me, NEW lo, NEW q, NEW mu, NEW l,
         NEW pend, Good(v, s, x, c, cp, me, lo, q, mu, l, pend), NEW n, n = Len(s)
  PROVE  /\ n \in Nat /\ n >= 1 /\ Len(x) = n /\ Len(c) = n
         /\ s \in Seq(Frame) /\ x \in Seq(Exe) /\ c \in Seq(Prio)
         /\ s[n] \in Frame /\ x[n] \in Exe /\ c[n] \in Prio /\ c[n] \in Nat
         /\ cp[x[n]] = c[n] /\ [cp EXCEPT ![x[n]] = c[n]] = cp
         /\ s[n].kind # "exe" => n > 1 /\ Placed(v, s, x, c, n)
         /\ s[n].kind # "run" => me = x[n]
         /\ n > 1 => /\ s[n - 1] \in Frame /\ x[n - 1] \in Exe
                     /\ c[n - 1] \in Prio /\ c[n - 1] \in Nat /\ c[n - 1] <= c[n]
<1>1. StackOK(v, s, x, c) /\ CurrentOK(s, x, c, cp) /\ cp \in [Exe -> Prio]
  BY DEF Good
<1>2. /\ n \in Nat /\ n >= 1 /\ Len(x) = n /\ Len(c) = n
      /\ s \in Seq(Frame) /\ x \in Seq(Exe) /\ c \in Seq(Prio)
  BY <1>1 DEF StackOK, Shaped
<1>3. cp[x[n]] = c[n]
  BY <1>1, <1>2, CurrentTop
<1>4. /\ s[n] \in Frame /\ x[n] \in Exe /\ c[n] \in Prio /\ c[n] \in Nat
      /\ s[n].kind # "exe" => n > 1
      /\ n > 1 => /\ Placed(v, s, x, c, n)
                  /\ s[n - 1] \in Frame /\ x[n - 1] \in Exe
                  /\ c[n - 1] \in Prio /\ c[n - 1] \in Nat /\ c[n - 1] <= c[n]
  BY <1>1, TopFacts
<1>5. [cp EXCEPT ![x[n]] = c[n]] = cp
  BY <1>1, <1>3, <1>4
<1>6. s[n].kind # "run" => me = x[n]
  BY DEF Good, ContextOK
<1> QED
  BY <1>2, <1>3, <1>4, <1>5, <1>6

\* Code at which the processor takes an interrupt, see Interruptible
Stops(f) == \/ f.kind \in {"exe", "irq", "pendsv"}
            \/ f.kind = "preempt" /\ f.pc \in {"frame", "svc"}

\* What an exception interrupts has its own executable and level.
LEMMA Interrupted ==
  ASSUME Numbers, LevelsRise, NEW v, NEW s, NEW x, NEW c,
         NEW cp, NEW me, NEW lo, NEW q, NEW mu, NEW l,
         NEW pend, Good(v, s, x, c, cp, me, lo, q, mu, l, pend), Stops(s[Len(s)]),
         v = "v6" \/ lo # AllShut
  PROVE  /\ s[Len(s)].kind \in {"exe", "irq", "pendsv"} \/ OpenPreempt(v, s[Len(s)])
         /\ me = x[Len(s)] /\ lo = Level(c[Len(s)])
<1>1. PICK n \in Nat : n = Len(s)
  BY GoodTop
<1>2. CASE s[n].kind \in {"exe", "irq", "pendsv"}
  BY <1>1, <1>2 DEF Good, ContextOK
<1>3. CASE s[n].kind = "preempt" /\ s[n].pc \in {"frame", "svc"}
  <2>1. v = "v6" /\ lo = 0 /\ OpenPreempt(v, s[n]) /\ me = x[n]
    BY <1>1, <1>3 DEF Good, ContextOK, OpenPreempt
  <2>2. c[n] <= MaxTaskPrio /\ c[n] \in Prio
    <3>1. Placed(v, s, x, c, n) /\ c[n] \in Prio
      BY <1>1, <1>3, GoodTop
    <3> QED
      BY <1>3, <3>1 DEF Placed, PendOK
  <2>3. Level(c[n]) = 0
    BY <2>2 DEF LevelsRise
  <2> QED
    BY <1>1, <2>1, <2>3
<1> QED
  BY <1>1, <1>2, <1>3 DEF Stops

\* Nothing but an ISR's own dv_irq() waits for dv_runqueued(), where that is not running.
LEMMA NoIsrWaits ==
  ASSUME NEW s, NEW c, NEW q, NEW pend, WaitOK(s, c, q, pend), s[Len(s)].kind # "run",
         NEW i \in Isr
  PROVE  ~Waits(s, q, i)
BY DEF WaitOK

\* Where every task that waits is served, all is well.
LEMMA ServesAll ==
  ASSUME NEW s, NEW c, NEW q, NEW pend, WaitOK(s, c, q, pend), s[Len(s)].kind # "run",
         NEW t, NEW d, NEW pend2, SameExes(s, c, t, d),
         \A p : Serves(t[Len(t)], pend2, p)
  PROVE  WaitOK(t, d, q, pend2)
<1>1. \A i \in Isr : ~Waits(t, q, i)
  BY NoIsrWaits, SameWaits
<1> QED
  BY <1>1 DEF WaitOK

IrqEntry(i) == [kind |-> "irq", isr |-> i, me |-> None, myp |-> 0, pc |-> "save"]

\* dv_irq() begins in the context of what it interrupts.
LEMMA TakeIrqKeeps ==
  ASSUME Numbers, LevelsRise, NEW v, NEW s, NEW x, NEW c,
         NEW cp, NEW me, NEW lo, NEW q, NEW mu, NEW l,
         NEW pend, Good(v, s, x, c, cp, me, lo, q, mu, l, pend),
         NEW i \in Isr, v = "v6" \/ Level(Base[i]) > lo, Stops(s[Len(s)]),
         \A k \in 1 .. Len(s) : s[k].kind = "irq" => Base[s[k].isr] < Base[i],
         NEW t \in Seq(Frame), Longer(s, t, IrqEntry(i))
  PROVE  \E y \in Seq(Exe), d \in Seq(Prio) : Good(v, t, y, d, cp, me, lo, q, mu, l, pend)
<1>1. PICK n \in Nat \ {0} : n = Len(s)
  BY GoodTop
<1>2. /\ Len(x) = n /\ Len(c) = n /\ s \in Seq(Frame) /\ x \in Seq(Exe) /\ c \in Seq(Prio)
      /\ x[n] \in Exe /\ c[n] \in Prio /\ c[n] \in Nat /\ Base[i] \in Prio /\ Base[i] \in Nat
      /\ MaxTaskPrio \in Nat /\ Base[i] > MaxTaskPrio
  <2>1. Base[i] \in Nat /\ Base[i] < MaxPrio /\ MaxPrio \in Nat
    BY DEF Numbers, Exe
  <2> QED
    BY <1>1, <2>1, GoodTop DEF Numbers, Prio
<1>3. v = "v6" \/ lo # AllShut
  BY <1>2 DEF LevelsRise
<1>4. /\ s[n].kind \in {"exe", "irq", "pendsv"} \/ OpenPreempt(v, s[n])
      /\ me = x[n] /\ lo = Level(c[n])
  BY <1>1, <1>3, Interrupted
<1>5. c[n] < Base[i]
  <2>1. CASE v # "v6"
    BY <1>2, <1>4, <2>1 DEF LevelsRise
  <2>2. CASE v = "v6" /\ c[n] > MaxTaskPrio
    <3>1. Rising(v, s, x, c, n)
      BY <1>1, TopFacts DEF Good
    <3>2. PICK h \in 1 .. n : s[h].kind = "irq" /\ c[n] <= Base[s[h].isr]
      BY <2>2, <3>1 DEF Rising
    <3>3. s[h] \in IrqFrame
      <4>1. s[h] \in Frame
        BY <1>1, <1>2
      <4> QED
        BY <3>2, <4>1 DEF Frame, ExeFrame, RunFrame, PendSVFrame, PreemptFrame
    <3>4. s[h].isr \in Exe
      BY <3>3 DEF IrqFrame, Exe
    <3>5. Base[s[h].isr] \in Nat /\ Base[s[h].isr] < Base[i]
      BY <1>1, <3>2, <3>4 DEF Numbers
    <3> QED
      BY <1>2, <3>2, <3>5
  <2>3. CASE c[n] <= MaxTaskPrio
    BY <1>2, <2>3
  <2> QED
    BY <1>2, <2>1, <2>2, <2>3
<1>6. PICK y \in Seq(Exe) : Longer(x, y, x[n])
  BY <1>2, LongerExists
<1>7. PICK d \in Seq(Prio) : Longer(c, d, c[n])
  BY <1>2, LongerExists
<1>8. PICK f : f = IrqEntry(i)
  OBVIOUS
<1>9. /\ f.kind = "irq" /\ f.isr = i /\ f.pc = "save"
      /\ Longer(s, t, f)
  BY <1>8 DEF IrqEntry
<1>10. /\ Len(t) = n + 1 /\ t[n + 1] = f /\ y[n + 1] = x[n] /\ d[n + 1] = c[n]
       /\ t[n] = s[n] /\ y[n] = x[n] /\ d[n] = c[n] /\ Len(y) = n + 1 /\ Len(d) = n + 1
  <2>1. n \in 1 .. n
    OBVIOUS
  <2> QED
    BY <1>1, <1>2, <1>6, <1>7, <1>9, <2>1 DEF Longer, Agree
<1>11. Placed(v, t, y, d, n + 1)
  <2>1. (n + 1) - 1 = n
    OBVIOUS
  <2>2. IrqOK(v, t, y, d, n + 1)
    BY <1>4, <1>5, <1>9, <1>10, <2>1 DEF IrqOK
  <2> QED
    BY <1>9, <1>10, <2>2 DEF Placed
<1>12. Over(v, s, x, c, t, y, d, f)
  <2>1. Shaped(t, y, d)
    BY <1>10 DEF Shaped
  <2> QED
    BY <1>1, <1>6, <1>7, <1>9, <1>11, <2>1 DEF Over
<1>13. StackOK(v, t, y, d) /\ SameExes(s, c, t, d) /\ CurrentOK(t, y, d, cp)
  <2>1. StackOK(v, s, x, c) /\ CurrentOK(s, x, c, cp)
    BY DEF Good
  <2> QED
    BY <1>12, <2>1, PushSame
<1>14. ContextOK(v, t, y, d, me, lo)
  BY <1>4, <1>9, <1>10 DEF ContextOK
<1>15. Rest(v, t, d, q, mu, l)
  BY <1>13, RestStays DEF Good
<1>16. WaitOK(t, d, q, pend)
  <2>1. s[Len(s)].kind # "run"
    BY DEF Stops
  <2>2. \A p : Serves(t[Len(t)], pend, p)
    BY <1>9, <1>10 DEF Serves
  <2>3. WaitOK(s, c, q, pend)
    BY DEF Good
  <2> QED
    BY <1>13, <2>1, <2>2, <2>3, ServesAll
<1>17. Good(v, t, y, d, cp, me, lo, q, mu, l, pend)
  BY <1>13, <1>14, <1>15, <1>16 DEF Good
<1> QED
  BY <1>17

-----------------------------------------------------------------------------
(* What is beside a longer stack, a shorter one, one with another top      *)

Pushed(s, x, c, t, y, d, f, n) ==
  /\ Shaped(t, y, d) /\ Longer(s, t, f) /\ Longer(x, y, x[n]) /\ Longer(c, d, c[n])
  /\ Len(t) = n + 1 /\ t[n + 1] = f /\ y[n + 1] = x[n] /\ d[n + 1] = c[n]
  /\ t[n] = s[n] /\ y[n] = x[n] /\ d[n] = c[n]
  /\ InHandler(t, n + 1) <=> InHandler(s, n) \/ IsHandler(s[n])

\* The sequences beside the stack, for a stack with one frame more, one less, one changed
LEMMA PushShape ==
  ASSUME NEW s, NEW x, NEW c, Shaped(s, x, c), NEW n, n = Len(s),
         NEW f, NEW t \in Seq(Frame), Longer(s, t, f)
  PROVE  \E y \in Seq(Exe), d \in Seq(Prio) : Pushed(s, x, c, t, y, d, f, n)
<1>1. /\ n \in Nat \ {0} /\ Len(x) = n /\ Len(c) = n /\ x \in Seq(Exe) /\ c \in Seq(Prio)
      /\ x[n] \in Exe /\ c[n] \in Prio
  BY DEF Shaped
<1>2. PICK y \in Seq(Exe) : Longer(x, y, x[n])
  BY <1>1, LongerExists
<1>3. PICK d \in Seq(Prio) : Longer(c, d, c[n])
  BY <1>1, LongerExists
<1>4. /\ Len(t) = n + 1 /\ t[n + 1] = f /\ y[n + 1] = x[n] /\ d[n + 1] = c[n]
      /\ \A k \in 1 .. n : t[k] = s[k] /\ y[k] = x[k] /\ d[k] = c[k]
      /\ Len(y) = n + 1 /\ Len(d) = n + 1
  BY <1>1, <1>2, <1>3 DEF Longer, Agree
<1>5. t[n] = s[n] /\ y[n] = x[n] /\ d[n] = c[n]
  BY <1>1, <1>4
<1>6. Shaped(t, y, d)
  BY <1>1, <1>4 DEF Shaped
<1>7. InHandler(t, n + 1) <=> InHandler(s, n) \/ IsHandler(s[n])
  <2>1. \A h \in 1 .. (n + 1) - 1 : h = n \/ h \in 1 .. n - 1
    BY <1>1
  <2>2. \A h \in 1 .. n - 1 : h \in 1 .. (n + 1) - 1 /\ t[h] = s[h]
    BY <1>1, <1>4
  <2>3. n \in 1 .. (n + 1) - 1
    BY <1>1
  <2> QED
    BY <1>5, <2>1, <2>2, <2>3 DEF InHandler
<1> QED
  BY <1>2, <1>3, <1>4, <1>5, <1>6, <1>7 DEF Pushed

Popped(s, x, c, t, y, d, n) ==
  /\ Under(s, x, c, t, y, d)
  /\ Len(t) = n - 1 /\ t[n - 1] = s[n - 1] /\ y[n - 1] = x[n - 1] /\ d[n - 1] = c[n - 1]

LEMMA PopShape ==
  ASSUME NEW s, NEW x, NEW c, Shaped(s, x, c), NEW n, n = Len(s), n > 1,
         NEW t \in Seq(Frame), Shorter(s, t)
  PROVE  \E y \in Seq(Exe), d \in Seq(Prio) : Popped(s, x, c, t, y, d, n)
<1>1. /\ n \in Nat \ {0} /\ Len(x) = n /\ Len(c) = n /\ x \in Seq(Exe) /\ c \in Seq(Prio)
      /\ Len(x) >= 1 /\ Len(c) >= 1
  BY DEF Shaped
<1>2. PICK y \in Seq(Exe) : Shorter(x, y)
  BY <1>1, ShorterExists
<1>3. PICK d \in Seq(Prio) : Shorter(c, d)
  BY <1>1, ShorterExists
<1>4. /\ Len(t) = n - 1
      /\ \A k \in 1 .. n - 1 : t[k] = s[k] /\ y[k] = x[k] /\ d[k] = c[k]
      /\ Len(y) = n - 1 /\ Len(d) = n - 1
  BY <1>1, <1>2, <1>3 DEF Shorter, Agree
<1>5. t[n - 1] = s[n - 1] /\ y[n - 1] = x[n - 1] /\ d[n - 1] = c[n - 1]
  <2>1. n - 1 \in 1 .. n - 1
    BY <1>1
  <2> QED
    BY <1>4, <2>1
<1>6. Shaped(t, y, d)
  BY <1>1, <1>4 DEF Shaped
<1> QED
  BY <1>2, <1>3, <1>4, <1>5, <1>6 DEF Popped, Under

Moved(s, x, c, t, d, f, p, n) ==
  /\ Shaped(t, x, d) /\ Changed(s, t, f) /\ Changed(c, d, p)
  /\ Len(t) = n /\ t[n] = f /\ d[n] = p
  /\ n > 1 => t[n - 1] = s[n - 1] /\ d[n - 1] = c[n - 1]
  /\ InHandler(t, n) <=> InHandler(s, n)

LEMMA MoveShape ==
  ASSUME NEW s, NEW x, NEW c, Shaped(s, x, c), NEW n, n = Len(s), NEW p \in Prio,
         NEW f, NEW t \in Seq(Frame), Changed(s, t, f)
  PROVE  \E d \in Seq(Prio) : Moved(s, x, c, t, d, f, p, n)
<1>1. n \in Nat \ {0} /\ Len(x) = n /\ Len(c) = n /\ x \in Seq(Exe) /\ c \in Seq(Prio)
  BY DEF Shaped
<1>2. PICK d \in Seq(Prio) : Changed(c, d, p)
  BY <1>1, ChangedExists
<1>3. /\ Len(t) = n /\ t[n] = f /\ d[n] = p
      /\ \A k \in 1 .. n - 1 : t[k] = s[k] /\ d[k] = c[k]
      /\ Len(d) = n
  BY <1>1, <1>2 DEF Changed, Agree
<1>4. n > 1 => t[n - 1] = s[n - 1] /\ d[n - 1] = c[n - 1]
  <2>1. n > 1 => n - 1 \in 1 .. n - 1
    BY <1>1
  <2> QED
    BY <1>3, <2>1
<1>5. Shaped(t, x, d)
  BY <1>1, <1>3 DEF Shaped
<1>6. InHandler(t, n) <=> InHandler(s, n)
  BY <1>3 DEF InHandler
<1> QED
  BY <1>2, <1>3, <1>4, <1>5, <1>6 DEF Moved

-----------------------------------------------------------------------------
(* PendSV                                                                  *)

PendSVEntry == [kind |-> "pendsv"]

\* PendSV comes in thread mode at level 0: its context is that of a task.
LEMMA TakePendSVKeeps ==
  ASSUME Numbers, LevelsRise, NEW v, NEW s, NEW x, NEW c,
         NEW cp, NEW me, NEW lo, NEW q, NEW mu, NEW l,
         NEW pend, Good(v, s, x, c, cp, me, lo, q, mu, l, pend),
         v = "v6" \/ lo = 0, Stops(s[Len(s)]), \A k \in 1 .. Len(s) : ~IsHandler(s[k]),
         NEW t \in Seq(Frame), Longer(s, t, PendSVEntry)
  PROVE  \E y \in Seq(Exe), d \in Seq(Prio) : Good(v, t, y, d, cp, me, lo, q, mu, l, FALSE)
<1>1. PICK n \in Nat \ {0} : n = Len(s)
  BY GoodTop
<1>2. v = "v6" \/ lo # AllShut
  BY DEF LevelsRise
<1>3. /\ s[n].kind = "exe" \/ OpenPreempt(v, s[n])
      /\ me = x[n] /\ lo = Level(c[n])
  BY <1>1, <1>2, Interrupted DEF IsHandler
<1>4. c[n] <= MaxTaskPrio
  <2>1. c[n] \in Nat /\ c[n] \in Prio /\ MaxTaskPrio \in Nat
    BY <1>1, GoodTop DEF Numbers
  <2>2. CASE lo = 0
    BY <1>3, <2>1, <2>2 DEF LevelsRise
  <2>3. CASE v = "v6"
    <3>1. Rising(v, s, x, c, n)
      BY <1>1, TopFacts DEF Good
    <3>2. \A h \in 1 .. n : s[h].kind # "irq"
      BY <1>1 DEF IsHandler
    <3> QED
      BY <2>1, <2>3, <3>1, <3>2 DEF Rising
  <2> QED
    BY <2>2, <2>3
<1>5. PICK f : f = PendSVEntry
  OBVIOUS
<1>6. f.kind = "pendsv" /\ Longer(s, t, f)
  BY <1>5 DEF PendSVEntry
<1>7. StackOK(v, s, x, c) /\ CurrentOK(s, x, c, cp) /\ Shaped(s, x, c)
  BY DEF Good, StackOK
<1>8. PICK y \in Seq(Exe), d \in Seq(Prio) : Pushed(s, x, c, t, y, d, f, n)
  BY <1>1, <1>6, <1>7, PushShape
<1>9. /\ Len(t) = n + 1 /\ t[n + 1] = f /\ y[n + 1] = x[n] /\ d[n + 1] = c[n]
      /\ t[n] = s[n] /\ y[n] = x[n] /\ d[n] = c[n]
  BY <1>8 DEF Pushed
<1>10. ~InHandler(t, n + 1)
  BY <1>1, <1>8 DEF Pushed, InHandler
<1>11. Placed(v, t, y, d, n + 1)
  <2>1. (n + 1) - 1 = n
    OBVIOUS
  <2>2. PendOK(v, t, y, d, n + 1)
    BY <1>3, <1>4, <1>9, <1>10, <2>1 DEF PendOK, Same
  <2> QED
    BY <1>6, <1>9, <2>2 DEF Placed
<1>12. Over(v, s, x, c, t, y, d, f)
  BY <1>1, <1>6, <1>8, <1>11 DEF Over, Pushed
<1>13. StackOK(v, t, y, d) /\ SameExes(s, c, t, d) /\ CurrentOK(t, y, d, cp)
  BY <1>7, <1>12, PushSame
<1>14. ContextOK(v, t, y, d, me, lo)
  BY <1>3, <1>6, <1>9 DEF ContextOK
<1>15. Rest(v, t, d, q, mu, l)
  BY <1>13, RestStays DEF Good
<1>16. WaitOK(t, d, q, FALSE)
  <2>1. s[Len(s)].kind # "run"
    BY DEF Stops
  <2>2. \A p : Serves(t[Len(t)], FALSE, p)
    BY <1>6, <1>9 DEF Serves
  <2>3. WaitOK(s, c, q, pend)
    BY DEF Good
  <2> QED
    BY <1>13, <2>1, <2>2, <2>3, ServesAll
<1>17. Good(v, t, y, d, cp, me, lo, q, mu, l, FALSE)
  BY <1>13, <1>14, <1>15, <1>16 DEF Good
<1> QED
  BY <1>17

Locked(v) == IF v = "v7" THEN AllShut ELSE 0

\* The return from PendSV leaves dv_preempt() in its place.
LEMMA PendSVTrapKeeps ==
  ASSUME Numbers, LevelsRise, NEW v, NEW s, NEW x, NEW c,
         NEW cp, NEW me, NEW lo, NEW q, NEW mu, NEW l,
         NEW pend, Good(v, s, x, c, cp, me, lo, q, mu, l, pend), s[Len(s)].kind = "pendsv",
         NEW f, f.kind = "preempt", f.pc = "frame", NEW t \in Seq(Frame), Changed(s, t, f)
  PROVE  \E d \in Seq(Prio) : Good(v, t, x, d, cp, me, Locked(v), q, mu, l, FALSE)
<1>1. PICK n \in Nat \ {0} : n = Len(s)
  BY GoodTop
<1>2. /\ s[n].kind = "pendsv" /\ n > 1 /\ PendOK(v, s, x, c, n) /\ c[n] \in Prio /\ me = x[n]
      /\ [cp EXCEPT ![x[n]] = c[n]] = cp /\ c[n] \in Nat
  BY <1>1, GoodTop DEF Placed
<1>3. StackOK(v, s, x, c) /\ CurrentOK(s, x, c, cp) /\ Shaped(s, x, c) /\ cp \in [Exe -> Prio]
  BY DEF Good, StackOK
<1>4. PICK d \in Seq(Prio) : Moved(s, x, c, t, d, f, c[n], n)
  BY <1>1, <1>2, <1>3, MoveShape
<1>5. /\ Len(t) = n /\ t[n] = f /\ d[n] = c[n]
      /\ t[n - 1] = s[n - 1] /\ d[n - 1] = c[n - 1]
      /\ InHandler(t, n) <=> InHandler(s, n)
  BY <1>2, <1>4 DEF Moved
<1>6. Placed(v, t, x, d, n)
  <2>1. PendOK(v, t, x, d, n)
    BY <1>2, <1>5 DEF PendOK, Same
  <2> QED
    BY <1>5, <2>1 DEF Placed
<1>7. Stepped(v, s, x, c, t, d, f, c[n])
  BY <1>1, <1>2, <1>4, <1>6 DEF Stepped, Moved
<1>8. StackOK(v, t, x, d) /\ SameExes(s, c, t, d) /\ CurrentOK(t, x, d, cp)
  <2>1. c[n] = c[n - 1] /\ x[n] = x[n - 1]
    BY <1>2 DEF PendOK, Same
  <2>2. c[n] >= c[n - 1] /\ (c[n] <= MaxTaskPrio \/ c[n] = c[n - 1])
    BY <1>2, <2>1
  <2>3. cp = [cp EXCEPT ![x[Len(s)]] = c[n]]
    BY <1>1, <1>2
  <2> QED
    BY <1>1, <1>2, <1>3, <1>7, <2>1, <2>2, <2>3, StepSame DEF Follows
<1>9. ContextOK(v, t, x, d, me, Locked(v))
  BY <1>2, <1>5 DEF ContextOK, Locked
<1>10. Rest(v, t, d, q, mu, l)
  BY <1>8, RestStays DEF Good
<1>11. WaitOK(t, d, q, FALSE)
  <2>1. s[Len(s)].kind # "run"
    OBVIOUS
  <2>2. \A p : Serves(t[Len(t)], FALSE, p)
    BY <1>5 DEF Serves
  <2>3. WaitOK(s, c, q, pend)
    BY DEF Good
  <2> QED
    BY <1>8, <2>1, <2>2, <2>3, ServesAll
<1>12. Good(v, t, x, d, cp, me, Locked(v), q, mu, l, FALSE)
  BY <1>8, <1>9, <1>10, <1>11 DEF Good
<1> QED
  BY <1>12

-----------------------------------------------------------------------------
(* dv_irq()                                                                *)

\* The priority dv_irq() gives to what it has interrupted
LEMMA RaisedIs ==
  ASSUME Numbers, LevelsRise, NEW r \in Prio
  PROVE  /\ Raised(r) \in Prio /\ Raised(r) \in Nat /\ r <= Raised(r) /\ MaxTaskPrio <= Raised(r)
         /\ Raised(r) <= MaxTaskPrio \/ Raised(r) = r
         /\ Level(Raised(r)) = Level(r)
         /\ \A i \in Isr : r < Base[i] => Raised(r) < Base[i]
<1>1. /\ r \in Nat /\ MaxTaskPrio \in Nat /\ MaxPrio \in Nat /\ MaxTaskPrio < MaxPrio
      /\ r <= MaxPrio
  BY DEF Numbers, Prio
<1>2. MaxTaskPrio \in Prio
  BY <1>1 DEF Prio
<1>3. CASE r < MaxTaskPrio
  <2>1. Raised(r) = MaxTaskPrio
    BY <1>3 DEF Raised
  <2>2. Level(r) = 0 /\ Level(MaxTaskPrio) = 0
    BY <1>1, <1>2, <1>3 DEF LevelsRise
  <2> QED
    BY <1>1, <1>2, <1>3, <2>1, <2>2 DEF Numbers
<1>4. CASE ~(r < MaxTaskPrio)
  <2>1. Raised(r) = r
    BY <1>4 DEF Raised
  <2> QED
    BY <1>1, <1>4, <2>1
<1> QED
  BY <1>3, <1>4

\* dv_irq(), whose frame is g, goes on to the step of the frame f; the priority of the
\* interrupted code, of the executable e, was low and becomes p.
IrqNext(g, f, e, low, p) ==
  /\ f.kind = "irq" /\ f.isr = g.isr
  /\ f.pc # "save" => f.me = e /\ f.myp = low
  /\ p = IF f.pc \in {"vector", "restore"} THEN Raised(low) ELSE low

Sets(cp, e, p, cq) == cq = [cp EXCEPT ![e] = p]

\* dv_irq() goes on to its next step in the context of what it has interrupted.
LEMMA IrqMoveKeeps ==
  ASSUME Numbers, LevelsRise, NEW v, NEW s, NEW x, NEW c,
         NEW cp, NEW me, NEW lo, NEW q, NEW mu, NEW l,
         NEW pend, Good(v, s, x, c, cp, me, lo, q, mu, l, pend), NEW n, n = Len(s),
         s[n].kind = "irq", NEW f, NEW p, IrqNext(s[n], f, x[n], c[n - 1], p),
         NEW t \in Seq(Frame), Changed(s, t, f), NEW cq, Sets(cp, x[n], p, cq)
  PROVE  \E d \in Seq(Prio) : /\ Moved(s, x, c, t, d, f, p, n)
                              /\ Good(v, t, x, d, cq, me, lo, q, mu, l, pend)
<1>0. /\ f.kind = "irq" /\ f.isr = s[n].isr /\ (f.pc # "save" => f.me = x[n] /\ f.myp = c[n - 1])
      /\ p = IF f.pc \in {"vector", "restore"} THEN Raised(c[n - 1]) ELSE c[n - 1]
  BY DEF IrqNext
<1>1. /\ n \in Nat \ {0} /\ n > 1 /\ IrqOK(v, s, x, c, n) /\ c[n] \in Prio /\ c[n] \in Nat
      /\ me = x[n] /\ c[n - 1] \in Prio /\ c[n - 1] \in Nat /\ c[n - 1] <= c[n] /\ x[n] \in Exe
  BY GoodTop DEF Placed
<1>2. StackOK(v, s, x, c) /\ CurrentOK(s, x, c, cp) /\ Shaped(s, x, c) /\ cp \in [Exe -> Prio]
  BY DEF Good, StackOK
<1>3. s[n].isr \in Isr
  <2>1. s[n] \in Frame
    BY GoodTop
  <2>2. s[n] \in IrqFrame
    BY <2>1 DEF Frame, ExeFrame, RunFrame, PendSVFrame, PreemptFrame
  <2> QED
    BY <2>2 DEF IrqFrame
<1>4. /\ p \in Prio /\ p \in Nat /\ c[n - 1] <= p /\ (p <= MaxTaskPrio \/ p = c[n - 1])
      /\ Level(p) = Level(c[n - 1]) /\ p < Base[s[n].isr]
  <2>1. c[n - 1] < Base[s[n].isr]
    <3>1. c[n] < Base[s[n].isr] /\ Base[s[n].isr] \in Nat
      BY <1>1, <1>3 DEF IrqOK, Numbers, Exe
    <3> QED
      BY <1>1, <3>1
  <2>2. CASE p = c[n - 1]
    BY <1>1, <2>1, <2>2
  <2>3. CASE p = Raised(c[n - 1])
    BY <1>1, <1>3, <2>1, <2>3, RaisedIs
  <2> QED
    BY <1>0, <2>2, <2>3
<1>5. Level(c[n]) = Level(p)
  <2>1. c[n] = c[n - 1] \/ c[n] = Raised(c[n - 1])
    BY <1>1 DEF IrqOK
  <2> QED
    BY <1>1, <1>4, <2>1, RaisedIs
<1>6. PICK d \in Seq(Prio) : Moved(s, x, c, t, d, f, p, n)
  BY <1>2, <1>4, MoveShape
<1>7. /\ Len(t) = n /\ t[n] = f /\ d[n] = p
      /\ t[n - 1] = s[n - 1] /\ d[n - 1] = c[n - 1]
  BY <1>1, <1>6 DEF Moved
<1>8. Placed(v, t, x, d, n)
  <2>1. IrqOK(v, t, x, d, n)
    BY <1>0, <1>1, <1>4, <1>7 DEF IrqOK
  <2> QED
    BY <1>0, <1>7, <2>1 DEF Placed
<1>9. Stepped(v, s, x, c, t, d, f, p)
  BY <1>0, <1>1, <1>6, <1>8 DEF Stepped, Moved
<1>10. StackOK(v, t, x, d) /\ SameExes(s, c, t, d) /\ CurrentOK(t, x, d, cq)
  <2>1. x[n] = x[n - 1]
    BY <1>1 DEF IrqOK
  <2>2. p >= c[n - 1]
    BY <1>1, <1>4
  <2>3. cq = [cp EXCEPT ![x[Len(s)]] = p]
    BY DEF Sets
  <2>4. p >= c[Len(s) - 1] /\ (p <= MaxTaskPrio \/ p = c[Len(s) - 1]) /\ x[Len(s)] = x[Len(s) - 1]
    BY <1>4, <2>1, <2>2
  <2>5. /\ StackOK(v, t, x, d) /\ SameExes(s, c, t, d)
        /\ Follows(s, x, c, t, x, d, x[Len(s)], p)
    BY <1>2, <1>4, <1>9, <2>4, StepSame
  <2> QED
    BY <1>2, <2>3, <2>5 DEF Follows
<1>11. ContextOK(v, t, x, d, me, lo)
  <2>1. lo = Level(c[n])
    BY DEF Good, ContextOK
  <2> QED
    BY <1>0, <1>1, <1>5, <1>7, <2>1 DEF ContextOK
<1>12. Rest(v, t, d, q, mu, l)
  BY <1>10, RestStays DEF Good
<1>13. WaitOK(t, d, q, pend)
  <2>1. s[Len(s)].kind # "run"
    OBVIOUS
  <2>2. \A r : Serves(t[Len(t)], pend, r)
    BY <1>0, <1>7 DEF Serves
  <2>3. WaitOK(s, c, q, pend)
    BY DEF Good
  <2> QED
    BY <1>10, <2>1, <2>2, <2>3, ServesAll
<1>14. cq \in [Exe -> Prio]
  BY <1>1, <1>2, <1>4 DEF Sets
<1>15. Good(v, t, x, d, cq, me, lo, q, mu, l, pend)
  BY <1>10, <1>11, <1>12, <1>13, <1>14 DEF Good
<1> QED
  BY <1>6, <1>15

\* A frame that is not an executable's is left; the lock level and the rest are to be seen to.
LEMMA PopKeeps ==
  ASSUME Numbers, LevelsRise, NEW v, NEW s, NEW x, NEW c,
         NEW cp, NEW me, NEW lo, NEW q, NEW mu, NEW l,
         NEW pend, Good(v, s, x, c, cp, me, lo, q, mu, l, pend), NEW n, n = Len(s),
         s[n].kind # "exe", Same(x, c, n), NEW t \in Seq(Frame), Shorter(s, t)
  PROVE  \E y \in Seq(Exe), d \in Seq(Prio) :
           /\ Popped(s, x, c, t, y, d, n) /\ SameExes(s, c, t, d)
           /\ StackOK(v, t, y, d) /\ CurrentOK(t, y, d, cp) /\ Rest(v, t, d, q, mu, l)
<1>1. n > 1
  BY GoodTop
<1>2. StackOK(v, s, x, c) /\ CurrentOK(s, x, c, cp) /\ Shaped(s, x, c)
  BY DEF Good, StackOK
<1>3. PICK y \in Seq(Exe), d \in Seq(Prio) : Popped(s, x, c, t, y, d, n)
  BY <1>1, <1>2, PopShape
<1>4. StackOK(v, t, y, d) /\ SameExes(s, c, t, d) /\ CurrentOK(t, y, d, cp)
  <2>1. Under(s, x, c, t, y, d)
    BY <1>3 DEF Popped
  <2> QED
    BY <1>2, <2>1, PopSame
<1>5. Rest(v, t, d, q, mu, l)
  BY <1>4, RestStays DEF Good
<1> QED
  BY <1>3, <1>4, <1>5

\* The lock level at code that the processor returns to.
LEMMA ReturnLevel ==
  ASSUME Numbers, LevelsRise, NEW v, NEW s, NEW x, NEW c, StackOK(v, s, x, c), NEW me, NEW lo,
         s[Len(s)].kind \in {"exe", "irq", "pendsv"} \/ OpenPreempt(v, s[Len(s)]),
         me = x[Len(s)], lo = Level(c[Len(s)])
  PROVE  ContextOK(v, s, x, c, me, lo)
<1>1. PICK n \in Nat : n = Len(s)
  BY DEF StackOK, Shaped
<1>2. CASE s[n].kind \in {"exe", "irq", "pendsv"}
  BY <1>1, <1>2 DEF ContextOK
<1>3. CASE OpenPreempt(v, s[n])
  <2>1. s[n].kind = "preempt" /\ v = "v6"
    BY <1>3 DEF OpenPreempt
  <2>2. Placed(v, s, x, c, n) /\ c[n] \in Prio
    BY <1>1, <2>1, TopFacts
  <2>3. c[n] <= MaxTaskPrio
    BY <2>1, <2>2 DEF Placed, PendOK
  <2>4. lo = 0
    BY <1>1, <2>2, <2>3 DEF LevelsRise
  <2> QED
    BY <1>1, <2>1, <2>4 DEF ContextOK
<1> QED
  BY <1>1, <1>2, <1>3

\* pend2 is what dv_irq() leaves of PendSV, see Awoken
LEMMA IrqScanKeeps ==
  ASSUME Numbers, LevelsRise, NEW v, NEW s, NEW x, NEW c,
         NEW cp, NEW me, NEW lo, NEW q, NEW mu, NEW l,
         NEW pend, Good(v, s, x, c, cp, me, lo, q, mu, l, pend), NEW n, n = Len(s),
         s[n].kind = "irq", s[n].pc = "scan", NEW pend2 \in BOOLEAN,
         \A p \in s[n].myp + 1 .. MaxTaskPrio : q[p] # <<>> => pend2,
         NEW t \in Seq(Frame), Shorter(s, t)
  PROVE  \E y \in Seq(Exe), d \in Seq(Prio) : Good(v, t, y, d, cp, me, lo, q, mu, l, pend2)
<1>1. n \in Nat /\ n > 1 /\ IrqOK(v, s, x, c, n) /\ me = x[n] /\ c[n - 1] \in Nat
  BY GoodTop DEF Placed
<1>2. Same(x, c, n) /\ s[n].myp = c[n - 1]
  BY <1>1 DEF IrqOK, Same
<1>3. PICK y \in Seq(Exe), d \in Seq(Prio) :
        /\ Popped(s, x, c, t, y, d, n) /\ SameExes(s, c, t, d)
        /\ StackOK(v, t, y, d) /\ CurrentOK(t, y, d, cp) /\ Rest(v, t, d, q, mu, l)
  BY <1>2, PopKeeps
<1>4. Len(t) = n - 1 /\ t[n - 1] = s[n - 1] /\ y[n - 1] = x[n - 1] /\ d[n - 1] = c[n - 1]
  BY <1>3 DEF Popped
<1>5. s[n - 1].kind \in {"exe", "irq", "pendsv"} \/ OpenPreempt(v, s[n - 1])
  BY <1>1 DEF IrqOK
<1>6. ContextOK(v, t, y, d, me, lo)
  <2>1. lo = Level(c[n])
    BY DEF Good, ContextOK
  <2> QED
    BY <1>1, <1>2, <1>3, <1>4, <1>5, <2>1, ReturnLevel DEF Same
<1>7. WaitOK(t, d, q, pend2)
  <2>1. s[Len(s)].kind # "run" /\ WaitOK(s, c, q, pend)
    BY DEF Good
  <2>2. \A i \in Isr : ~Waits(t, q, i)
    BY <1>3, <2>1, NoIsrWaits, SameWaits
  <2>3. ASSUME NEW u \in Task, Waits(t, q, u), Base[u] > d[n - 1]
        PROVE  Serves(t[n - 1], pend2, Base[u])
    <3>1. q[Base[u]] # <<>> /\ Base[u] \in Nat /\ Base[u] <= MaxTaskPrio
      BY <2>3, WaitsInQueue DEF Exe, Numbers
    <3>2. Base[u] \in s[n].myp + 1 .. MaxTaskPrio
      BY <1>1, <1>2, <1>4, <2>3, <3>1 DEF Numbers
    <3>3. pend2
      BY <3>1, <3>2
    <3> QED
      BY <1>4, <1>5, <3>3 DEF Serves, OpenPreempt
  <2> QED
    BY <1>4, <2>2, <2>3 DEF WaitOK
<1>8. Good(v, t, y, d, cp, me, lo, q, mu, l, pend2)
  BY <1>3, <1>6, <1>7 DEF Good
<1> QED
  BY <1>8

-----------------------------------------------------------------------------
(* dv_preempt() and dv_svctrap()                                           *)

\* dv_preempt() goes on to its next step.
LEMMA PreemptMove ==
  ASSUME Numbers, LevelsRise, NEW v, NEW s, NEW x, NEW c,
         NEW cp, NEW me, NEW lo, NEW q, NEW mu, NEW l,
         NEW pend, Good(v, s, x, c, cp, me, lo, q, mu, l, pend), NEW n, n = Len(s),
         s[n].kind = "preempt", NEW f, f.kind = "preempt", NEW t \in Seq(Frame), Changed(s, t, f)
  PROVE  \E d \in Seq(Prio) :
           /\ Moved(s, x, c, t, d, f, c[n], n) /\ SameExes(s, c, t, d)
           /\ StackOK(v, t, x, d) /\ CurrentOK(t, x, d, cp) /\ Rest(v, t, d, q, mu, l)
<1>1. /\ n \in Nat \ {0} /\ n > 1 /\ PendOK(v, s, x, c, n) /\ c[n] \in Prio
      /\ [cp EXCEPT ![x[n]] = c[n]] = cp /\ c[n] \in Nat
  BY GoodTop DEF Placed
<1>2. StackOK(v, s, x, c) /\ CurrentOK(s, x, c, cp) /\ Shaped(s, x, c) /\ cp \in [Exe -> Prio]
  BY DEF Good, StackOK
<1>3. PICK d \in Seq(Prio) : Moved(s, x, c, t, d, f, c[n], n)
  BY <1>1, <1>2, MoveShape
<1>4. /\ Len(t) = n /\ t[n] = f /\ d[n] = c[n]
      /\ t[n - 1] = s[n - 1] /\ d[n - 1] = c[n - 1]
      /\ InHandler(t, n) <=> InHandler(s, n)
  BY <1>1, <1>3 DEF Moved
<1>5. Placed(v, t, x, d, n)
  <2>1. PendOK(v, t, x, d, n)
    BY <1>1, <1>4 DEF PendOK, Same
  <2> QED
    BY <1>4, <2>1 DEF Placed
<1>6. Stepped(v, s, x, c, t, d, f, c[n])
  BY <1>3, <1>5 DEF Stepped, Moved
<1>7. StackOK(v, t, x, d) /\ SameExes(s, c, t, d) /\ CurrentOK(t, x, d, cp)
  <2>1. c[n] = c[n - 1] /\ x[n] = x[n - 1]
    BY <1>1 DEF PendOK, Same
  <2>2. /\ c[n] >= c[Len(s) - 1] /\ (c[n] <= MaxTaskPrio \/ c[n] = c[Len(s) - 1])
        /\ x[Len(s)] = x[Len(s) - 1]
    BY <1>1, <2>1
  <2>3. cp = [cp EXCEPT ![x[Len(s)]] = c[n]]
    BY <1>1
  <2>4. /\ StackOK(v, t, x, d) /\ SameExes(s, c, t, d)
        /\ Follows(s, x, c, t, x, d, x[Len(s)], c[n])
    BY <1>1, <1>2, <1>6, <2>2, StepSame
  <2> QED
    BY <1>2, <2>3, <2>4 DEF Follows
<1>8. Rest(v, t, d, q, mu, l)
  BY <1>7, RestStays DEF Good
<1> QED
  BY <1>3, <1>7, <1>8

\* dv_preempt() has run the tasks and locks everything for the SVC.
LEMMA UnwindKeeps ==
  ASSUME Numbers, LevelsRise, NEW v, NEW s, NEW x, NEW c,
         NEW cp, NEW me, NEW lo, NEW q, NEW mu, NEW l,
         NEW pend, Good(v, s, x, c, cp, me, lo, q, mu, l, pend), NEW n, n = Len(s),
         s[n].kind = "preempt", s[n].pc = "unwind", NEW f, f.kind = "preempt", f.pc = "svc",
         NEW t \in Seq(Frame), Changed(s, t, f)
  PROVE  \E d \in Seq(Prio) : Good(v, t, x, d, cp, me, Locked(v), q, mu, l, pend)
<1>1. PICK d \in Seq(Prio) :
        /\ Moved(s, x, c, t, d, f, c[n], n) /\ SameExes(s, c, t, d)
        /\ StackOK(v, t, x, d) /\ CurrentOK(t, x, d, cp) /\ Rest(v, t, d, q, mu, l)
  BY PreemptMove
<1>2. Len(t) = n /\ t[n] = f /\ d[n] = c[n] /\ me = x[n]
  BY <1>1, GoodTop DEF Moved
<1>3. ContextOK(v, t, x, d, me, Locked(v))
  BY <1>2 DEF ContextOK, Locked
<1>4. WaitOK(t, d, q, pend)
  <2>1. s[Len(s)].kind # "run" /\ WaitOK(s, c, q, pend)
    BY DEF Good
  <2>2. \A i \in Isr : ~Waits(t, q, i)
    BY <1>1, <2>1, NoIsrWaits, SameWaits
  <2>3. ASSUME NEW u \in Task, Waits(t, q, u), Base[u] > d[n] PROVE FALSE
    <3>1. Waits(s, q, u)
      BY <1>1, <2>3, SameWaits
    <3>2. Serves(s[n], pend, Base[u])
      BY <1>2, <2>1, <2>3, <3>1 DEF WaitOK
    <3> QED
      BY <3>2 DEF Serves
  <2> QED
    BY <1>2, <2>2, <2>3 DEF WaitOK
<1>5. Good(v, t, x, d, cp, me, Locked(v), q, mu, l, pend)
  BY <1>1, <1>3, <1>4 DEF Good
<1> QED
  BY <1>5

\* The SVC takes dv_preempt() off: what was interrupted is on top, at level 0.
LEMMA SvcTrapKeeps ==
  ASSUME Numbers, LevelsRise, NEW v, NEW s, NEW x, NEW c,
         NEW cp, NEW me, NEW lo, NEW q, NEW mu, NEW l,
         NEW pend, Good(v, s, x, c, cp, me, lo, q, mu, l, pend), NEW n, n = Len(s),
         s[n].kind = "preempt", s[n].pc = "svc", NEW t \in Seq(Frame), Shorter(s, t)
  PROVE  \E y \in Seq(Exe), d \in Seq(Prio) : Good(v, t, y, d, cp, me, 0, q, mu, l, pend)
<1>1. n \in Nat /\ n > 1 /\ PendOK(v, s, x, c, n) /\ me = x[n] /\ c[n] \in Prio
  BY GoodTop DEF Placed
<1>2. Same(x, c, n) /\ c[n] <= MaxTaskPrio /\ (s[n - 1].kind = "exe" \/ OpenPreempt(v, s[n - 1]))
  BY <1>1 DEF PendOK
<1>3. PICK y \in Seq(Exe), d \in Seq(Prio) :
        /\ Popped(s, x, c, t, y, d, n) /\ SameExes(s, c, t, d)
        /\ StackOK(v, t, y, d) /\ CurrentOK(t, y, d, cp) /\ Rest(v, t, d, q, mu, l)
  BY <1>2, PopKeeps
<1>4. Len(t) = n - 1 /\ t[n - 1] = s[n - 1] /\ y[n - 1] = x[n - 1] /\ d[n - 1] = c[n - 1]
  BY <1>3 DEF Popped
<1>5. d[n - 1] = c[n] /\ y[n - 1] = x[n]
  BY <1>2, <1>4 DEF Same
<1>6. ContextOK(v, t, y, d, me, 0)
  <2>1. 0 = Level(c[n])
    BY <1>1, <1>2 DEF LevelsRise
  <2> QED
    BY <1>1, <1>2, <1>3, <1>4, <1>5, <2>1, ReturnLevel
<1>7. WaitOK(t, d, q, pend)
  <2>1. s[Len(s)].kind # "run" /\ WaitOK(s, c, q, pend)
    BY DEF Good
  <2>2. \A i \in Isr : ~Waits(t, q, i)
    BY <1>3, <2>1, NoIsrWaits, SameWaits
  <2>3. ASSUME NEW u \in Task, Waits(t, q, u), Base[u] > d[n - 1]
        PROVE  Serves(t[n - 1], pend, Base[u])
    <3>1. Waits(s, q, u)
      BY <1>3, <2>3, SameWaits
    <3>2. Serves(s[n], pend, Base[u])
      BY <1>5, <2>1, <2>3, <3>1 DEF WaitOK
    <3> QED
      BY <1>2, <1>4, <3>2 DEF Serves, OpenPreempt
  <2> QED
    BY <1>4, <2>2, <2>3 DEF WaitOK
<1>8. Good(v, t, y, d, cp, me, 0, q, mu, l, pend)
  BY <1>3, <1>6, <1>7 DEF Good
<1> QED
  BY <1>8

-----------------------------------------------------------------------------
(* Calls of dv_runqueued()                                                 *)

RunEntry(high, low, e) == [kind |-> "run", p |-> high, low |-> low, exe |-> e]

Calls(f) == \/ f.kind = "exe"
            \/ f.kind = "irq" /\ f.pc = "restore"
            \/ f.kind = "preempt" /\ f.pc = "unwind"

\* A handler has been raised above all tasks when it calls dv_runqueued().
LEMMA HandlerCalls ==
  ASSUME Numbers, LevelsRise, NEW v, NEW s, NEW x, NEW c, StackOK(v, s, x, c), NEW n, n = Len(s),
         Calls(s[n]), InHandler(s, n) \/ IsHandler(s[n])
  PROVE  c[n] >= MaxTaskPrio
<1>1. n \in Nat /\ c[n] \in Nat /\ x[n] \in Exe /\ Rising(v, s, x, c, n) /\ MaxTaskPrio \in Nat
  BY TopFacts DEF Numbers
<1>2. n > 1
  BY <1>1, TopFacts DEF InHandler, IsHandler, Calls
<1>3. Placed(v, s, x, c, n) /\ c[n - 1] \in Prio
  BY <1>2, TopFacts
<1>4. CASE s[n].kind = "exe"
  <2>1. x[n] \in Isr
    BY <1>3, <1>4 DEF Placed, ExeOK, IsHandler
  <2> QED
    BY <1>1, <2>1 DEF Numbers, Rising
<1>5. CASE s[n].kind = "irq" /\ s[n].pc = "restore"
  <2>1. c[n] = Raised(c[n - 1])
    BY <1>3, <1>5 DEF Placed, IrqOK
  <2> QED
    BY <1>1, <1>3, <2>1, RaisedIs
<1>6. CASE s[n].kind = "preempt"
  BY <1>3, <1>6 DEF Placed, PendOK, IsHandler
<1> QED
  BY <1>4, <1>5, <1>6 DEF Calls

\* dv_runqueued() in the context of its caller
LEMMA PushRun ==
  ASSUME Numbers, LevelsRise, NEW v, NEW s, NEW x, NEW c, NEW cp, NEW lo, NEW q, NEW mu, NEW l,
         StackOK(v, s, x, c), CurrentOK(s, x, c, cp), Rest(v, s, c, q, mu, l), NEW n, n = Len(s),
         Calls(s[n]), NEW high, high > c[n], s[n].kind # "preempt" => lo = Level(c[n]),
         NEW t \in Seq(Frame), Longer(s, t, RunEntry(high, c[n], x[n]))
  PROVE  \E y \in Seq(Exe), d \in Seq(Prio) :
           /\ Pushed(s, x, c, t, y, d, RunEntry(high, c[n], x[n]), n) /\ SameExes(s, c, t, d)
           /\ StackOK(v, t, y, d) /\ CurrentOK(t, y, d, cp) /\ Rest(v, t, d, q, mu, l)
           /\ ContextOK(v, t, y, d, x[n], lo)
<1>1. n \in Nat \ {0} /\ c[n] \in Nat /\ Shaped(s, x, c)
  <2>1. n \in Nat /\ n >= 1 /\ c[n] \in Nat
    BY TopFacts
  <2> QED
    BY <2>1 DEF StackOK
<1>2. PICK f : f = RunEntry(high, c[n], x[n])
  OBVIOUS
<1>3. /\ f.kind = "run" /\ f.p = high /\ f.low = c[n] /\ f.exe = x[n]
      /\ Longer(s, t, f)
  BY <1>2 DEF RunEntry
<1>4. PICK y \in Seq(Exe), d \in Seq(Prio) : Pushed(s, x, c, t, y, d, f, n)
  BY <1>1, <1>3, PushShape
<1>5. /\ Len(t) = n + 1 /\ t[n + 1] = f /\ y[n + 1] = x[n] /\ d[n + 1] = c[n]
      /\ t[n] = s[n] /\ y[n] = x[n] /\ d[n] = c[n]
      /\ InHandler(t, n + 1) <=> InHandler(s, n) \/ IsHandler(s[n])
  BY <1>4 DEF Pushed
<1>6. Placed(v, t, y, d, n + 1)
  <2>1. (n + 1) - 1 = n
    BY <1>1
  <2>2. InHandler(t, n + 1) => c[n] >= MaxTaskPrio
    BY <1>5, HandlerCalls
  <2>3. RunOK(t, y, d, n + 1)
    BY <1>1, <1>3, <1>5, <2>1, <2>2 DEF RunOK, Same, Calls
  <2> QED
    BY <1>3, <1>5, <2>3 DEF Placed
<1>7. Over(v, s, x, c, t, y, d, f)
  BY <1>3, <1>4, <1>6 DEF Over, Pushed
<1>8. StackOK(v, t, y, d) /\ SameExes(s, c, t, d) /\ CurrentOK(t, y, d, cp)
  BY <1>7, PushSame
<1>9. Rest(v, t, d, q, mu, l)
  BY <1>8, RestStays
<1>10. ContextOK(v, t, y, d, x[n], lo)
  <2>1. (n + 1) - 1 = n
    BY <1>1
  <2> QED
    BY <1>3, <1>5, <2>1 DEF ContextOK
<1> QED
  BY <1>2, <1>4, <1>8, <1>9, <1>10

\* The top is left for dv_runqueued(), down to the priority of the caller.
RunFrom(s, t, high, low, e) ==
  IF high > low THEN t \in Seq(Frame) /\ Longer(s, t, RunEntry(high, low, e)) ELSE t = s

PreemptRuns(s, t, u, f, cp, me) ==
  /\ f.kind = "preempt" /\ f.pc = "unwind" /\ t \in Seq(Frame) /\ Changed(s, t, f)
  /\ RunFrom(t, u, MaxTaskPrio, cp[me], me)

\* dv_preempt() runs what is queued above the code it has interrupted.
LEMMA PreemptKeeps ==
  ASSUME Numbers, LevelsRise, NEW v, NEW s, NEW x, NEW c,
         NEW cp, NEW me, NEW lo, NEW q, NEW mu, NEW l,
         NEW pend, Good(v, s, x, c, cp, me, lo, q, mu, l, pend), NEW n, n = Len(s),
         s[n].kind = "preempt", NEW t, NEW u, NEW f, PreemptRuns(s, t, u, f, cp, me)
  PROVE  \E y \in Seq(Exe), d \in Seq(Prio) : Good(v, u, y, d, cp, me, lo, q, mu, l, pend)
<1>0. /\ f.kind = "preempt" /\ f.pc = "unwind" /\ t \in Seq(Frame) /\ Changed(s, t, f)
      /\ RunFrom(t, u, MaxTaskPrio, cp[me], me)
  BY DEF PreemptRuns
<1> USE <1>0
<1>1. PICK e \in Seq(Prio) :
        /\ Moved(s, x, c, t, e, f, c[n], n) /\ SameExes(s, c, t, e)
        /\ StackOK(v, t, x, e) /\ CurrentOK(t, x, e, cp) /\ Rest(v, t, e, q, mu, l)
  BY PreemptMove
<1>2. /\ Len(t) = n /\ t[n] = f /\ e[n] = c[n] /\ me = x[n] /\ cp[me] = c[n]
      /\ c[n] \in Nat /\ MaxTaskPrio \in Nat
  BY <1>1, GoodTop DEF Moved, Numbers
<1>3. s[Len(s)].kind # "run" /\ WaitOK(s, c, q, pend)
  BY DEF Good
<1>4. ASSUME NEW p \in Task PROVE Base[p] <= MaxTaskPrio /\ Base[p] \in Nat
  BY DEF Numbers, Exe
<1>5. CASE MaxTaskPrio > c[n]
  <2>1. u \in Seq(Frame) /\ Longer(t, u, RunEntry(MaxTaskPrio, e[n], x[n]))
    BY <1>2, <1>5 DEF RunFrom
  <2>2. Calls(t[n]) /\ t[n].kind = "preempt"
    BY <1>2 DEF Calls
  <2>3. PICK y \in Seq(Exe), d \in Seq(Prio) :
          /\ Pushed(t, x, e, u, y, d, RunEntry(MaxTaskPrio, e[n], x[n]), n) /\ SameExes(t, e, u, d)
          /\ StackOK(v, u, y, d) /\ CurrentOK(u, y, d, cp) /\ Rest(v, u, d, q, mu, l)
          /\ ContextOK(v, u, y, d, x[n], lo)
    BY <1>1, <1>2, <1>5, <2>1, <2>2, PushRun
  <2>4. /\ Len(u) = n + 1 /\ u[n + 1] = RunEntry(MaxTaskPrio, e[n], x[n]) /\ d[n + 1] = c[n]
    BY <1>2, <2>3 DEF Pushed
  <2>5. u[n + 1].kind = "run" /\ u[n + 1].p = MaxTaskPrio
    BY <2>4 DEF RunEntry
  <2>6. \A i \in Isr : ~Waits(u, q, i)
    <3>1. \A i \in Isr : ~Waits(s, q, i)
      BY <1>3, NoIsrWaits
    <3> QED
      BY <1>1, <2>3, <3>1, SameWaits
  <2>7. WaitOK(u, d, q, pend)
    BY <1>4, <2>4, <2>5, <2>6 DEF WaitOK, Serves
  <2>8. Good(v, u, y, d, cp, me, lo, q, mu, l, pend)
    BY <1>2, <2>3, <2>7 DEF Good
  <2> QED
    BY <2>8
<1>6. CASE ~(MaxTaskPrio > c[n])
  <2>1. u = t
    BY <1>2, <1>6 DEF RunFrom
  <2>2. ContextOK(v, t, x, e, me, lo)
    BY <1>2 DEF ContextOK
  <2>3. \A i \in Isr : ~Waits(t, q, i)
    <3>1. \A i \in Isr : ~Waits(s, q, i)
      BY <1>3, NoIsrWaits
    <3> QED
      BY <1>1, <3>1, SameWaits
  <2>4. \A p \in Task : ~(Base[p] > c[n])
    BY <1>2, <1>4, <1>6
  <2>5. WaitOK(t, e, q, pend)
    BY <1>2, <2>3, <2>4 DEF WaitOK
  <2>6. Good(v, t, x, e, cp, me, lo, q, mu, l, pend)
    BY <1>1, <2>2, <2>5 DEF Good
  <2> QED
    BY <2>1, <2>6 DEF Good, StackOK, Shaped
<1> QED
  BY <1>5, <1>6

-----------------------------------------------------------------------------
(* dv_activateexe()                                                        *)

NotQueued(q, e)   == \A p \in Prio : \A j \in 1 .. Len(q[p]) : q[p][j] # e
Queued(q, e, r) == r = [q EXCEPT ![Base[e]] = Append(@, e)]

\* An executable that is nowhere in the queues gets into that of its base priority.
LEMMA Enqueue ==
  ASSUME Numbers, NEW v, NEW s, NEW c, NEW q, NEW mu, NEW l, Rest(v, s, c, q, mu, l),
         \A k \in 1 .. Len(s) : s[k].kind = "exe" => s[k].exe \in Exe,
         NEW e \in Exe, NotQueued(q, e),
         NEW r, Queued(q, e, r)
  PROVE  /\ Rest(v, s, c, r, mu, l)
         /\ \A a \in Exe : Waits(s, r, a) => Waits(s, q, a) \/ a = e
<1>1. Base[e] \in Prio /\ QueueOK(s, q, mu, l) /\ q \in [Prio -> Seq(Exe)]
  <2>1. MaxPrio \in Nat /\ Base[e] \in Nat /\ Base[e] < MaxPrio
    BY DEF Numbers
  <2>2. Base[e] \in Prio
    BY <2>1 DEF Prio
  <2>3. QueueOK(s, q, mu, l)
    BY DEF Rest
  <2>4. q \in [Prio -> Seq(Exe)]
    BY <2>3 DEF QueueOK
  <2> QED
    BY <2>2, <2>3, <2>4
<1>2. PICK b \in Prio : b = Base[e]
  BY <1>1
<1>3. PICK w \in Seq(Exe) : w = q[b]
  BY <1>1
<1>4. PICK n \in Nat : n = Len(w)
  OBVIOUS
<1>5. PICK z : z = Append(w, e)
  OBVIOUS
<1>6. /\ z \in Seq(Exe) /\ Len(z) = n + 1 /\ z[n + 1] = e /\ \A j \in 1 .. n : z[j] = w[j]
  BY <1>3, <1>4, <1>5
<1>7. /\ r \in [Prio -> Seq(Exe)] /\ r[b] = z /\ \A p \in Prio : p # b => r[p] = q[p]
  BY <1>1, <1>2, <1>3, <1>5, <1>6 DEF Queued
<1>8. \A j \in 1 .. n : w[j] # e
  BY <1>3, <1>4 DEF NotQueued
<1>9. /\ n <= 2 /\ (n = 2 => Base[w[1]] # b)
      /\ \A j \in 1 .. n : Base[w[j]] # b =>
           j = 1 /\ \E m \in 1 .. Len(mu) : l[m] = b /\ mu[m].owner = w[1]
  BY <1>1, <1>3, <1>4 DEF QueueOK
<1>10. \A j \in 1 .. n : Base[w[j]] # b
  <2>1. ASSUME NEW j \in 1 .. n PROVE w[j] \in Exe
    BY <1>4
  <2> QED
    BY <1>2, <1>8, <2>1 DEF Numbers
<1>11. n <= 1
  <2>1. n = 2 => 2 \in 1 .. n
    OBVIOUS
  <2> QED
    BY <1>9, <1>10, <2>1
<1>12. Base[e] = b
  BY <1>2
<1>13. /\ Len(z) <= 2 /\ (Len(z) = 2 => Base[z[1]] # b)
       /\ \A j \in 1 .. Len(z) : Base[z[j]] # b =>
            j = 1 /\ \E m \in 1 .. Len(mu) : l[m] = b /\ mu[m].owner = z[1]
  <2>1. CASE n = 0
    BY <1>6, <1>12, <2>1
  <2>2. CASE n = 1
    <3>1. 1 \in 1 .. n /\ z[1] = w[1] /\ z[2] = e /\ Len(z) = 2
      BY <1>6, <2>2
    <3>2. Base[z[1]] # b /\ \E m \in 1 .. Len(mu) : l[m] = b /\ mu[m].owner = z[1]
      BY <1>9, <1>10, <3>1
    <3>3. \A j \in 1 .. Len(z) : j = 1 \/ j = 2
      BY <3>1
    <3> QED
      BY <1>12, <3>1, <3>2, <3>3
  <2> QED
    BY <1>11, <2>1, <2>2
<1>14. ASSUME NEW m \in 1 .. Len(mu) PROVE r[l[m]] # <<>> /\ r[l[m]][1] = mu[m].owner
  <2>1. q[l[m]] # <<>> /\ q[l[m]][1] = mu[m].owner
    BY <1>1 DEF QueueOK
  <2>2. l[m] \in Prio
    BY DEF Rest, MutexOK
  <2>3. CASE l[m] = b
    <3>1. n # 0
      BY <1>3, <1>4, <2>1, <2>3
    <3>2. z[1] = w[1] /\ z # <<>>
      BY <1>4, <1>6, <3>1
    <3> QED
      BY <1>3, <1>7, <2>1, <2>3, <3>2
  <2>4. CASE l[m] # b
    BY <1>7, <2>1, <2>2, <2>4
  <2> QED
    BY <2>3, <2>4
<1>15. ASSUME NEW a \in Exe, InQueue(q, a) PROVE InQueue(r, a)
  <2>1. PICK j \in 1 .. Len(q[Base[a]]) : q[Base[a]][j] = a
    BY <1>15 DEF InQueue
  <2>2. Base[a] \in Prio
    BY DEF Numbers, Prio
  <2>3. CASE Base[a] = b
    <3>1. j \in 1 .. n /\ w[j] = a
      BY <1>3, <1>4, <2>1, <2>3
    <3>2. j \in 1 .. Len(z) /\ z[j] = a
      BY <1>6, <3>1
    <3> QED
      BY <1>7, <2>3, <3>2 DEF InQueue
  <2>4. CASE Base[a] # b
    BY <1>7, <2>1, <2>2, <2>4 DEF InQueue
  <2> QED
    BY <2>3, <2>4
<1>16. ASSUME NEW a \in Exe, InQueue(r, a), a # e PROVE InQueue(q, a)
  <2>1. PICK j \in 1 .. Len(r[Base[a]]) : r[Base[a]][j] = a
    BY <1>16 DEF InQueue
  <2>2. Base[a] \in Prio
    BY DEF Numbers, Prio
  <2>3. CASE Base[a] = b
    BY <1>2, <1>16, <2>3 DEF Numbers
  <2>4. CASE Base[a] # b
    BY <1>7, <2>1, <2>2, <2>4 DEF InQueue
  <2> QED
    BY <2>3, <2>4
<1>17. QueueOK(s, r, mu, l)
  <2>1. ASSUME NEW k \in 1 .. Len(s), s[k].kind = "exe" PROVE InQueue(r, s[k].exe)
    <3>1. InQueue(q, s[k].exe)
      BY <1>1, <2>1 DEF QueueOK
    <3>2. s[k].exe \in Exe
      BY <2>1
    <3> QED
      BY <1>15, <3>1, <3>2
  <2>2. ASSUME NEW p \in Prio
        PROVE  /\ Len(r[p]) <= 2 /\ (Len(r[p]) = 2 => Base[r[p][1]] # p)
               /\ \A j \in 1 .. Len(r[p]) : Base[r[p][j]] # p =>
                    j = 1 /\ \E m \in 1 .. Len(mu) : l[m] = p /\ mu[m].owner = r[p][1]
    <3>1. CASE p = b
      BY <1>7, <1>13, <3>1
    <3>2. CASE p # b
      <4>1. r[p] = q[p]
        BY <1>7, <3>2
      <4>2. /\ Len(q[p]) <= 2 /\ (Len(q[p]) = 2 => Base[q[p][1]] # p)
            /\ \A j \in 1 .. Len(q[p]) : Base[q[p][j]] # p =>
                 j = 1 /\ \E m \in 1 .. Len(mu) : l[m] = p /\ mu[m].owner = q[p][1]
        BY <1>1 DEF QueueOK
      <4> QED
        BY <4>1, <4>2
    <3> QED
      BY <3>1, <3>2
  <2> QED
    BY <1>7, <1>14, <2>1, <2>2 DEF QueueOK
<1>18. \A a \in Exe : Waits(s, r, a) => Waits(s, q, a) \/ a = e
  BY <1>16 DEF Waits
<1> QED
  BY <1>17, <1>18 DEF Rest

LEMMA ExesAreExes ==
  ASSUME Numbers, NEW v, NEW s, NEW x, NEW c, StackOK(v, s, x, c)
  PROVE  \A k \in 1 .. Len(s) : s[k].kind = "exe" => s[k].exe \in Exe
<1>1. ASSUME NEW k \in 1 .. Len(s), s[k].kind = "exe" PROVE s[k].exe \in Exe
  BY <1>1, ExeAt
<1> QED
  BY <1>1

ActivationRuns(s, u, e, q, r, cp, me) ==
  /\ e \in Task /\ NotQueued(q, e) /\ Queued(q, e, r)
  /\ RunFrom(s, u, Base[e], cp[me], me)

\* dv_activateexe() of a task, which is run at once if it is above its caller
LEMMA ActivateTaskKeeps ==
  ASSUME Numbers, LevelsRise, NEW v, NEW s, NEW x, NEW c,
         NEW cp, NEW me, NEW lo, NEW q, NEW mu, NEW l,
         NEW pend, Good(v, s, x, c, cp, me, lo, q, mu, l, pend), NEW n, n = Len(s),
         CodeRuns(v, s, lo, pend),
         NEW u, NEW e, NEW r, ActivationRuns(s, u, e, q, r, cp, me)
  PROVE  \E y \in Seq(Exe), d \in Seq(Prio) : Good(v, u, y, d, cp, me, lo, r, mu, l, pend)
<1>0. /\ e \in Task /\ NotQueued(q, e) /\ Queued(q, e, r)
      /\ RunFrom(s, u, Base[e], cp[me], me)
  BY DEF ActivationRuns
<1> USE <1>0
<1>1. /\ s[n].kind = "exe" /\ me = x[n] /\ cp[me] = c[n] /\ c[n] \in Nat /\ n \in Nat
      /\ x \in Seq(Exe) /\ c \in Seq(Prio)
  BY GoodTop DEF CodeRuns
<1>2. StackOK(v, s, x, c) /\ CurrentOK(s, x, c, cp) /\ Rest(v, s, c, q, mu, l)
      /\ WaitOK(s, c, q, pend)
  BY DEF Good
<1>3. e \in Exe /\ Base[e] \in Nat /\ e \notin Isr
  BY DEF Numbers, Exe
<1>4. Rest(v, s, c, r, mu, l) /\ \A a \in Exe : Waits(s, r, a) => Waits(s, q, a) \/ a = e
  BY <1>2, <1>3, ExesAreExes, Enqueue
<1>5. \A i \in Isr : ~Waits(s, r, i)
  <2>1. \A i \in Isr : i \in Exe /\ ~Waits(s, q, i)
    BY <1>1, <1>2, NoIsrWaits DEF Exe
  <2> QED
    BY <1>3, <1>4, <2>1
<1>6. ASSUME NEW a \in Task, Waits(s, r, a), Base[a] > c[n] PROVE a = e
  <2>1. SUFFICES ASSUME Waits(s, q, a) PROVE FALSE
    BY <1>4, <1>6 DEF Exe
  <2>2. q[Base[a]] # <<>> /\ Base[a] \in Prio
    BY <2>1, WaitsInQueue DEF Exe
  <2> QED
    BY <1>6, <2>2, NoneAbove
<1>7. CASE Base[e] > c[n]
  <2>1. u \in Seq(Frame) /\ Longer(s, u, RunEntry(Base[e], c[n], x[n]))
    BY <1>1, <1>7 DEF RunFrom
  <2>2. Calls(s[n]) /\ (s[n].kind # "preempt" => lo = Level(c[n]))
    BY <1>1 DEF Calls, Good, ContextOK
  <2>3. PICK y \in Seq(Exe), d \in Seq(Prio) :
          /\ Pushed(s, x, c, u, y, d, RunEntry(Base[e], c[n], x[n]), n) /\ SameExes(s, c, u, d)
          /\ StackOK(v, u, y, d) /\ CurrentOK(u, y, d, cp) /\ Rest(v, u, d, r, mu, l)
          /\ ContextOK(v, u, y, d, x[n], lo)
    BY <1>2, <1>4, <1>7, <2>1, <2>2, PushRun
  <2>4. Len(u) = n + 1 /\ u[n + 1] = RunEntry(Base[e], c[n], x[n]) /\ d[n + 1] = c[n]
    BY <2>3 DEF Pushed
  <2>5. u[n + 1].kind = "run" /\ u[n + 1].p = Base[e]
    BY <2>4 DEF RunEntry
  <2>6. \A i \in Isr : ~Waits(u, r, i)
    BY <1>5, <2>3, SameWaits
  <2>7. ASSUME NEW a \in Task, Waits(u, r, a), Base[a] > d[n + 1] PROVE Base[a] <= u[n + 1].p
    <3>1. Waits(s, r, a)
      BY <2>3, <2>7, SameWaits
    <3>2. a = e
      BY <1>6, <2>4, <2>7, <3>1
    <3> QED
      BY <1>3, <2>5, <3>2
  <2>8. WaitOK(u, d, r, pend)
    BY <2>4, <2>5, <2>6, <2>7 DEF WaitOK, Serves
  <2>9. Good(v, u, y, d, cp, me, lo, r, mu, l, pend)
    BY <1>1, <2>3, <2>8 DEF Good
  <2> QED
    BY <2>9
<1>8. CASE ~(Base[e] > c[n])
  <2>1. u = s
    BY <1>1, <1>8 DEF RunFrom
  <2>2. WaitOK(s, c, r, pend)
    BY <1>5, <1>6, <1>8 DEF WaitOK
  <2>3. Good(v, s, x, c, cp, me, lo, r, mu, l, pend)
    BY <1>4, <2>2 DEF Good
  <2> QED
    BY <1>1, <2>1, <2>3
<1> QED
  BY <1>7, <1>8

\* dv_irq() has called the vector function of ISR e, which goes on the queue and runs.
Vectored(g, f, e) ==
  /\ g.kind = "irq" /\ g.pc = "vector" /\ g.isr = e
  /\ f.kind = "irq" /\ f.isr = e /\ f.pc = "restore" /\ f.me = g.me /\ f.myp = g.myp

VectorRuns(s, t, u, f, e, q, r, cp, me) ==
  /\ e \in Isr /\ t \in Seq(Frame)
  /\ Vectored(s[Len(s)], f, e) /\ Changed(s, t, f)
  /\ NotQueued(q, e) /\ Queued(q, e, r)
  /\ RunFrom(t, u, Base[e], cp[me], me)

\* dv_activateexe() of an ISR in its dv_irq()
LEMMA IrqVectorKeeps ==
  ASSUME Numbers, LevelsRise, NEW v, NEW s, NEW x, NEW c,
         NEW cp, NEW me, NEW lo, NEW q, NEW mu, NEW l,
         NEW pend, Good(v, s, x, c, cp, me, lo, q, mu, l, pend), NEW n, n = Len(s),
         NEW t, NEW u, NEW f, NEW e, NEW r, VectorRuns(s, t, u, f, e, q, r, cp, me)
  PROVE  \E y \in Seq(Exe), d \in Seq(Prio) : Good(v, u, y, d, cp, me, lo, r, mu, l, pend)
<1>00. /\ e \in Isr /\ t \in Seq(Frame) /\ Vectored(s[n], f, e) /\ Changed(s, t, f)
      /\ NotQueued(q, e) /\ Queued(q, e, r) /\ RunFrom(t, u, Base[e], cp[me], me)
  BY DEF VectorRuns
<1>0. /\ s[n].kind = "irq" /\ s[n].pc = "vector" /\ e = s[n].isr
      /\ f.kind = "irq" /\ f.isr = e /\ f.pc = "restore" /\ f.me = s[n].me /\ f.myp = s[n].myp
  BY <1>00 DEF Vectored
<1>1. /\ n \in Nat /\ n > 1 /\ IrqOK(v, s, x, c, n) /\ me = x[n] /\ cp[me] = c[n]
      /\ c[n] \in Nat /\ c[n - 1] \in Prio /\ c[n - 1] \in Nat /\ [cp EXCEPT ![x[n]] = c[n]] = cp
  BY <1>0, GoodTop DEF Placed
<1>2. /\ f.me = x[n] /\ f.myp = c[n - 1] /\ c[n] = Raised(c[n - 1]) /\ c[n] < Base[e]
  BY <1>00, <1>0, <1>1 DEF IrqOK
<1>3. PICK p : p = IF f.pc \in {"vector", "restore"} THEN Raised(c[n - 1]) ELSE c[n - 1]
  OBVIOUS
<1>4. p = c[n] /\ Sets(cp, x[n], p, cp) /\ IrqNext(s[n], f, x[n], c[n - 1], p)
  BY <1>0, <1>1, <1>2, <1>3 DEF Sets, IrqNext
<1>5. PICK g \in Seq(Prio) : /\ Moved(s, x, c, t, g, f, p, n)
                             /\ Good(v, t, x, g, cp, me, lo, q, mu, l, pend)
  BY <1>00, <1>0, <1>4, IrqMoveKeeps
<1>6. Len(t) = n /\ t[n] = f /\ g[n] = c[n]
  BY <1>00, <1>4, <1>5 DEF Moved
<1>7. /\ StackOK(v, t, x, g) /\ CurrentOK(t, x, g, cp) /\ Rest(v, t, g, q, mu, l)
      /\ WaitOK(t, g, q, pend)
  BY <1>5 DEF Good
<1>8. e \in Exe /\ Base[e] \in Nat
  BY <1>00 DEF Numbers, Exe
<1>9. Rest(v, t, g, r, mu, l) /\ \A a \in Exe : Waits(t, r, a) => Waits(t, q, a) \/ a = e
  BY <1>00, <1>7, <1>8, ExesAreExes, Enqueue
<1>10. u \in Seq(Frame) /\ Longer(t, u, RunEntry(Base[e], g[n], x[n]))
  BY <1>00, <1>1, <1>2, <1>6, <1>8 DEF RunFrom
<1>11. Calls(t[n]) /\ (t[n].kind # "preempt" => lo = Level(g[n]))
  <2>1. lo = Level(g[n])
    BY <1>0, <1>5, <1>6 DEF Good, ContextOK
  <2> QED
    BY <1>0, <1>6, <2>1 DEF Calls
<1>12. PICK y \in Seq(Exe), d \in Seq(Prio) :
         /\ Pushed(t, x, g, u, y, d, RunEntry(Base[e], g[n], x[n]), n) /\ SameExes(t, g, u, d)
         /\ StackOK(v, u, y, d) /\ CurrentOK(u, y, d, cp) /\ Rest(v, u, d, r, mu, l)
         /\ ContextOK(v, u, y, d, x[n], lo)
  <2>1. Base[e] > g[n] /\ n = Len(t)
    BY <1>1, <1>2, <1>6, <1>8
  <2> QED
    BY <1>7, <1>9, <1>10, <1>11, <2>1, PushRun
<1>13. /\ Len(u) = n + 1 /\ u[n + 1] = RunEntry(Base[e], g[n], x[n]) /\ d[n + 1] = c[n]
       /\ u[n] = f /\ (n + 1) - 1 = n
  BY <1>1, <1>6, <1>12 DEF Pushed
<1>14. u[n + 1].kind = "run" /\ u[n + 1].p = Base[e]
  BY <1>13 DEF RunEntry
<1>15. ASSUME NEW i \in Isr, Waits(u, r, i) PROVE i = e
  <2>1. Waits(t, r, i) /\ i \in Exe
    BY <1>12, <1>15, SameWaits DEF Exe
  <2>2. t[Len(t)].kind # "run"
    BY <1>0, <1>6
  <2>3. ~Waits(t, q, i)
    BY <1>7, <2>2, NoIsrWaits
  <2> QED
    BY <1>9, <2>1, <2>3
<1>16. ASSUME NEW a \in Task PROVE ~(Base[a] > d[n + 1])
  <2>1. c[n] >= MaxTaskPrio /\ MaxTaskPrio \in Nat /\ Base[a] \in Nat /\ Base[a] <= MaxTaskPrio
    BY <1>1, <1>2, RaisedIs DEF Numbers, Exe
  <2> QED
    BY <1>1, <1>13, <2>1
<1>17. WaitOK(u, d, r, pend)
  <2>1. n + 1 > 1
    BY <1>1
  <2> QED
    BY <1>0, <1>13, <1>14, <1>15, <1>16, <2>1 DEF WaitOK
<1>18. Good(v, u, y, d, cp, me, lo, r, mu, l, pend)
  BY <1>1, <1>5, <1>12, <1>17 DEF Good
<1> QED
  BY <1>18

-----------------------------------------------------------------------------
(* dv_runqueued()                                                          *)

\* dv_runqueued(), whose frame is n, on top, has nothing left to run.
RunReturns(n, s, t, q, cp, me, me2, lo, lo2) ==
  /\ n = Len(s)
  /\ s[n].kind = "run" /\ \A p \in s[n].low + 1 .. s[n].p : q[p] = <<>>
  /\ Shorter(s, t) /\ me2 = s[n].exe
  /\ lo2 = IF me # me2 THEN Level(cp[me2]) ELSE lo

\* dv_runqueued() finds nothing more to run and gives its caller back its level.
LEMMA ReturnKeeps ==
  ASSUME Numbers, LevelsRise, NEW v, NEW s, NEW x, NEW c,
         NEW cp, NEW me, NEW lo, NEW q, NEW mu, NEW l,
         NEW pend, Good(v, s, x, c, cp, me, lo, q, mu, l, pend),
         NEW n, NEW t \in Seq(Frame), NEW me2, NEW lo2, RunReturns(n, s, t, q, cp, me, me2, lo, lo2)
  PROVE  \E y \in Seq(Exe), d \in Seq(Prio) : Good(v, t, y, d, cp, me2, lo2, q, mu, l, pend)
<1>0. /\ n = Len(s)
      /\ s[n].kind = "run" /\ \A p \in s[n].low + 1 .. s[n].p : q[p] = <<>>
      /\ Shorter(s, t) /\ me2 = s[n].exe
      /\ lo2 = IF me # me2 THEN Level(cp[me2]) ELSE lo
  BY DEF RunReturns
<1> USE <1>0
<1>1. /\ n \in Nat /\ n > 1 /\ RunOK(s, x, c, n) /\ c[n] \in Prio /\ c[n] \in Nat
      /\ x[n] \in Exe /\ cp[x[n]] = c[n] /\ s[n] \in Frame
  BY GoodTop DEF Placed
<1>2. /\ Same(x, c, n) /\ s[n].low = c[n] /\ me2 = x[n] /\ Calls(s[n - 1]) /\ c[n] < s[n].p
  BY <1>1 DEF RunOK, Calls
<1>3. s[n].p \in Nat
  <2>1. s[n] \in RunFrame
    BY <1>1 DEF Frame, ExeFrame, IrqFrame, PendSVFrame, PreemptFrame
  <2>2. s[n].p \in Prio
    BY <2>1 DEF RunFrame
  <2> QED
    BY <2>2 DEF Prio, Numbers
<1>4. PICK y \in Seq(Exe), d \in Seq(Prio) :
        /\ Popped(s, x, c, t, y, d, n) /\ SameExes(s, c, t, d)
        /\ StackOK(v, t, y, d) /\ CurrentOK(t, y, d, cp) /\ Rest(v, t, d, q, mu, l)
  BY <1>2, PopKeeps
<1>5. /\ Len(t) = n - 1 /\ t[n - 1] = s[n - 1] /\ y[n - 1] = x[n - 1] /\ d[n - 1] = c[n - 1]
      /\ d[n - 1] = c[n] /\ y[n - 1] = x[n]
  BY <1>2, <1>4 DEF Popped, Same
<1>6. ContextOK(v, t, y, d, me2, lo2)
  <2>1. s[n - 1].kind # "preempt" => lo2 = Level(c[n])
    <3>1. CASE me # me2
      BY <1>1, <1>2, <3>1
    <3>2. CASE me = me2
      BY <1>1, <1>2, <3>2 DEF Good, ContextOK, RunOK
    <3> QED
      BY <3>1, <3>2
  <2> QED
    BY <1>2, <1>5, <2>1 DEF ContextOK, Calls
<1>7. WaitOK(t, d, q, pend)
  <2>1. WaitOK(s, c, q, pend)
    BY DEF Good
  <2>2. ASSUME NEW a \in Exe, Waits(t, q, a), Base[a] > c[n], Base[a] <= s[n].p PROVE FALSE
    <3>1. Waits(s, q, a)
      BY <1>4, <2>2, SameWaits
    <3>2. q[Base[a]] # <<>> /\ Base[a] \in Nat
      BY <3>1, WaitsInQueue DEF Numbers
    <3>3. Base[a] \in s[n].low + 1 .. s[n].p
      BY <1>1, <1>2, <1>3, <2>2, <3>2
    <3> QED
      BY <3>2, <3>3
  <2>3. ASSUME NEW i \in Isr, Waits(t, q, i) PROVE FALSE
    <3>1. Waits(s, q, i)
      BY <1>4, <2>3, SameWaits
    <3>2. s[n].p = Base[i]
      BY <2>1, <3>1 DEF WaitOK
    <3>3. Base[i] > c[n] /\ Base[i] <= s[n].p
      BY <1>1, <1>2, <1>3, <3>2
    <3> QED
      BY <2>2, <2>3, <3>3 DEF Exe
  <2>4. ASSUME NEW a \in Task, Waits(t, q, a), Base[a] > d[n - 1] PROVE FALSE
    <3>1. Waits(s, q, a)
      BY <1>4, <2>4, SameWaits
    <3>2. Base[a] > c[n]
      BY <1>5, <2>4
    <3>3. Serves(s[n], pend, Base[a])
      BY <2>1, <3>1, <3>2 DEF WaitOK
    <3>4. Base[a] <= s[n].p
      BY <3>3 DEF Serves
    <3> QED
      BY <2>2, <2>4, <3>2, <3>4 DEF Exe
  <2> QED
    BY <1>5, <2>3, <2>4 DEF WaitOK
<1>8. me2 \in Exe
  BY <1>1, <1>2
<1>9. Good(v, t, y, d, cp, me2, lo2, q, mu, l, pend)
  BY <1>4, <1>6, <1>7, <1>8 DEF Good
<1> QED
  BY <1>9

\* The main function of an executable is called.
LEMMA PushExe ==
  ASSUME Numbers, NEW v, NEW s, NEW x, NEW c, StackOK(v, s, x, c), NEW n, n = Len(s),
         NEW e \in Exe, e # Idle, s[n].kind = "run", s[n].p = Base[e], c[n] < Base[e],
         e \in Isr <=> InHandler(s, n),
         v = "v6" /\ Base[e] > MaxTaskPrio =>
           \E h \in 1 .. n : s[h].kind = "irq" /\ Base[e] <= Base[s[h].isr],
         NEW t \in Seq(Frame), Longer(s, t, Main(e)), NEW y \in Seq(Exe), Longer(x, y, e),
         NEW d \in Seq(Prio), Longer(c, d, Base[e])
  PROVE  /\ StackOK(v, t, y, d)
         /\ Follows(s, x, c, t, y, d, e, Base[e])
<1>1. n \in Nat \ {0} /\ Len(x) = n /\ Len(c) = n
  BY DEF StackOK, Shaped
<1>2. /\ Len(t) = n + 1 /\ t[n + 1] = Main(e) /\ y[n + 1] = e /\ d[n + 1] = Base[e]
      /\ Agree(s, t, n) /\ Agree(x, y, n) /\ Agree(c, d, n) /\ Len(y) = n + 1 /\ Len(d) = n + 1
  BY <1>1 DEF Longer
<1>3. \A k \in 1 .. n : t[k] = s[k] /\ y[k] = x[k] /\ d[k] = c[k]
  BY <1>2 DEF Agree
<1>4. t[n + 1].kind = "exe" /\ t[n + 1].exe = e
  BY <1>2 DEF Main
<1>5. PICK k \in Nat : k = n + 1 /\ k > 1 /\ k - 1 = n
  BY <1>1
<1>6. t[n] = s[n] /\ y[n] = x[n] /\ d[n] = c[n]
  BY <1>1, <1>3
<1>7. c[n] \in Nat /\ x[n] \in Exe /\ Base[x[n]] \in Nat /\ Base[x[n]] <= c[n] /\ Base[e] \in Nat
  <2>1. c[n] \in Nat /\ x[n] \in Exe /\ Rising(v, s, x, c, n)
    BY TopFacts
  <2> QED
    BY <2>1 DEF Rising, Numbers
<1>8. Shaped(t, y, d)
  BY <1>1, <1>2 DEF Shaped
<1>9. FrameOK(v, s, x, c, n)
  BY <1>1 DEF StackOK
<1>10. Rising(v, t, y, d, k - 1)
  <2>1. FrameOK(v, t, y, d, n)
    BY <1>1, <1>2, <1>9, FrameLocal
  <2> QED
    BY <1>5, <2>1 DEF FrameOK
<1>11. Rising(v, t, y, d, k)
  <2>1. d[k - 1] <= d[k] /\ Base[y[k - 1]] <= Base[y[k]] /\ Base[y[k]] <= d[k] /\ k = Len(t)
    BY <1>2, <1>5, <1>6, <1>7
  <2>2. v = "v6" /\ d[k] > MaxTaskPrio =>
          d[k] = d[k - 1] \/ \E h \in 1 .. k : t[h].kind = "irq" /\ d[k] <= Base[t[h].isr]
    <3>1. SUFFICES ASSUME v = "v6", Base[e] > MaxTaskPrio
                   PROVE  \E h \in 1 .. k : t[h].kind = "irq" /\ Base[e] <= Base[t[h].isr]
      BY <1>2, <1>5
    <3>2. PICK h \in 1 .. n : s[h].kind = "irq" /\ Base[e] <= Base[s[h].isr]
      BY <3>1
    <3>3. h \in 1 .. k /\ t[h] = s[h]
      BY <1>1, <1>3, <1>5
    <3> QED
      BY <3>2, <3>3
  <2> QED
    BY <1>5, <1>8, <1>10, <2>1, <2>2, RisingStep
<1>12. InHandler(t, k) <=> InHandler(s, n)
  <2>1. \A h \in 1 .. k - 1 : h = n \/ h \in 1 .. n - 1
    BY <1>1, <1>5
  <2>2. \A h \in 1 .. n - 1 : h \in 1 .. k - 1 /\ t[h] = s[h]
    BY <1>1, <1>3, <1>5
  <2>3. ~IsHandler(t[n])
    BY <1>6 DEF IsHandler
  <2> QED
    BY <2>1, <2>2, <2>3 DEF InHandler
<1>13. ExeOK(t, y, d, k)
  BY <1>2, <1>4, <1>5, <1>6, <1>12 DEF ExeOK
<1>14. FrameOK(v, t, y, d, k)
  BY <1>4, <1>5, <1>11, <1>13 DEF FrameOK, Placed
<1>15. StackOK(v, t, y, d)
  <2>1. k \in Nat \ {0} /\ k = Len(t) /\ k - 1 <= Len(s)
    BY <1>1, <1>2, <1>5
  <2> QED
    BY <1>2, <1>5, <1>8, <1>14, <2>1, StackStep
<1>16. ASSUME NEW cp \in [Exe -> Prio], CurrentOK(s, x, c, cp), NEW cq,
              cq = [cp EXCEPT ![e] = Base[e]]
       PROVE  CurrentOK(t, y, d, cq)
  <2>1. SUFFICES ASSUME NEW j \in 1 .. n + 1, j = n + 1 \/ t[j + 1].kind = "exe"
                 PROVE  cq[y[j]] = d[j]
    BY <1>2 DEF CurrentOK
  <2>2. CASE j = n + 1
    BY <1>2, <1>16, <2>2
  <2>3. CASE j \in 1 .. n
    <3>1. x[j] \in Exe /\ Base[x[j]] \in Nat /\ Base[x[j]] <= Base[x[n]]
      BY <1>1, <2>3, ExeAt DEF Numbers
    <3>2. x[j] # e
      BY <1>7, <3>1
    <3>3. cp[x[j]] = c[j]
      <4>1. CASE j = n
        BY <1>1, <1>16, <4>1 DEF CurrentOK
      <4>2. CASE j # n
        <5>1. j + 1 \in 1 .. n /\ j \in 1 .. Len(s)
          BY <1>1, <2>3, <4>2
        <5>2. s[j + 1].kind = "exe"
          BY <1>3, <2>1, <2>3, <5>1
        <5> QED
          BY <1>16, <5>1, <5>2 DEF CurrentOK
      <4> QED
        BY <4>1, <4>2
    <3> QED
      BY <1>3, <1>16, <2>3, <3>1, <3>2, <3>3
  <2> QED
    BY <2>2, <2>3
<1> QED
  BY <1>15, <1>16 DEF Follows

\* The mutexes and the queues do not mind a new executable that is queued.
LEMMA RestPushExe ==
  ASSUME NEW v, NEW s, NEW c, NEW q, NEW mu, NEW l, Rest(v, s, c, q, mu, l), NEW n \in Nat,
         n = Len(s), Len(c) = n, NEW e, InQueue(q, e), ~Live(s, e),
         NEW t, Longer(s, t, Main(e)), NEW d, Longer(c, d, Base[e])
  PROVE  Rest(v, t, d, q, mu, l)
<1>1. /\ Len(t) = n + 1 /\ t[n + 1].kind = "exe" /\ t[n + 1].exe = e /\ d[n + 1] = Base[e]
      /\ \A k \in 1 .. n : t[k] = s[k] /\ d[k] = c[k]
      /\ \A k \in 1 .. n + 1 : k = n + 1 \/ k \in 1 .. n
  BY DEF Longer, Agree, Main
<1>2. MutexOK(v, s, c, mu, l) /\ CeilingOK(s, c, mu, l) /\ QueueOK(s, q, mu, l)
  BY DEF Rest
<1>3. ASSUME NEW a, NEW p, RunsAt(s, c, a, p) PROVE RunsAt(t, d, a, p)
  <2>1. PICK k \in 2 .. Len(s) : s[k].kind = "exe" /\ s[k].exe = a /\ p <= c[k]
    BY <1>3 DEF RunsAt
  <2>2. k \in 1 .. n /\ k \in 2 .. Len(t)
    BY <1>1
  <2> QED
    BY <1>1, <2>1, <2>2 DEF RunsAt
<1>4. MutexOK(v, t, d, mu, l)
  BY <1>2, <1>3 DEF MutexOK
<1>5. \A m \in 1 .. Len(mu) : mu[m].owner # e
  <2>1. ASSUME NEW m \in 1 .. Len(mu), mu[m].owner = e PROVE FALSE
    <3>1. RunsAt(s, c, e, l[m])
      BY <1>2, <2>1 DEF MutexOK
    <3>2. PICK k \in 2 .. Len(s) : s[k].kind = "exe" /\ s[k].exe = e
      BY <3>1 DEF RunsAt
    <3>3. k \in 1 .. Len(s)
      OBVIOUS
    <3> QED
      BY <3>2, <3>3 DEF Live
  <2> QED
    BY <2>1
<1>6. CeilingOK(t, d, mu, l)
  <2>1. ASSUME NEW k \in 1 .. Len(t), t[k].kind = "exe"
        PROVE  /\ (\A m \in 1 .. Len(mu) : mu[m].owner # t[k].exe) => d[k] = Base[t[k].exe]
               /\ \A m \in 1 .. Len(mu) : mu[m].owner = t[k].exe /\ Newest(mu, m) => d[k] = l[m]
    <3>1. CASE k = n + 1
      BY <1>1, <1>5, <3>1
    <3>2. CASE k \in 1 .. n
      <4>1. t[k] = s[k] /\ d[k] = c[k] /\ k \in 1 .. Len(s)
        BY <1>1, <3>2
      <4> QED
        BY <1>2, <2>1, <4>1 DEF CeilingOK
    <3> QED
      BY <1>1, <3>1, <3>2
  <2> QED
    BY <2>1 DEF CeilingOK
<1>7. QueueOK(t, q, mu, l)
  <2>1. \A k \in 1 .. Len(t) : t[k].kind = "exe" => InQueue(q, t[k].exe)
    BY <1>1, <1>2 DEF QueueOK
  <2> QED
    BY <1>2, <2>1 DEF QueueOK
<1> QED
  BY <1>4, <1>6, <1>7 DEF Rest

\* dv_runqueued(), whose frame g becomes f, has chosen the executable e.
Chosen(g, f, p, e, q) ==
  /\ g.kind = "run" /\ p \in g.low + 1 .. g.p /\ q[p] # <<>>
  /\ \A r \in g.low + 1 .. g.p : q[r] # <<>> => r <= p
  /\ e = q[p][1]
  /\ f.kind = "run" /\ f.p = p /\ f.low = g.low /\ f.exe = g.exe

Dispatches(s, n, t, u, f, p, e, q, cp, cq, lo) ==
  /\ Chosen(s[n], f, p, e, q) /\ Changed(s, t, f) /\ Longer(t, u, Main(e))
  /\ Sets(cp, e, Base[e], cq) /\ lo = Level(Base[e])

\* dv_runqueued() starts the first executable of the highest queue.
LEMMA DispatchKeeps ==
  ASSUME Numbers, LevelsRise, NEW v, NEW s, NEW x, NEW c,
         NEW cp, NEW me, NEW lo, NEW q, NEW mu, NEW l,
         NEW pend, Good(v, s, x, c, cp, me, lo, q, mu, l, pend), NEW n, n = Len(s),
         NEW t \in Seq(Frame), NEW u \in Seq(Frame), NEW f, NEW p, NEW e, NEW cq,
         NEW lo2, Dispatches(s, n, t, u, f, p, e, q, cp, cq, lo2)
  PROVE  \E y \in Seq(Exe), d \in Seq(Prio) : Good(v, u, y, d, cq, e, lo2, q, mu, l, pend)
<1>0. /\ s[n].kind = "run" /\ p \in s[n].low + 1 .. s[n].p /\ q[p] # <<>>
      /\ \A r \in s[n].low + 1 .. s[n].p : q[r] # <<>> => r <= p
      /\ e = q[p][1]
      /\ f.kind = "run" /\ f.p = p /\ f.low = s[n].low /\ f.exe = s[n].exe
      /\ cq = [cp EXCEPT ![e] = Base[e]] /\ lo2 = Level(Base[e])
      /\ Changed(s, t, f) /\ Longer(t, u, Main(e))
  BY DEF Dispatches, Chosen, Sets
<1> USE <1>0
<1>1. /\ n \in Nat /\ n > 1 /\ RunOK(s, x, c, n) /\ c[n] \in Prio /\ c[n] \in Nat
      /\ x[n] \in Exe /\ cp[x[n]] = c[n] /\ s[n] \in Frame /\ [cp EXCEPT ![x[n]] = c[n]] = cp
      /\ x \in Seq(Exe) /\ Len(x) = n /\ Len(c) = n
  BY GoodTop DEF Placed
<1>2. /\ Same(x, c, n) /\ s[n].low = c[n] /\ s[n].exe = x[n] /\ Calls(s[n - 1]) /\ c[n] < s[n].p
      /\ (InHandler(s, n) => c[n] >= MaxTaskPrio)
  BY <1>1 DEF RunOK, Calls
<1>3. s[n].p \in Nat /\ s[n].p <= MaxPrio /\ MaxPrio \in Nat /\ MaxTaskPrio \in Nat
  <2>1. s[n] \in RunFrame
    BY <1>1 DEF Frame, ExeFrame, IrqFrame, PendSVFrame, PreemptFrame
  <2>2. s[n].p \in Prio
    BY <2>1 DEF RunFrame
  <2> QED
    BY <2>2 DEF Prio, Numbers
<1>4. p \in Nat /\ p > c[n] /\ p <= s[n].p /\ p \in Prio
  BY <1>1, <1>2, <1>3 DEF Prio
<1>5. /\ StackOK(v, s, x, c) /\ CurrentOK(s, x, c, cp) /\ Rest(v, s, c, q, mu, l)
      /\ WaitOK(s, c, q, pend) /\ cp \in [Exe -> Prio] /\ Shaped(s, x, c)
  BY DEF Good, StackOK
<1>6. e \in Exe /\ Base[e] = p /\ Waits(s, q, e)
  BY <1>4, <1>5, Above
<1>7. PICK g \in Seq(Prio) : Moved(s, x, c, t, g, f, c[n], n)
  BY <1>1, <1>5, MoveShape
<1>8. /\ Len(t) = n /\ t[n] = f /\ g[n] = c[n]
      /\ t[n - 1] = s[n - 1] /\ g[n - 1] = c[n - 1]
      /\ (InHandler(t, n) <=> InHandler(s, n))
  BY <1>1, <1>7 DEF Moved
<1>9. Placed(v, t, x, g, n)
  <2>1. RunOK(t, x, g, n)
    BY <1>1, <1>2, <1>4, <1>8 DEF RunOK, Same
  <2> QED
    BY <1>8, <2>1 DEF Placed
<1>10. Stepped(v, s, x, c, t, g, f, c[n])
  BY <1>7, <1>9 DEF Stepped, Moved
<1>11. StackOK(v, t, x, g) /\ SameExes(s, c, t, g) /\ CurrentOK(t, x, g, cp)
  <2>1. c[n] = c[n - 1] /\ x[n] = x[n - 1]
    BY <1>2 DEF Same
  <2>2. /\ c[n] >= c[Len(s) - 1] /\ (c[n] <= MaxTaskPrio \/ c[n] = c[Len(s) - 1])
        /\ x[Len(s)] = x[Len(s) - 1]
    BY <1>1, <2>1
  <2>3. cp = [cp EXCEPT ![x[Len(s)]] = c[n]]
    BY <1>1
  <2>4. /\ StackOK(v, t, x, g) /\ SameExes(s, c, t, g)
        /\ Follows(s, x, c, t, x, g, x[Len(s)], c[n])
    BY <1>1, <1>5, <1>10, <2>2, StepSame
  <2> QED
    BY <1>5, <2>3, <2>4 DEF Follows
<1>12. Rest(v, t, g, q, mu, l)
  BY <1>5, <1>11, RestStays
<1>13. e # Idle
  BY <1>1, <1>4, <1>6 DEF Numbers
<1>14. e \in Isr => s[n - 1].kind = "irq" /\ s[n - 1].isr = e /\ s[n].p = Base[e]
  BY <1>5, <1>6 DEF WaitOK
<1>15. e \in Isr <=> InHandler(t, n)
  <2>1. ASSUME e \in Isr PROVE InHandler(t, n)
    <3>1. n - 1 \in 1 .. n - 1 /\ t[n - 1].kind = "irq"
      BY <1>1, <1>8, <1>14, <2>1
    <3> QED
      BY <3>1 DEF InHandler, IsHandler
  <2>2. ASSUME e \notin Isr, InHandler(t, n) PROVE FALSE
    <3>1. e \in Task
      BY <1>6, <1>13, <2>2 DEF Exe
    <3>2. Base[e] <= MaxTaskPrio /\ c[n] >= MaxTaskPrio
      BY <1>2, <1>8, <2>2, <3>1 DEF Numbers
    <3> QED
      BY <1>1, <1>3, <1>4, <1>6, <3>2
  <2> QED
    BY <2>1, <2>2
<1>16. v = "v6" /\ Base[e] > MaxTaskPrio =>
         \E h \in 1 .. n : t[h].kind = "irq" /\ Base[e] <= Base[t[h].isr]
  <2>1. SUFFICES ASSUME Base[e] > MaxTaskPrio
                 PROVE  \E h \in 1 .. n : t[h].kind = "irq" /\ Base[e] <= Base[t[h].isr]
    OBVIOUS
  <2>2. e \in Isr
    <3>1. e \notin Task
      BY <1>3, <1>4, <1>6, <2>1 DEF Numbers
    <3> QED
      BY <1>6, <1>13, <3>1 DEF Exe
  <2>3. n - 1 \in 1 .. n /\ t[n - 1].kind = "irq" /\ t[n - 1].isr = e
    BY <1>1, <1>8, <1>14, <2>2
  <2> QED
    BY <1>4, <1>6, <2>3
<1>17. PICK y \in Seq(Exe) : Longer(x, y, e)
  BY <1>1, <1>6, LongerExists
<1>18. PICK d \in Seq(Prio) : Longer(g, d, Base[e])
  BY <1>4, <1>6, LongerExists
<1>19. /\ Len(u) = n + 1 /\ u[n + 1].kind = "exe" /\ y[n + 1] = e /\ d[n + 1] = p /\ Len(g) = n
       /\ u[n + 1].exe = e
  <2>1. Len(g) = n
    BY <1>7, <1>8 DEF Moved, Shaped
  <2> QED
    BY <1>1, <1>6, <1>8, <1>17, <1>18, <2>1 DEF Longer, Main
<1>20. /\ StackOK(v, u, y, d)
       /\ Follows(t, x, g, u, y, d, e, Base[e])
  <2>1. t[n].kind = "run" /\ t[n].p = Base[e] /\ g[n] < Base[e] /\ n = Len(t)
    BY <1>1, <1>4, <1>6, <1>8
  <2> QED
    BY <1>6, <1>11, <1>13, <1>15, <1>16, <1>17, <1>18, <2>1, PushExe,
       ZenonT(30)
<1>21. CurrentOK(u, y, d, cq)
  BY <1>5, <1>11, <1>20 DEF Follows
<1>22. Rest(v, u, d, q, mu, l)
  <2>1. InQueue(q, e) /\ ~Live(t, e)
    BY <1>6, <1>11, SameLive DEF Waits
  <2> QED
    BY <1>1, <1>8, <1>12, <1>18, <1>19, <2>1, RestPushExe
<1>23. ASSUME NEW a \in Exe, Waits(u, q, a) PROVE Waits(s, q, a) /\ a # e
  <2>1. a # e
    <3>1. n + 1 \in 1 .. Len(u)
      BY <1>1, <1>19
    <3> QED
      BY <1>19, <1>23, <3>1 DEF Waits, Live
  <2>2. ~Live(t, a)
    <3>1. \A k \in 1 .. Len(t) : k \in 1 .. Len(u) /\ u[k] = t[k]
      BY <1>1, <1>8, <1>19 DEF Longer, Agree
    <3> QED
      BY <1>23, <3>1 DEF Waits, Live
  <2> QED
    BY <1>11, <1>23, <2>1, <2>2, SameLive DEF Waits
<1>24. ASSUME NEW a \in Exe, Waits(u, q, a), Base[a] > c[n], Base[a] <= s[n].p
       PROVE  Base[a] <= p
  <2>1. q[Base[a]] # <<>> /\ Base[a] \in Nat
    BY <1>23, <1>24, WaitsInQueue DEF Numbers
  <2>2. Base[a] \in s[n].low + 1 .. s[n].p
    BY <1>1, <1>2, <1>3, <1>24, <2>1
  <2> QED
    BY <2>1, <2>2
<1>25. WaitOK(u, d, q, pend)
  <2>1. ASSUME NEW i \in Isr, Waits(u, q, i) PROVE FALSE
    <3>1. i \in Exe /\ Waits(s, q, i) /\ i # e
      BY <1>23, <2>1 DEF Exe
    <3>2. s[n].p = Base[i]
      BY <1>5, <3>1 DEF WaitOK
    <3>3. Base[i] <= p
      BY <1>1, <1>2, <1>3, <1>24, <2>1, <3>1, <3>2
    <3>4. Base[i] = p
      BY <1>3, <1>4, <3>2, <3>3
    <3> QED
      BY <1>6, <3>1, <3>4 DEF Numbers
  <2>2. ASSUME NEW a \in Task, Waits(u, q, a), Base[a] > d[n + 1] PROVE FALSE
    <3>1. a \in Exe /\ Waits(s, q, a) /\ Base[a] \in Nat
      BY <1>23, <2>2 DEF Exe, Numbers
    <3>2. Base[a] > c[n]
      BY <1>1, <1>4, <1>19, <2>2, <3>1
    <3>3. Serves(s[n], pend, Base[a])
      BY <1>5, <3>1, <3>2 DEF WaitOK
    <3>4. Base[a] <= s[n].p
      BY <3>3 DEF Serves
    <3>5. Base[a] <= p
      BY <1>24, <2>2, <3>1, <3>2, <3>4
    <3> QED
      BY <1>4, <1>19, <2>2, <3>1, <3>5
  <2> QED
    BY <1>19, <2>1, <2>2 DEF WaitOK
<1>26. ContextOK(v, u, y, d, e, Level(Base[e]))
  BY <1>6, <1>19 DEF ContextOK
<1>27. cq \in [Exe -> Prio]
  BY <1>4, <1>5, <1>6
<1>28. Good(v, u, y, d, cq, e, Level(Base[e]), q, mu, l, pend)
  BY <1>6, <1>20, <1>21, <1>22, <1>25, <1>26, <1>27 DEF Good
<1> QED
  BY <1>28

-----------------------------------------------------------------------------
(* Executables and their mutexes                                           *)

\* The mutexes that are held when the code of an executable runs
LEMMA Owners ==
  ASSUME Numbers, NEW v, NEW s, NEW x, NEW c, NEW q, NEW mu, NEW l, StackOK(v, s, x, c),
         Rest(v, s, c, q, mu, l), NEW n, n = Len(s), s[n].kind = "exe", NEW m \in 1 .. Len(mu)
  PROVE  /\ mu[m].owner \in Exe /\ mu[m].save \in Prio /\ mu[m].save \in Nat
         /\ l[m] \in Prio /\ l[m] \in Nat /\ Base[mu[m].owner] \in Nat
         /\ l[m] <= c[n] /\ Base[mu[m].owner] <= Base[x[n]]
         /\ mu[m].owner # x[n] => l[m] < Base[x[n]]
         /\ n > 1
<1>1. mu \in Seq([owner : Exe, save : Prio]) /\ l \in Seq(Prio) /\ Len(l) = Len(mu)
  BY DEF Rest, MutexOK
<1>2. mu[m] \in [owner : Exe, save : Prio] /\ l[m] \in Prio
  <2>1. m \in 1 .. Len(l)
    BY <1>1
  <2>2. l[m] \in Prio
    BY <1>1, <2>1
  <2>3. PICK R : R = [owner : Exe, save : Prio]
    OBVIOUS
  <2>4. mu \in Seq(R) /\ m \in 1 .. Len(mu)
    BY <1>1, <2>3
  <2>5. mu[m] \in R
    BY <2>4
  <2> QED
    BY <2>2, <2>3, <2>5
<1>3. mu[m].owner \in Exe /\ mu[m].save \in Prio
  BY <1>2
<1>4. mu[m].save \in Nat /\ l[m] \in Nat /\ Base[mu[m].owner] \in Nat
  BY <1>2, <1>3 DEF Prio, Numbers
<1>5. RunsAt(s, c, mu[m].owner, l[m])
  BY DEF Rest, MutexOK
<1>6. PICK k \in 2 .. Len(s) : s[k].kind = "exe" /\ s[k].exe = mu[m].owner /\ l[m] <= c[k]
  BY <1>5 DEF RunsAt
<1>7. n \in Nat /\ k \in 1 .. Len(s) /\ n \in 1 .. Len(s) /\ n > 1
  BY DEF StackOK, Shaped
<1>8. /\ x[k] = mu[m].owner /\ c[k] \in Nat /\ c[k] <= c[n] /\ Base[x[k]] <= Base[x[n]]
      /\ c[n] \in Nat /\ x[n] \in Exe
  BY <1>6, <1>7, ExeAt
<1>9. ASSUME mu[m].owner # x[n] PROVE l[m] < Base[x[n]]
  <2>1. k # n
    BY <1>8, <1>9
  <2>2. k \in 1 .. n - 1 /\ n \in 2 .. Len(s) /\ n \in n .. Len(s)
    BY <1>7, <2>1
  <2>3. c[k] < Base[x[n]]
    BY <2>2, BelowExe
  <2> QED
    BY <1>4, <1>6, <1>8, <2>3 DEF Numbers
<1> QED
  BY <1>3, <1>2, <1>4, <1>6, <1>7, <1>8, <1>9

\* The mutexes of the executable on top are the newest ones.
LEMMA OwnersOnTop ==
  ASSUME Numbers, NEW v, NEW s, NEW x, NEW c, NEW q, NEW mu, NEW l, StackOK(v, s, x, c),
         Rest(v, s, c, q, mu, l), NEW n, n = Len(s), s[n].kind = "exe",
         NEW m \in 1 .. Len(mu), mu[m].owner = x[n], NEW k \in m .. Len(mu)
  PROVE  mu[k].owner = x[n]
<1>1. Len(mu) \in Nat /\ m \in 1 .. Len(mu) /\ k \in 1 .. Len(mu) /\ (k = m \/ m \in 1 .. k - 1)
  BY DEF Rest, MutexOK
<1>2. CASE k = m
  BY <1>2
<1>3. CASE m \in 1 .. k - 1
  <2>1. Base[mu[m].owner] <= Base[mu[k].owner]
    BY <1>1, <1>3 DEF Rest, MutexOK
  <2>2. /\ mu[k].owner \in Exe /\ Base[mu[k].owner] \in Nat /\ Base[mu[k].owner] <= Base[x[n]]
        /\ x[n] \in Exe /\ Base[x[n]] \in Nat
    BY <1>1, Owners
  <2>3. Base[mu[k].owner] = Base[x[n]]
    BY <2>1, <2>2
  <2> QED
    BY <2>2, <2>3 DEF Numbers
<1> QED
  BY <1>1, <1>2, <1>3

\* The base priorities below the executable on top
LEMMA OthersBelow ==
  ASSUME Numbers, NEW v, NEW s, NEW x, NEW c, StackOK(v, s, x, c), NEW n, n = Len(s),
         s[n].kind = "exe", NEW k \in 1 .. n - 1, s[k].kind = "exe"
  PROVE  /\ s[k].exe = x[k] /\ s[k].exe \in Exe /\ Base[s[k].exe] \in Nat
         /\ Base[s[k].exe] < Base[x[n]] /\ s[k].exe # x[n] /\ c[k] \in Nat /\ c[k] < Base[x[n]]
<1>1. n \in Nat /\ k \in 1 .. Len(s) /\ n \in 2 .. Len(s) /\ n \in n .. Len(s)
  BY DEF StackOK, Shaped
<1>2. Base[x[k]] < Base[x[n]] /\ c[k] < Base[x[n]]
  BY <1>1, BelowExe
<1>3. s[k].exe = x[k] /\ x[k] \in Exe /\ c[k] \in Nat
  BY <1>1, ExeAt
<1>4. Base[x[k]] \in Nat
  BY <1>3 DEF Numbers
<1> QED
  BY <1>2, <1>3, <1>4

Unqueued(q, e, r) == r = [q EXCEPT ![Base[e]] = Tail(@)]

\* The main function returns: its executable leaves the queue and the stack.
LEMMA TerminateKeeps ==
  ASSUME Numbers, LevelsRise, NEW v, NEW s, NEW x, NEW c,
         NEW cp, NEW me, NEW lo, NEW q, NEW mu, NEW l,
         NEW pend, Good(v, s, x, c, cp, me, lo, q, mu, l, pend), NEW n, n = Len(s),
         CodeRuns(v, s, lo, pend), me # Idle, \A m \in 1 .. Len(mu) : mu[m].owner # me,
         NEW r, Unqueued(q, me, r),
         NEW t \in Seq(Frame), Shorter(s, t)
  PROVE  \E y \in Seq(Exe), d \in Seq(Prio) : Good(v, t, y, d, cp, me, lo, r, mu, l, pend)
<1>0. r = [q EXCEPT ![Base[me]] = Tail(@)]
  BY DEF Unqueued
<1> USE <1>0
<1>1. /\ s[n].kind = "exe" /\ me = x[n] /\ c[n] \in Nat /\ n \in Nat /\ n \in 1 .. Len(s)
      /\ x[n] \in Exe /\ Len(x) = n /\ Len(c) = n
  BY GoodTop DEF CodeRuns
<1>2. /\ StackOK(v, s, x, c) /\ CurrentOK(s, x, c, cp) /\ Rest(v, s, c, q, mu, l)
      /\ WaitOK(s, c, q, pend) /\ Shaped(s, x, c) /\ QueueOK(s, q, mu, l) /\ MutexOK(v, s, c, mu, l)
      /\ CeilingOK(s, c, mu, l)
  BY DEF Good, StackOK, Rest
<1>3. s[n].exe = me /\ n > 1
  BY <1>1, <1>2, ExeAt
<1>4. PICK b \in Prio : b = Base[me]
  BY <1>1 DEF Numbers, Prio
<1>5. b \in Nat /\ c[n] = b
  BY <1>1, <1>2, <1>3, <1>4 DEF CeilingOK, Prio
<1>6. \A m \in 1 .. Len(mu) : l[m] \in Prio /\ l[m] \in Nat /\ l[m] < b
  BY <1>1, <1>2, <1>4, Owners
<1>7. \A k \in 1 .. Len(q[b]) : Base[q[b][k]] = b
  <2>1. \A k \in 1 .. Len(q[b]) : Base[q[b][k]] # b => \E m \in 1 .. Len(mu) : l[m] = b
    BY <1>2 DEF QueueOK
  <2> QED
    BY <1>5, <1>6, <2>1
<1>8. q[b] \in Seq(Exe) /\ Len(q[b]) <= 2 /\ (Len(q[b]) = 2 => Base[q[b][1]] # b)
  BY <1>2 DEF QueueOK
<1>9. PICK j \in 1 .. Len(q[b]) : q[b][j] = me
  BY <1>1, <1>2, <1>3, <1>4 DEF QueueOK, InQueue
<1>10. Len(q[b]) = 1
  <2>1. PICK z \in Nat : z = Len(q[b])
    BY <1>8
  <2>2. z # 0 /\ z <= 2 /\ 1 \in 1 .. z
    BY <1>8, <1>9, <2>1
  <2>3. z # 2
    BY <1>7, <1>8, <2>1, <2>2
  <2>4. z = 1
    BY <2>2, <2>3
  <2> QED
    BY <2>1, <2>4
<1>11. Tail(q[b]) = <<>>
  <2>1. PICK w \in Seq(Exe) : w = q[b]
    BY <1>8
  <2>2. w # <<>> /\ Len(w) = 1
    <3>1. Len(w) = 1
      BY <1>10, <2>1
    <3>2. ASSUME w = <<>> PROVE FALSE
      <4>1. Len(w) = 0
        BY <3>2
      <4> QED
        BY <3>1, <4>1
    <3> QED
      BY <3>1, <3>2
  <2>3. PICK z : z = Tail(w)
    OBVIOUS
  <2>4. Tail(w) \in Seq(Exe) /\ Len(Tail(w)) = Len(w) - 1
    BY <2>2, HeadTailProperties
  <2>5. z \in Seq(Exe) /\ Len(z) = 0
    BY <2>2, <2>3, <2>4
  <2>6. z = <<>>
    BY <2>5, EmptySeq
  <2> QED
    BY <2>1, <2>3, <2>6
<1>12. /\ r[b] = <<>> /\ \A p \in Prio : p # b => r[p] = q[p]
       /\ r \in [Prio -> Seq(Exe)]
  <2>1. q \in [Prio -> Seq(Exe)]
    BY <1>2 DEF QueueOK
  <2>2. <<>> \in Seq(Exe)
    OBVIOUS
  <2>3. r = [q EXCEPT ![b] = <<>>]
    BY <1>4, <1>11
  <2> QED
    BY <2>1, <2>2, <2>3
<1>13. PICK y \in Seq(Exe), d \in Seq(Prio) : Popped(s, x, c, t, y, d, n)
  BY <1>2, <1>3, PopShape
<1>14. /\ Under(s, x, c, t, y, d)
       /\ Len(t) = n - 1 /\ t[n - 1] = s[n - 1] /\ y[n - 1] = x[n - 1] /\ d[n - 1] = c[n - 1]
       /\ \A k \in 1 .. n - 1 : t[k] = s[k] /\ d[k] = c[k] /\ y[k] = x[k]
  BY <1>1, <1>13 DEF Popped, Under, Shorter, Agree
<1>15. StackOK(v, t, y, d)
  BY <1>2, <1>14, StackPop DEF Under
<1>16. CurrentOK(t, y, d, cp)
  BY <1>1, <1>2, <1>3, <1>14, CurrentShorter DEF Under
<1>17. MutexOK(v, t, d, mu, l)
  <2>1. ASSUME NEW m \in 1 .. Len(mu) PROVE RunsAt(t, d, mu[m].owner, l[m])
    <3>1. PICK k \in 2 .. Len(s) : s[k].kind = "exe" /\ s[k].exe = mu[m].owner /\ l[m] <= c[k]
      BY <1>2 DEF MutexOK, RunsAt
    <3>2. k # n
      BY <1>3, <3>1
    <3>3. k \in 2 .. Len(t) /\ k \in 1 .. n - 1
      BY <1>1, <1>14, <3>2, SMTT(20)
    <3> QED
      BY <1>14, <3>1, <3>3 DEF RunsAt
  <2> QED
    BY <1>2, <2>1 DEF MutexOK
<1>18. CeilingOK(t, d, mu, l)
  <2>1. ASSUME NEW k \in 1 .. Len(t), t[k].kind = "exe"
        PROVE  /\ (\A m \in 1 .. Len(mu) : mu[m].owner # t[k].exe) => d[k] = Base[t[k].exe]
               /\ \A m \in 1 .. Len(mu) : mu[m].owner = t[k].exe /\ Newest(mu, m) => d[k] = l[m]
    <3>1. k \in 1 .. Len(s) /\ t[k] = s[k] /\ d[k] = c[k]
      BY <1>1, <1>14
    <3> QED
      BY <1>2, <2>1, <3>1 DEF CeilingOK
  <2> QED
    BY <2>1 DEF CeilingOK
<1>19. QueueOK(t, r, mu, l)
  <2>1. ASSUME NEW p \in Prio
        PROVE  /\ Len(r[p]) <= 2 /\ (Len(r[p]) = 2 => Base[r[p][1]] # p)
               /\ \A i \in 1 .. Len(r[p]) : Base[r[p][i]] # p =>
                    i = 1 /\ \E m \in 1 .. Len(mu) : l[m] = p /\ mu[m].owner = r[p][1]
    <3>1. CASE p = b
      <4>1. r[p] = <<>>
        BY <1>12, <3>1
      <4>2. Len(r[p]) = 0
        BY <4>1
      <4>3. PICK k : k = Len(r[p])
        OBVIOUS
      <4>4. k <= 2 /\ k # 2 /\ \A i \in 1 .. k : FALSE
        BY <4>2, <4>3
      <4> QED
        BY <4>3, <4>4
    <3>2. CASE p # b
      <4>1. r[p] = q[p]
        BY <1>12, <3>2
      <4>2. /\ Len(q[p]) <= 2 /\ (Len(q[p]) = 2 => Base[q[p][1]] # p)
            /\ \A i \in 1 .. Len(q[p]) : Base[q[p][i]] # p =>
                 i = 1 /\ \E m \in 1 .. Len(mu) : l[m] = p /\ mu[m].owner = q[p][1]
        BY <1>2 DEF QueueOK
      <4> QED
        BY <4>1, <4>2
    <3> QED
      BY <3>1, <3>2
  <2>2. ASSUME NEW m \in 1 .. Len(mu) PROVE r[l[m]] # <<>> /\ r[l[m]][1] = mu[m].owner
    <3>1. l[m] # b /\ l[m] \in Prio
      BY <1>5, <1>6
    <3> QED
      BY <1>2, <1>12, <3>1 DEF QueueOK
  <2>3. ASSUME NEW k \in 1 .. Len(t), t[k].kind = "exe" PROVE InQueue(r, t[k].exe)
    <3>1. k \in 1 .. n - 1 /\ k \in 1 .. Len(s) /\ t[k] = s[k]
      BY <1>1, <1>14
    <3>2. s[k].exe \in Exe /\ Base[s[k].exe] # b /\ Base[s[k].exe] \in Prio
      <4>1. s[k].exe \in Exe /\ Base[s[k].exe] \in Nat /\ Base[s[k].exe] < Base[x[n]]
        BY <1>1, <1>2, <2>3, <3>1, OthersBelow
      <4> QED
        BY <1>1, <1>4, <1>5, <4>1 DEF Prio, Numbers
    <3>3. InQueue(q, s[k].exe)
      BY <1>2, <2>3, <3>1 DEF QueueOK
    <3> QED
      BY <1>12, <3>1, <3>2, <3>3 DEF InQueue
  <2> QED
    BY <1>12, <2>1, <2>2, <2>3 DEF QueueOK
<1>20. ASSUME NEW a \in Exe, Waits(t, r, a)
       PROVE  Waits(s, q, a) /\ q[Base[a]] # <<>> /\ Base[a] \in Prio
  <2>1. r[Base[a]] # <<>> /\ Base[a] \in Prio
    BY <1>20, WaitsInQueue
  <2>2. Base[a] # b
    BY <1>12, <2>1
  <2>3. a # me
    BY <1>4, <2>2
  <2>4. InQueue(q, a)
    BY <1>12, <1>20, <2>1, <2>2 DEF Waits, InQueue
  <2>5. ~Live(s, a)
    <3>1. \A k \in 1 .. Len(s) : k = n \/ (k \in 1 .. Len(t) /\ t[k] = s[k])
      BY <1>1, <1>14
    <3> QED
      BY <1>3, <1>20, <2>3, <3>1 DEF Waits, Live
  <2> QED
    BY <1>12, <2>1, <2>2, <2>4, <2>5 DEF Waits
<1>21. Placed(v, s, x, c, n)
  BY <1>2, <1>3, TopFacts
<1>22. s[n - 1].kind = "run" /\ s[n - 1].p = b /\ n - 1 > 1 /\ s[n - 1].exe = x[n - 1]
  <2>1. s[n - 1].kind = "run" /\ s[n - 1].p = b
    BY <1>1, <1>3, <1>4, <1>21 DEF Placed, ExeOK
  <2>2. n - 1 > 1 /\ Placed(v, t, y, d, n - 1)
    BY <1>14, <1>15, <2>1, TopFacts
  <2> QED
    BY <1>14, <2>1, <2>2 DEF Placed, RunOK
<1>23. WaitOK(t, d, r, pend)
  <2>1. ASSUME NEW i \in Isr, Waits(t, r, i) PROVE FALSE
    <3>1. i \in Exe /\ Waits(s, q, i)
      BY <1>20, <2>1 DEF Exe
    <3> QED
      BY <1>1, <1>2, <3>1, NoIsrWaits
  <2>2. ASSUME NEW a \in Task, Waits(t, r, a) PROVE Base[a] <= b
    <3>1. q[Base[a]] # <<>> /\ Base[a] \in Prio
      BY <1>20, <2>2 DEF Exe
    <3>2. ~(Base[a] > c[n])
      BY <3>1, NoneAbove
    <3> QED
      BY <1>5, <3>1, <3>2 DEF Prio
  <2> QED
    BY <1>14, <1>22, <2>1, <2>2 DEF WaitOK, Serves
<1>24. ContextOK(v, t, y, d, me, lo)
  <2>1. me # x[n - 1]
    <3>1. n \in 2 .. Len(s) /\ n \in n .. Len(s) /\ n - 1 \in 1 .. n - 1
      BY <1>1, <1>3
    <3>2. Base[x[n - 1]] < Base[x[n]]
      BY <1>1, <1>2, <3>1, BelowExe
    <3> QED
      BY <1>1, <1>4, <1>5, <3>2
  <2> QED
    BY <1>14, <1>22, <2>1 DEF ContextOK
<1>25. Good(v, t, y, d, cp, me, lo, r, mu, l, pend)
  BY <1>15, <1>16, <1>17, <1>18, <1>19, <1>23, <1>24 DEF Good, Rest
<1> QED
  BY <1>25

-----------------------------------------------------------------------------
(* Mutexes                                                                 *)

Taken(mu, mu2, e, p) ==
  /\ Len(mu2) = Len(mu) + 1
  /\ mu2[Len(mu) + 1].owner = e /\ mu2[Len(mu) + 1].save = p
  /\ Agree(mu, mu2, Len(mu))

MutexTaken(v, p, mu, mu2, q, r, cp, cq, me) ==
  /\ p > cp[me] /\ (v = "v6" => p <= MaxTaskPrio)
  /\ mu2 \in Seq([owner : Exe, save : Prio]) /\ Taken(mu, mu2, me, cp[me])
  /\ r = [q EXCEPT ![p] = Append(@, me)] /\ cq = [cp EXCEPT ![me] = p]

\* dv_takemutex(): the owner goes up to the ceiling and into its queue.
LEMMA TakeMutexKeeps ==
  ASSUME Numbers, LevelsRise, NEW v, NEW s, NEW x, NEW c,
         NEW cp, NEW me, NEW lo, NEW q, NEW mu, NEW l,
         NEW pend, Good(v, s, x, c, cp, me, lo, q, mu, l, pend), NEW n, n = Len(s),
         CodeRuns(v, s, lo, pend), me # Idle,
         NEW p \in Prio, NEW mu2, NEW r, NEW cq, MutexTaken(v, p, mu, mu2, q, r, cp, cq, me)
  PROVE  \E d \in Seq(Prio), g \in Seq(Prio) :
           Good(v, s, x, d, cq, me, Level(p), r, mu2, g, pend)
<1>0. /\ p > cp[me] /\ (v = "v6" => p <= MaxTaskPrio)
      /\ mu2 \in Seq([owner : Exe, save : Prio]) /\ Taken(mu, mu2, me, cp[me])
      /\ r = [q EXCEPT ![p] = Append(@, me)] /\ cq = [cp EXCEPT ![me] = p]
  BY DEF MutexTaken
<1> USE <1>0
<1>1. /\ s[n].kind = "exe" /\ me = x[n] /\ c[n] \in Nat /\ c[n] \in Prio
      /\ n \in Nat /\ n \in 1 .. Len(s)
      /\ x[n] \in Exe /\ Len(x) = n /\ Len(c) = n /\ cp[me] = c[n] /\ s \in Seq(Frame)
  BY GoodTop DEF CodeRuns
<1>2. /\ StackOK(v, s, x, c) /\ CurrentOK(s, x, c, cp) /\ Rest(v, s, c, q, mu, l)
      /\ WaitOK(s, c, q, pend) /\ Shaped(s, x, c) /\ QueueOK(s, q, mu, l) /\ MutexOK(v, s, c, mu, l)
      /\ CeilingOK(s, c, mu, l) /\ cp \in [Exe -> Prio]
  BY DEF Good, StackOK, Rest
<1>3. s[n].exe = me /\ n > 1 /\ Base[me] \in Nat /\ Base[me] <= c[n]
  <2>1. s[n].exe = me /\ n > 1 /\ Base[me] <= c[n]
    BY <1>1, <1>2, ExeAt
  <2> QED
    BY <1>1, <2>1 DEF Numbers
<1>4. p \in Nat /\ c[n] < p /\ MaxTaskPrio \in Nat
  BY <1>1 DEF Prio, Numbers
<1>5. PICK d \in Seq(Prio) : Moved(s, x, c, s, d, s[n], p, n)
  <2>1. Changed(s, s, s[n])
    BY <1>1 DEF Changed, Agree
  <2> QED
    BY <1>1, <1>2, <2>1, MoveShape
<1>6. /\ Shaped(s, x, d) /\ Changed(c, d, p) /\ d[n] = p /\ d[n - 1] = c[n - 1] /\ Len(d) = n
      /\ Changed(s, s, s[n])
  BY <1>3, <1>5 DEF Moved, Shaped
<1>7. \A k \in 1 .. n : (k # n /\ d[k] = c[k]) \/ (k = n /\ d[k] = p)
  BY <1>1, <1>6 DEF Changed, Agree
<1>8. \A k \in 1 .. n : c[k] \in Nat /\ c[k] <= c[n] /\ x[k] \in Exe /\ Base[x[k]] <= Base[x[n]]
  BY <1>1, <1>2, ExeAt
<1>9. StackOK(v, s, x, d)
  <2>1. Rising(v, s, x, c, n)
    BY <1>1, <1>2, TopFacts
  <2>2. ASSUME NEW j \in 1 .. n - 1 PROVE d[j] <= d[n] /\ Base[x[j]] <= Base[x[n]]
    <3>1. j \in 1 .. n /\ d[j] = c[j]
      BY <1>1, <1>7
    <3> QED
      BY <1>1, <1>4, <1>6, <1>8, <3>1
  <2>3. Base[x[n]] <= d[n] /\ (v = "v6" => ~(d[n] > MaxTaskPrio))
    BY <1>1, <1>3, <1>4, <1>6
  <2>4. Rising(v, s, x, d, n)
    BY <2>2, <2>3 DEF Rising
  <2>5. Placed(v, s, x, c, n)
    BY <1>2, <1>3, TopFacts
  <2>6. ExeOK(s, x, d, n)
    BY <1>1, <1>6, <2>5 DEF Placed, ExeOK
  <2>7. FrameOK(v, s, x, d, n)
    BY <1>1, <1>3, <2>4, <2>6 DEF FrameOK, Placed
  <2>8. n \in Nat \ {0} /\ n - 1 <= Len(s) /\ Agree(s, s, n - 1) /\ Agree(x, x, n - 1)
        /\ Agree(c, d, n - 1)
    BY <1>1, <1>3, <1>6 DEF Agree, Changed
  <2> QED
    BY <1>2, <1>6, <2>7, <2>8, StackStep
<1>10. CurrentOK(s, x, d, cq)
  <2>1. PICK f : f = s[n]
    OBVIOUS
  <2>2. Changed(s, s, f) /\ (f.kind = "exe" => s[Len(s)].kind = "exe")
    BY <1>1, <1>6, <2>1
  <2>3. cq = [cp EXCEPT ![x[Len(s)]] = p]
    BY <1>1
  <2>4. StackOK(v, s, x, c) /\ CurrentOK(s, x, c, cp) /\ cp \in [Exe -> Prio] /\ Changed(c, d, p)
    BY <1>2, <1>6
  <2> QED
    BY <2>2, <2>3, <2>4, CurrentChanged
<1>11. /\ r[p] = <<me>> /\ Len(r[p]) = 1 /\ r[p][1] = me
       /\ \A b \in Prio : b # p => r[b] = q[b]
       /\ r \in [Prio -> Seq(Exe)]
  <2>1. q[p] = <<>>
    BY <1>1, <1>4, NoneAbove
  <2>2. q \in [Prio -> Seq(Exe)]
    BY <1>2 DEF QueueOK
  <2>3. r = [q EXCEPT ![p] = <<me>>]
    BY <2>1
  <2>4. <<me>> \in Seq(Exe)
    BY <1>1
  <2>5. r[p] = <<me>>
    BY <2>2, <2>3
  <2>6. Len(<<me>>) = 1 /\ <<me>>[1] = me
    OBVIOUS
  <2>7. Len(r[p]) = 1 /\ r[p][1] = me
    BY <2>5, <2>6
  <2> QED
    BY <2>2, <2>3, <2>4, <2>5, <2>7
<1>12. l \in Seq(Prio) /\ Len(l) = Len(mu) /\ Len(mu) \in Nat
  BY <1>2 DEF MutexOK
<1>13. PICK M \in Nat : M = Len(mu)
  BY <1>12
<1>14. PICK g \in Seq(Prio) : Longer(l, g, p)
  BY <1>12, LongerExists
<1>15. /\ Len(g) = M + 1 /\ g[M + 1] = p /\ Len(mu2) = M + 1
       /\ mu2[M + 1].owner = me /\ mu2[M + 1].save = c[n]
       /\ \A m \in 1 .. M : mu2[m] = mu[m] /\ g[m] = l[m] /\ m \in 1 .. M + 1
       /\ \A m \in 1 .. M + 1 : m = M + 1 \/ m \in 1 .. M
       /\ M + 1 \in 1 .. M + 1
  BY <1>1, <1>12, <1>13, <1>14 DEF Longer, Agree, Taken
<1>16. \A m \in 1 .. M :
         /\ mu[m].owner \in Exe /\ l[m] \in Prio /\ l[m] \in Nat /\ Base[mu[m].owner] \in Nat
         /\ l[m] <= c[n] /\ Base[mu[m].owner] <= Base[me] /\ l[m] < p
  <2>1. ASSUME NEW m \in 1 .. M
        PROVE  /\ mu[m].owner \in Exe /\ l[m] \in Prio /\ l[m] \in Nat /\ Base[mu[m].owner] \in Nat
               /\ l[m] <= c[n] /\ Base[mu[m].owner] <= Base[me]
    BY <1>1, <1>2, <1>13, Owners
  <2>2. ASSUME NEW m \in 1 .. M PROVE l[m] < p
    BY <1>1, <1>4, <2>1
  <2> QED
    BY <2>1, <2>2
<1>17. \A m \in 1 .. M : mu[m].owner = me => \A k \in m .. M : mu[k].owner = me
  <2>1. ASSUME NEW m \in 1 .. M, mu[m].owner = me, NEW k \in m .. M PROVE mu[k].owner = me
    <3>1. /\ m \in 1 .. Len(mu) /\ mu[m].owner = x[n] /\ k \in m .. Len(mu)
          /\ StackOK(v, s, x, c) /\ Rest(v, s, c, q, mu, l) /\ s[n].kind = "exe"
      BY <1>1, <1>2, <1>13, <2>1
    <3>2. mu[k].owner = x[n]
      BY <3>1, OwnersOnTop
    <3> QED
      BY <1>1, <3>2
  <2> QED
    BY <2>1
<1>18. c[n] = IF M + 1 > 1 /\ mu2[M].owner = me THEN g[M] ELSE Base[me]
  <2>1. CASE M + 1 > 1 /\ mu2[M].owner = me
    <3>1. M \in 1 .. Len(mu) /\ mu2[M] = mu[M] /\ g[M] = l[M]
      BY <1>13, <1>15, <2>1
    <3>2. mu[M].owner = s[n].exe /\ Newest(mu, M)
      BY <1>3, <1>13, <2>1, <3>1 DEF Newest
    <3> QED
      BY <1>1, <1>2, <2>1, <3>1, <3>2 DEF CeilingOK
  <2>2. CASE ~(M + 1 > 1 /\ mu2[M].owner = me)
    <3>1. ASSUME NEW m \in 1 .. M, mu[m].owner = me PROVE FALSE
      <4>1. M \in m .. M /\ M \in 1 .. M /\ M + 1 > 1
        OBVIOUS
      <4>2. mu[M].owner = me /\ mu2[M] = mu[M]
        BY <1>15, <1>17, <3>1, <4>1
      <4> QED
        BY <2>2, <4>1, <4>2
    <3> QED
      BY <1>1, <1>2, <1>3, <1>13, <2>2, <3>1 DEF CeilingOK
  <2> QED
    BY <2>1, <2>2
<1>19. MutexOK(v, s, d, mu2, g)
  <2>1. ASSUME NEW m \in 1 .. M + 1 PROVE RunsAt(s, d, mu2[m].owner, g[m])
    <3>1. CASE m = M + 1
      <4>1. n \in 2 .. Len(s) /\ g[m] <= d[n]
        BY <1>1, <1>3, <1>4, <1>6, <1>15, <3>1
      <4> QED
        BY <1>1, <1>3, <1>15, <3>1, <4>1 DEF RunsAt
    <3>2. CASE m \in 1 .. M
      <4>1. RunsAt(s, c, mu[m].owner, l[m])
        BY <1>2, <1>13, <3>2 DEF MutexOK
      <4>2. PICK k \in 2 .. Len(s) : s[k].kind = "exe" /\ s[k].exe = mu[m].owner /\ l[m] <= c[k]
        BY <4>1 DEF RunsAt
      <4>3. c[k] <= d[k] /\ c[k] \in Nat /\ d[k] \in Nat
        <5>1. k \in 1 .. n
          BY <1>1
        <5> QED
          BY <1>4, <1>7, <1>8, <5>1
      <4>4. l[m] <= d[k]
        BY <1>16, <3>2, <4>2, <4>3
      <4> QED
        BY <1>15, <3>2, <4>2, <4>4 DEF RunsAt
    <3> QED
      BY <1>15, <3>1, <3>2
  <2>2. ASSUME NEW m \in 1 .. M + 1
        PROVE  /\ Base[mu2[m].owner] <= mu2[m].save /\ mu2[m].save < g[m]
               /\ v = "v6" => g[m] <= MaxTaskPrio
    <3>1. CASE m = M + 1
      BY <1>3, <1>4, <1>15, <3>1
    <3>2. CASE m \in 1 .. M
      BY <1>2, <1>13, <1>15, <3>2 DEF MutexOK
    <3> QED
      BY <1>15, <3>1, <3>2
  <2>3. ASSUME NEW m \in 1 .. M + 1
        PROVE  mu2[m].save = IF m > 1 /\ mu2[m - 1].owner = mu2[m].owner
                             THEN g[m - 1] ELSE Base[mu2[m].owner]
    <3>1. CASE m = M + 1
      <4>1. m - 1 = M
        BY <3>1
      <4> QED
        BY <1>15, <1>18, <3>1, <4>1
    <3>2. CASE m \in 1 .. M
      <4>1. mu[m].save = IF m > 1 /\ mu[m - 1].owner = mu[m].owner
                         THEN l[m - 1] ELSE Base[mu[m].owner]
        BY <1>2, <1>13, <3>2 DEF MutexOK
      <4>2. m > 1 => m - 1 \in 1 .. M
        BY <3>2
      <4>3. mu2[m] = mu[m] /\ (m > 1 => mu2[m - 1] = mu[m - 1] /\ g[m - 1] = l[m - 1])
        BY <1>15, <3>2, <4>2
      <4> QED
        BY <4>1, <4>3
    <3> QED
      BY <1>15, <3>1, <3>2
  <2>4. ASSUME NEW m \in 1 .. M + 1, NEW k \in 1 .. m - 1
        PROVE  g[k] < g[m] /\ Base[mu2[k].owner] <= Base[mu2[m].owner]
    <3>1. k \in 1 .. M
      OBVIOUS
    <3>2. CASE m = M + 1
      BY <1>15, <1>16, <3>1, <3>2
    <3>3. CASE m \in 1 .. M
      <4>1. l[k] < l[m] /\ Base[mu[k].owner] <= Base[mu[m].owner]
        BY <1>2, <1>13, <3>3 DEF MutexOK
      <4> QED
        BY <1>15, <3>1, <3>3, <4>1
    <3> QED
      BY <1>15, <3>2, <3>3
  <2> QED
    BY <1>15, <2>1, <2>2, <2>3, <2>4 DEF MutexOK
<1>20. CeilingOK(s, d, mu2, g)
  <2>1. ASSUME NEW k \in 1 .. Len(s), s[k].kind = "exe"
        PROVE  /\ (\A m \in 1 .. Len(mu2) : mu2[m].owner # s[k].exe) => d[k] = Base[s[k].exe]
               /\ \A m \in 1 .. Len(mu2) : mu2[m].owner = s[k].exe /\ Newest(mu2, m) => d[k] = g[m]
    <3>1. CASE k = n
      <4>1. ASSUME NEW m \in 1 .. M, mu2[m].owner = me, Newest(mu2, m) PROVE FALSE
        <5>1. mu2[m] = mu[m] /\ m # M + 1 /\ m + 1 \in 1 .. M + 1
          BY <1>15
        <5>2. mu2[m + 1].owner # me
          BY <1>15, <4>1, <5>1 DEF Newest
        <5>3. m + 1 \in m .. M
          BY <1>15, <5>1, <5>2
        <5>4. mu[m + 1].owner = me /\ m + 1 \in 1 .. M
          BY <1>17, <4>1, <5>1, <5>3
        <5> QED
          BY <1>15, <5>2, <5>4
      <4> QED
        BY <1>3, <1>6, <1>15, <3>1, <4>1
    <3>2. CASE k # n
      <4>1. k \in 1 .. n - 1
        BY <1>1, <3>2
      <4>2. s[k].exe # me /\ d[k] = c[k]
        <5>1. s[k].exe # x[n]
          <6>1. n \in 2 .. Len(s) /\ n \in n .. Len(s)
            BY <1>1, <1>3
          <6>2. Base[x[k]] < Base[x[n]]
            BY <1>1, <1>2, <4>1, <6>1, BelowExe
          <6>3. s[k].exe = x[k] /\ Base[x[n]] \in Nat
            BY <1>1, <1>2, <1>3, <2>1, ExeAt
          <6> QED
            BY <6>2, <6>3
        <5>2. d[k] = c[k]
          BY <1>1, <1>7, <3>2
        <5> QED
          BY <1>1, <5>1, <5>2
      <4>3. ASSUME \A m \in 1 .. M + 1 : mu2[m].owner # s[k].exe PROVE c[k] = Base[s[k].exe]
        <5>1. \A m \in 1 .. Len(mu) : mu[m].owner # s[k].exe
          BY <1>13, <1>15, <4>3
        <5> QED
          BY <1>2, <2>1, <5>1 DEF CeilingOK
      <4>4. ASSUME NEW m \in 1 .. M + 1, mu2[m].owner = s[k].exe, Newest(mu2, m) PROVE c[k] = g[m]
        <5>1. m \in 1 .. M /\ mu2[m] = mu[m] /\ g[m] = l[m] /\ m # M + 1
          BY <1>15, <4>2, <4>4
        <5>2. Newest(mu, m)
          <6>1. SUFFICES ASSUME m # M PROVE mu[m + 1].owner # mu[m].owner
            BY <1>13 DEF Newest
          <6>2. m + 1 \in 1 .. M
            BY <5>1, <6>1
          <6> QED
            BY <1>15, <4>4, <5>1, <6>2 DEF Newest
        <5> QED
          BY <1>2, <1>13, <2>1, <4>4, <5>1, <5>2 DEF CeilingOK
      <4> QED
        BY <1>15, <4>2, <4>3, <4>4
    <3> QED
      BY <3>1, <3>2
  <2> QED
    BY <2>1 DEF CeilingOK
<1>21. QueueOK(s, r, mu2, g)
  <2>1. ASSUME NEW b \in Prio
        PROVE  /\ Len(r[b]) <= 2 /\ (Len(r[b]) = 2 => Base[r[b][1]] # b)
               /\ \A i \in 1 .. Len(r[b]) : Base[r[b][i]] # b =>
                    i = 1 /\ \E m \in 1 .. Len(mu2) : g[m] = b /\ mu2[m].owner = r[b][1]
    <3>1. CASE b = p
      <4>1. g[M + 1] = b /\ mu2[M + 1].owner = r[b][1] /\ M + 1 \in 1 .. Len(mu2)
        BY <1>11, <1>15, <3>1
      <4>2. PICK k : k = Len(r[b])
        OBVIOUS
      <4>3. k <= 2 /\ k # 2 /\ \A i \in 1 .. k : i = 1
        BY <1>11, <3>1, <4>2
      <4> QED
        BY <4>1, <4>2, <4>3
    <3>2. CASE b # p
      <4>1. r[b] = q[b]
        BY <1>11, <3>2
      <4>2. /\ Len(q[b]) <= 2 /\ (Len(q[b]) = 2 => Base[q[b][1]] # b)
            /\ \A i \in 1 .. Len(q[b]) : Base[q[b][i]] # b =>
                 i = 1 /\ \E m \in 1 .. Len(mu) : l[m] = b /\ mu[m].owner = q[b][1]
        BY <1>2 DEF QueueOK
      <4>3. \A m \in 1 .. Len(mu) : m \in 1 .. Len(mu2) /\ g[m] = l[m] /\ mu2[m] = mu[m]
        BY <1>13, <1>15
      <4> QED
        BY <4>1, <4>2, <4>3, ZenonT(30)
    <3> QED
      BY <3>1, <3>2
  <2>2. ASSUME NEW m \in 1 .. Len(mu2) PROVE r[g[m]] # <<>> /\ r[g[m]][1] = mu2[m].owner
    <3>1. CASE m = M + 1
      BY <1>11, <1>15, <3>1
    <3>2. CASE m \in 1 .. M
      <4>1. l[m] # p /\ l[m] \in Prio /\ g[m] = l[m] /\ mu2[m] = mu[m]
        BY <1>4, <1>15, <1>16, <3>2
      <4>2. q[l[m]] # <<>> /\ q[l[m]][1] = mu[m].owner
        BY <1>2, <1>13, <3>2 DEF QueueOK
      <4> QED
        BY <1>11, <4>1, <4>2
    <3> QED
      BY <1>15, <3>1, <3>2
  <2>3. ASSUME NEW k \in 1 .. Len(s), s[k].kind = "exe" PROVE InQueue(r, s[k].exe)
    <3>1. s[k].exe = x[k] /\ x[k] \in Exe /\ Base[x[k]] <= Base[me]
      BY <1>1, <1>2, <2>3, ExeAt
    <3>2. Base[s[k].exe] # p /\ Base[s[k].exe] \in Prio
      <4>1. Base[x[k]] \in Nat /\ Base[x[k]] < MaxPrio /\ MaxPrio \in Nat
        BY <3>1 DEF Numbers
      <4> QED
        BY <1>1, <1>3, <1>4, <3>1, <4>1 DEF Prio
    <3>3. InQueue(q, s[k].exe)
      BY <1>2, <2>3 DEF QueueOK
    <3> QED
      BY <1>11, <3>2, <3>3 DEF InQueue
  <2> QED
    BY <1>11, <2>1, <2>2, <2>3 DEF QueueOK
<1>22. ASSUME NEW a \in Exe, Waits(s, r, a) PROVE Waits(s, q, a)
  <2>1. Base[a] \in Prio
    BY <1>22, WaitsInQueue
  <2>2. a # me
    BY <1>1, <1>3, <1>22 DEF Waits, Live
  <2>3. Base[a] # p
    <3>1. ASSUME Base[a] = p PROVE FALSE
      <4>1. PICK j \in 1 .. Len(r[p]) : r[p][j] = a
        BY <1>22, <3>1 DEF Waits, InQueue
      <4>2. j = 1
        BY <1>11, <4>1
      <4> QED
        BY <1>11, <2>2, <4>1, <4>2
    <3> QED
      BY <3>1
  <2> QED
    BY <1>11, <1>22, <2>1, <2>3 DEF Waits, InQueue
<1>23. WaitOK(s, d, r, pend)
  <2>1. ASSUME NEW i \in Isr, Waits(s, r, i) PROVE FALSE
    <3>1. i \in Exe /\ Waits(s, q, i)
      BY <1>22, <2>1 DEF Exe
    <3> QED
      BY <1>1, <1>2, <3>1, NoIsrWaits
  <2>2. ASSUME NEW a \in Task, Waits(s, r, a), Base[a] > d[n] PROVE Serves(s[n], pend, Base[a])
    <3>1. a \in Exe /\ Waits(s, q, a) /\ Base[a] \in Nat
      BY <1>22, <2>2 DEF Exe, Numbers
    <3>2. Base[a] > c[n]
      BY <1>1, <1>4, <1>6, <2>2, <3>1
    <3> QED
      BY <1>1, <1>2, <3>1, <3>2 DEF WaitOK
  <2> QED
    BY <1>1, <2>1, <2>2 DEF WaitOK
<1>24. ContextOK(v, s, x, d, me, Level(p))
  BY <1>1, <1>6 DEF ContextOK
<1>25. cq \in [Exe -> Prio]
  BY <1>2
<1>26. Good(v, s, x, d, cq, me, Level(p), r, mu2, g, pend)
  BY <1>9, <1>10, <1>19, <1>20, <1>21, <1>23, <1>24, <1>25 DEF Good, Rest
<1> QED
  BY <1>14, <1>26

MutexDropped(s, u, M, save, mu, mu2, q, r, cp, cq, me) ==
  /\ M \in Nat /\ M = Len(mu) /\ M > 0 /\ mu[M].owner = me /\ save = mu[M].save
  /\ mu2 \in Seq([owner : Exe, save : Prio]) /\ Shorter(mu, mu2)
  /\ r = [q EXCEPT ![cp[me]] = Tail(@)] /\ cq = [cp EXCEPT ![me] = save]
  /\ RunFrom(s, u, cp[me], save, me)

\* dv_dropmutex(): the owner goes back to where it was, and who waits is run.
LEMMA DropMutexKeeps ==
  ASSUME Numbers, LevelsRise, NEW v, NEW s, NEW x, NEW c,
         NEW cp, NEW me, NEW lo, NEW q, NEW mu, NEW l,
         NEW pend, Good(v, s, x, c, cp, me, lo, q, mu, l, pend), NEW n, n = Len(s),
         CodeRuns(v, s, lo, pend),
         NEW u, NEW M, NEW save, NEW mu2, NEW r, NEW cq,
         MutexDropped(s, u, M, save, mu, mu2, q, r, cp, cq, me)
  PROVE  \E y \in Seq(Exe), d \in Seq(Prio), g \in Seq(Prio) :
           Good(v, u, y, d, cq, me, Level(save), r, mu2, g, pend)
<1>0. M \in Nat /\ M = Len(mu) /\ M > 0 /\ mu[M].owner = me
  BY DEF MutexDropped
<1> USE <1>0
<1>1. /\ s[n].kind = "exe" /\ me = x[n] /\ c[n] \in Nat /\ c[n] \in Prio /\ n \in Nat
      /\ n \in 1 .. Len(s)
      /\ x[n] \in Exe /\ Len(x) = n /\ Len(c) = n /\ cp[me] = c[n] /\ s \in Seq(Frame)
  BY GoodTop DEF CodeRuns
<1>2. /\ StackOK(v, s, x, c) /\ CurrentOK(s, x, c, cp) /\ Rest(v, s, c, q, mu, l)
      /\ WaitOK(s, c, q, pend) /\ Shaped(s, x, c) /\ QueueOK(s, q, mu, l) /\ MutexOK(v, s, c, mu, l)
      /\ CeilingOK(s, c, mu, l) /\ cp \in [Exe -> Prio]
  BY DEF Good, StackOK, Rest
<1>3. s[n].exe = me /\ n > 1 /\ Base[me] \in Nat
  <2>1. M \in 1 .. Len(mu)
    OBVIOUS
  <2>2. n > 1 /\ Base[mu[M].owner] \in Nat
    BY <1>1, <1>2, <2>1, Owners
  <2>3. s[n].exe = me
    BY <1>1, <1>2, ExeAt
  <2> QED
    BY <2>2, <2>3
<1>4. l[M] = c[n]
  <2>1. M \in 1 .. Len(mu) /\ Newest(mu, M) /\ mu[M].owner = s[n].exe
    BY <1>3 DEF Newest
  <2> QED
    BY <1>1, <1>2, <2>1 DEF CeilingOK
<1>5. /\ save \in Prio /\ save \in Nat /\ Base[me] <= save /\ save < c[n]
      /\ (v = "v6" => save <= MaxTaskPrio /\ c[n] <= MaxTaskPrio)
  <2>1. M \in 1 .. Len(mu)
    OBVIOUS
  <2>2. save \in Prio /\ save \in Nat
    BY <1>1, <1>2, <2>1, Owners DEF MutexDropped
  <2>3. Base[me] <= save /\ save < l[M] /\ (v = "v6" => l[M] <= MaxTaskPrio)
    BY <1>2, <2>1 DEF MutexOK, MutexDropped
  <2>4. MaxTaskPrio \in Nat
    BY DEF Numbers
  <2> QED
    BY <1>1, <1>4, <2>2, <2>3, <2>4
<1>6. PICK b \in Prio : b = c[n] /\ b \in Nat
  BY <1>1
<1>7. PICK d \in Seq(Prio) : Moved(s, x, c, s, d, s[n], save, n)
  <2>1. Changed(s, s, s[n])
    BY <1>1 DEF Changed, Agree
  <2> QED
    BY <1>1, <1>2, <1>5, <2>1, MoveShape
<1>8. /\ Shaped(s, x, d) /\ Changed(c, d, save) /\ d[n] = save /\ d[n - 1] = c[n - 1] /\ Len(d) = n
      /\ Changed(s, s, s[n])
  BY <1>3, <1>7 DEF Moved, Shaped
<1>9. \A k \in 1 .. n : (k # n /\ d[k] = c[k]) \/ (k = n /\ d[k] = save)
  BY <1>1, <1>8 DEF Changed, Agree
<1>10. \A k \in 1 .. n - 1 : /\ c[k] \in Nat /\ c[k] < Base[me]
                             /\ x[k] \in Exe /\ Base[x[k]] < Base[me] /\ Base[x[k]] \in Nat
  <2>1. ASSUME NEW k \in 1 .. n - 1
        PROVE  Base[x[k]] < Base[x[n]] /\ c[k] < Base[x[n]]
    <3>1. n \in 2 .. Len(s) /\ n \in n .. Len(s)
      BY <1>1, <1>3
    <3> QED
      BY <1>1, <1>2, <3>1, BelowExe
  <2>2. ASSUME NEW k \in 1 .. n - 1 PROVE x[k] \in Exe /\ c[k] \in Nat /\ Base[x[k]] \in Nat
    <3>1. k \in 1 .. Len(s)
      BY <1>1
    <3>2. x[k] \in Exe /\ c[k] \in Nat
      BY <1>2, <3>1, ExeAt
    <3> QED
      BY <3>2 DEF Numbers
  <2> QED
    BY <1>1, <2>1, <2>2
<1>11. StackOK(v, s, x, d)
  <2>1. ASSUME NEW j \in 1 .. n - 1 PROVE d[j] <= d[n] /\ Base[x[j]] <= Base[x[n]]
    <3>1. j \in 1 .. n /\ d[j] = c[j]
      BY <1>1, <1>9
    <3> QED
      BY <1>1, <1>3, <1>5, <1>8, <1>10, <3>1
  <2>2. Base[x[n]] <= d[n] /\ (v = "v6" => ~(d[n] > MaxTaskPrio))
    <3>1. MaxTaskPrio \in Nat
      BY DEF Numbers
    <3> QED
      BY <1>1, <1>3, <1>5, <1>8, <3>1
  <2>3. Rising(v, s, x, d, n)
    BY <2>1, <2>2 DEF Rising
  <2>4. Placed(v, s, x, c, n)
    BY <1>2, <1>3, TopFacts
  <2>5. ExeOK(s, x, d, n)
    BY <1>1, <1>8, <2>4 DEF Placed, ExeOK
  <2>6. FrameOK(v, s, x, d, n)
    BY <1>1, <1>3, <2>3, <2>5 DEF FrameOK, Placed
  <2>7. n \in Nat \ {0} /\ n - 1 <= Len(s) /\ Agree(s, s, n - 1) /\ Agree(x, x, n - 1)
        /\ Agree(c, d, n - 1)
    BY <1>1, <1>3, <1>8 DEF Agree, Changed
  <2> QED
    BY <1>2, <1>8, <2>6, <2>7, StackStep
<1>12. CurrentOK(s, x, d, cq)
  <2>1. PICK f : f = s[n]
    OBVIOUS
  <2>2. Changed(s, s, f) /\ (f.kind = "exe" => s[Len(s)].kind = "exe")
    BY <1>1, <1>8, <2>1
  <2>3. PICK p \in Prio : p = save
    BY <1>5
  <2>4. /\ StackOK(v, s, x, c) /\ CurrentOK(s, x, c, cp) /\ cp \in [Exe -> Prio]
        /\ Changed(c, d, p) /\ cq = [cp EXCEPT ![x[Len(s)]] = p]
    BY <1>1, <1>2, <1>8, <2>3 DEF MutexDropped
  <2> QED
    BY <2>2, <2>4, CurrentChanged
<1>13. \A m \in 1 .. M :
         /\ mu[m].owner \in Exe /\ l[m] \in Prio /\ l[m] \in Nat
         /\ (m # M => l[m] < b)
  <2>1. ASSUME NEW m \in 1 .. M PROVE mu[m].owner \in Exe /\ l[m] \in Prio /\ l[m] \in Nat
    BY <1>1, <1>2, Owners
  <2>2. ASSUME NEW m \in 1 .. M, m # M PROVE l[m] < b
    <3>1. m \in 1 .. M - 1 /\ M \in 1 .. Len(mu)
      BY <2>2
    <3>2. l[m] < l[M]
      BY <1>2, <3>1 DEF MutexOK
    <3> QED
      BY <1>4, <1>6, <3>2
  <2> QED
    BY <2>1, <2>2
<1>14. ASSUME NEW m \in 1 .. M, mu[m].owner = me, NEW k \in m .. M PROVE mu[k].owner = me
  <2>1. /\ m \in 1 .. Len(mu) /\ mu[m].owner = x[n] /\ k \in m .. Len(mu)
        /\ StackOK(v, s, x, c) /\ Rest(v, s, c, q, mu, l) /\ s[n].kind = "exe"
    BY <1>1, <1>2, <1>14
  <2>2. mu[k].owner = x[n]
    BY <2>1, OwnersOnTop
  <2> QED
    BY <1>1, <2>2
<1>15. /\ q[b] \in Seq(Exe) /\ q[b] # <<>> /\ Len(q[b]) <= 2
       /\ \A j \in 1 .. Len(q[b]) : j # 1 => Base[q[b][j]] = b
  <2>1. q[b] \in Seq(Exe) /\ Len(q[b]) <= 2 /\ \A j \in 1 .. Len(q[b]) : Base[q[b][j]] # b => j = 1
    BY <1>2 DEF QueueOK
  <2>2. M \in 1 .. Len(mu)
    OBVIOUS
  <2>3. q[b] # <<>>
    BY <1>2, <1>4, <1>6, <2>2 DEF QueueOK
  <2> QED
    BY <2>1, <2>3
<1>16. PICK z \in Seq(Exe) : /\ z = Tail(q[b]) /\ Len(z) <= 1 /\ Len(z) \in Nat
                             /\ \A i \in 1 .. Len(z) : Base[z[i]] = b
                             /\ \A i \in 1 .. Len(z) : \E j \in 1 .. Len(q[b]) : q[b][j] = z[i]
  <2>1. PICK w \in Seq(Exe) : w = q[b]
    BY <1>15
  <2>2. w # <<>> /\ Len(w) <= 2 /\ Len(w) \in Nat
    BY <1>15, <2>1
  <2>3. PICK z : z = Tail(w)
    OBVIOUS
  <2>4. Tail(w) \in Seq(Exe) /\ Len(Tail(w)) = Len(w) - 1
        /\ \A i \in 1 .. Len(Tail(w)) : Tail(w)[i] = w[i + 1]
    BY <2>2, HeadTailProperties
  <2>5. z \in Seq(Exe) /\ Len(z) = Len(w) - 1 /\ \A i \in 1 .. Len(z) : z[i] = w[i + 1]
    BY <2>3, <2>4
  <2>6. Len(z) \in Nat /\ Len(z) <= 1
    BY <2>2, <2>5
  <2>7. ASSUME NEW i \in 1 .. Len(z)
        PROVE  Base[z[i]] = b /\ \E j \in 1 .. Len(q[b]) : q[b][j] = z[i]
    <3>1. z[i] = w[i + 1] /\ i + 1 \in 1 .. Len(w) /\ i + 1 # 1
      BY <2>2, <2>5, <2>6
    <3> QED
      BY <1>15, <2>1, <3>1
  <2> QED
    BY <2>1, <2>3, <2>5, <2>6, <2>7
<1>17. /\ r[b] = z /\ \A p \in Prio : p # b => r[p] = q[p]
       /\ r \in [Prio -> Seq(Exe)]
  <2>1. q \in [Prio -> Seq(Exe)]
    BY <1>2 DEF QueueOK
  <2>2. r = [q EXCEPT ![b] = z]
    BY <1>1, <1>6, <1>16 DEF MutexDropped
  <2> QED
    BY <2>1, <2>2
<1>18. l \in Seq(Prio) /\ Len(l) = M
  BY <1>2 DEF MutexOK
<1>19. PICK g \in Seq(Prio) : Shorter(l, g)
  <2>1. Len(l) >= 1
    BY <1>18
  <2> QED
    BY <1>18, <2>1, ShorterExists
<1>20. PICK N \in Nat : N = M - 1
  <2>1. M - 1 \in Nat
    OBVIOUS
  <2> QED
    BY <2>1
<1>21. /\ Len(g) = N /\ Len(mu2) = N
       /\ \A m \in 1 .. N : mu2[m] = mu[m] /\ g[m] = l[m] /\ m \in 1 .. M /\ m # M
       /\ \A m \in 1 .. M : m = M \/ m \in 1 .. N
  <2>1. Shorter(mu, mu2)
    BY DEF MutexDropped
  <2> QED
    BY <1>18, <1>19, <1>20, <2>1 DEF Shorter, Agree
<1>22. N > 0 /\ mu[N].owner = me => save = l[N]
  <2>1. SUFFICES ASSUME N > 0, mu[N].owner = me PROVE save = l[N]
    OBVIOUS
  <2>2. M \in 1 .. Len(mu) /\ M > 1 /\ N = M - 1
    BY <1>20, <2>1
  <2>3. mu[M].save = IF M > 1 /\ mu[M - 1].owner = mu[M].owner THEN l[M - 1] ELSE Base[mu[M].owner]
    BY <1>2, <2>2 DEF MutexOK
  <2> QED
    BY <2>1, <2>2, <2>3 DEF MutexDropped
<1>23. ~(N > 0 /\ mu[N].owner = me) => save = Base[me]
  <2>1. SUFFICES ASSUME ~(N > 0 /\ mu[N].owner = me) PROVE save = Base[me]
    OBVIOUS
  <2>2. M \in 1 .. Len(mu) /\ N = M - 1
    BY <1>20
  <2>3. mu[M].save = IF M > 1 /\ mu[M - 1].owner = mu[M].owner THEN l[M - 1] ELSE Base[mu[M].owner]
    BY <1>2, <2>2 DEF MutexOK
  <2> QED
    BY <1>20, <2>1, <2>2, <2>3 DEF MutexDropped
<1>24. ASSUME NEW m \in 1 .. N, mu[m].owner = me PROVE mu[N].owner = me /\ N > 0
  <2>1. m \in 1 .. M /\ N \in m .. M /\ N > 0
    BY <1>20
  <2> QED
    BY <1>14, <1>24, <2>1
<1>25. MutexOK(v, s, d, mu2, g)
  <2>1. ASSUME NEW m \in 1 .. N PROVE RunsAt(s, d, mu2[m].owner, g[m])
    <3>1. RunsAt(s, c, mu[m].owner, l[m]) /\ mu2[m] = mu[m] /\ g[m] = l[m] /\ m \in 1 .. M
      BY <1>2, <1>21 DEF MutexOK
    <3>2. PICK k \in 2 .. Len(s) : s[k].kind = "exe" /\ s[k].exe = mu[m].owner /\ l[m] <= c[k]
      BY <3>1 DEF RunsAt
    <3>3. CASE k # n
      <4>1. d[k] = c[k]
        BY <1>1, <1>9, <3>3
      <4> QED
        BY <3>1, <3>2, <4>1 DEF RunsAt
    <3>4. CASE k = n
      <4>1. save = l[N]
        BY <1>3, <1>22, <1>24, <3>2, <3>4
      <4>2. l[m] <= l[N]
        <5>1. CASE m = N
          BY <1>13, <3>1, <5>1
        <5>2. CASE m # N
          <6>1. m \in 1 .. N - 1 /\ N \in 1 .. Len(mu)
            BY <1>20, <5>2
          <6>2. l[m] < l[N]
            BY <1>2, <6>1 DEF MutexOK
          <6>3. l[m] \in Nat /\ l[N] \in Nat
            BY <1>13, <3>1, <6>1
          <6> QED
            BY <6>2, <6>3
        <5> QED
          BY <5>1, <5>2
      <4>3. l[m] <= d[k]
        BY <1>8, <3>4, <4>1, <4>2
      <4> QED
        BY <3>1, <3>2, <4>3 DEF RunsAt
    <3> QED
      BY <3>3, <3>4
  <2>2. ASSUME NEW m \in 1 .. N
        PROVE  /\ Base[mu2[m].owner] <= mu2[m].save /\ mu2[m].save < g[m]
               /\ v = "v6" => g[m] <= MaxTaskPrio
    BY <1>2, <1>21 DEF MutexOK
  <2>3. ASSUME NEW m \in 1 .. N
        PROVE  mu2[m].save = IF m > 1 /\ mu2[m - 1].owner = mu2[m].owner
                             THEN g[m - 1] ELSE Base[mu2[m].owner]
    <3>1. mu[m].save = IF m > 1 /\ mu[m - 1].owner = mu[m].owner
                       THEN l[m - 1] ELSE Base[mu[m].owner]
      <4>1. m \in 1 .. Len(mu)
        BY <1>21
      <4> QED
        BY <1>2, <4>1 DEF MutexOK
    <3>2. m > 1 => m - 1 \in 1 .. N
      OBVIOUS
    <3>3. mu2[m] = mu[m] /\ (m > 1 => mu2[m - 1] = mu[m - 1] /\ g[m - 1] = l[m - 1])
      BY <1>21, <3>2
    <3> QED
      BY <3>1, <3>3
  <2>4. ASSUME NEW m \in 1 .. N, NEW k \in 1 .. m - 1
        PROVE  g[k] < g[m] /\ Base[mu2[k].owner] <= Base[mu2[m].owner]
    <3>1. k \in 1 .. N /\ m \in 1 .. Len(mu)
      BY <1>21
    <3>2. l[k] < l[m] /\ Base[mu[k].owner] <= Base[mu[m].owner]
      BY <1>2, <3>1 DEF MutexOK
    <3> QED
      BY <1>21, <3>1, <3>2
  <2>5. mu2 \in Seq([owner : Exe, save : Prio]) /\ g \in Seq(Prio)
    BY DEF MutexDropped
  <2> QED
    BY <1>21, <2>1, <2>2, <2>3, <2>4, <2>5 DEF MutexOK
<1>26. CeilingOK(s, d, mu2, g)
  <2>1. ASSUME NEW k \in 1 .. Len(s), s[k].kind = "exe"
        PROVE  /\ (\A m \in 1 .. Len(mu2) : mu2[m].owner # s[k].exe) => d[k] = Base[s[k].exe]
               /\ \A m \in 1 .. Len(mu2) : mu2[m].owner = s[k].exe /\ Newest(mu2, m) => d[k] = g[m]
    <3>1. CASE k = n
      <4>1. ASSUME \A m \in 1 .. N : mu2[m].owner # me PROVE save = Base[me]
        <5>1. ~(N > 0 /\ mu[N].owner = me)
          <6>1. ASSUME N > 0 PROVE mu[N].owner # me
            <7>1. N \in 1 .. N
              BY <6>1
            <7> QED
              BY <1>21, <4>1, <7>1
          <6> QED
            BY <6>1
        <5> QED
          BY <1>23, <5>1
      <4>2. ASSUME NEW m \in 1 .. N, mu2[m].owner = me, Newest(mu2, m) PROVE save = g[m]
        <5>1. mu[m].owner = me
          BY <1>21, <4>2
        <5>2. save = l[N]
          BY <1>22, <1>24, <5>1
        <5>3. m = N
          <6>1. ASSUME m # N PROVE FALSE
            <7>1. m + 1 \in 1 .. N /\ m + 1 \in m .. M /\ m \in 1 .. M
              BY <1>20, <6>1
            <7>2. mu[m + 1].owner = me
              BY <1>14, <5>1, <7>1
            <7> QED
              BY <1>21, <4>2, <6>1, <7>1, <7>2 DEF Newest
          <6> QED
            BY <6>1
        <5> QED
          BY <1>21, <5>2, <5>3
      <4> QED
        BY <1>3, <1>8, <1>21, <3>1, <4>1, <4>2
    <3>2. CASE k # n
      <4>1. k \in 1 .. n - 1
        BY <1>1, <3>2
      <4>2. s[k].exe # me
        <5>1. s[k].exe = x[k]
          BY <1>2, <2>1, ExeAt
        <5> QED
          BY <1>3, <1>10, <4>1, <5>1
      <4>3. d[k] = c[k]
        BY <1>1, <1>9, <3>2
      <4>4. ASSUME \A m \in 1 .. N : mu2[m].owner # s[k].exe PROVE c[k] = Base[s[k].exe]
        <5>1. \A m \in 1 .. Len(mu) : mu[m].owner # s[k].exe
          BY <1>21, <4>2, <4>4
        <5> QED
          BY <1>2, <2>1, <5>1 DEF CeilingOK
      <4>5. ASSUME NEW m \in 1 .. N, mu2[m].owner = s[k].exe, Newest(mu2, m) PROVE c[k] = g[m]
        <5>1. m \in 1 .. M /\ mu2[m] = mu[m] /\ g[m] = l[m] /\ m # M
          BY <1>21
        <5>2. mu[m + 1].owner # mu[m].owner
          <6>1. CASE m = N
            BY <1>20, <4>2, <4>5, <5>1, <6>1
          <6>2. CASE m # N
            <7>1. m + 1 \in 1 .. N
              BY <6>2
            <7> QED
              BY <1>21, <4>5, <6>2, <7>1 DEF Newest
          <6> QED
            BY <6>1, <6>2
        <5>3. Newest(mu, m)
          BY <5>2 DEF Newest
        <5> QED
          BY <1>2, <2>1, <4>5, <5>1, <5>3 DEF CeilingOK
      <4> QED
        BY <1>21, <4>3, <4>4, <4>5
    <3> QED
      BY <3>1, <3>2
  <2> QED
    BY <2>1 DEF CeilingOK
<1>27. QueueOK(s, r, mu2, g)
  <2>1. ASSUME NEW p \in Prio
        PROVE  /\ Len(r[p]) <= 2 /\ (Len(r[p]) = 2 => Base[r[p][1]] # p)
               /\ \A i \in 1 .. Len(r[p]) : Base[r[p][i]] # p =>
                    i = 1 /\ \E m \in 1 .. Len(mu2) : g[m] = p /\ mu2[m].owner = r[p][1]
    <3>1. CASE p = b
      <4>1. PICK k : k = Len(r[p])
        OBVIOUS
      <4>2. k <= 2 /\ k # 2
        <5>1. r[p] = z
          BY <1>17, <3>1
        <5>2. k = Len(z)
          BY <4>1, <5>1
        <5>3. k \in Nat /\ k <= 1
          BY <1>16, <5>2
        <5> QED
          BY <5>3
      <4>3. \A i \in 1 .. k : Base[r[p][i]] = p
        BY <1>16, <1>17, <3>1, <4>1
      <4> QED
        BY <4>1, <4>2, <4>3
    <3>2. CASE p # b
      <4>1. r[p] = q[p]
        BY <1>17, <3>2
      <4>2. /\ Len(q[p]) <= 2 /\ (Len(q[p]) = 2 => Base[q[p][1]] # p)
            /\ \A i \in 1 .. Len(q[p]) : Base[q[p][i]] # p =>
                 i = 1 /\ \E m \in 1 .. Len(mu) : l[m] = p /\ mu[m].owner = q[p][1]
        BY <1>2 DEF QueueOK
      <4>3. \A m \in 1 .. Len(mu) : l[m] = p =>
              m \in 1 .. Len(mu2) /\ g[m] = l[m] /\ mu2[m] = mu[m]
        BY <1>4, <1>6, <1>21, <3>2
      <4> QED
        BY <4>1, <4>2, <4>3
    <3> QED
      BY <3>1, <3>2
  <2>2. ASSUME NEW m \in 1 .. Len(mu2) PROVE r[g[m]] # <<>> /\ r[g[m]][1] = mu2[m].owner
    <3>1. /\ l[m] # b /\ l[m] \in Prio /\ g[m] = l[m] /\ mu2[m] = mu[m] /\ m \in 1 .. Len(mu)
      BY <1>6, <1>13, <1>21
    <3>2. q[l[m]] # <<>> /\ q[l[m]][1] = mu[m].owner
      BY <1>2, <3>1 DEF QueueOK
    <3> QED
      BY <1>17, <3>1, <3>2
  <2>3. ASSUME NEW k \in 1 .. Len(s), s[k].kind = "exe" PROVE InQueue(r, s[k].exe)
    <3>1. s[k].exe = x[k] /\ x[k] \in Exe /\ Base[x[k]] <= Base[me]
      BY <1>1, <1>2, <2>3, ExeAt
    <3>2. Base[s[k].exe] # b /\ Base[s[k].exe] \in Prio
      <4>1. Base[x[k]] \in Nat /\ Base[x[k]] < MaxPrio /\ MaxPrio \in Nat
        BY <3>1 DEF Numbers
      <4> QED
        BY <1>1, <1>3, <1>5, <1>6, <3>1, <4>1 DEF Prio
    <3>3. InQueue(q, s[k].exe)
      BY <1>2, <2>3 DEF QueueOK
    <3> QED
      BY <1>17, <3>2, <3>3 DEF InQueue
  <2> QED
    BY <1>17, <2>1, <2>2, <2>3 DEF QueueOK
<1>28. ASSUME NEW a \in Exe, Waits(s, r, a)
       PROVE  Waits(s, q, a) /\ Base[a] \in Prio /\ Base[a] <= b
  <2>1. Base[a] \in Prio
    BY <1>28, WaitsInQueue
  <2>2. InQueue(q, a)
    <3>1. CASE Base[a] = b
      <4>1. PICK i \in 1 .. Len(z) : z[i] = a
        BY <1>17, <1>28, <3>1 DEF Waits, InQueue
      <4>2. PICK j \in 1 .. Len(q[b]) : q[b][j] = a
        BY <1>16, <4>1
      <4> QED
        BY <3>1, <4>2 DEF InQueue
    <3>2. CASE Base[a] # b
      BY <1>17, <1>28, <2>1, <3>2 DEF Waits, InQueue
    <3> QED
      BY <3>1, <3>2
  <2>3. Waits(s, q, a)
    BY <1>28, <2>2 DEF Waits
  <2>4. ~(Base[a] > c[n])
    <3>1. q[Base[a]] # <<>>
      BY <2>3, WaitsInQueue
    <3> QED
      BY <2>1, <3>1, NoneAbove
  <2> QED
    BY <1>6, <2>1, <2>3, <2>4 DEF Prio
<1>29. u \in Seq(Frame) /\ Longer(s, u, RunEntry(b, d[n], x[n]))
  <2>1. cp[me] = b /\ save = d[n] /\ me = x[n] /\ b > save
    BY <1>1, <1>5, <1>6, <1>8
  <2>2. RunFrom(s, u, cp[me], save, me)
    BY DEF MutexDropped
  <2> QED
    BY <2>1, <2>2 DEF RunFrom
<1>30. PICK y \in Seq(Exe), h \in Seq(Prio) :
         /\ Pushed(s, x, d, u, y, h, RunEntry(b, d[n], x[n]), n) /\ SameExes(s, d, u, h)
         /\ StackOK(v, u, y, h) /\ CurrentOK(u, y, h, cq) /\ Rest(v, u, h, r, mu2, g)
         /\ ContextOK(v, u, y, h, x[n], Level(save))
  <2>1. Calls(s[n]) /\ b > d[n] /\ (s[n].kind # "preempt" => Level(save) = Level(d[n]))
    BY <1>1, <1>5, <1>6, <1>8 DEF Calls
  <2>2. Rest(v, s, d, r, mu2, g)
    BY <1>25, <1>26, <1>27 DEF Rest
  <2> QED
    BY <1>11, <1>12, <1>29, <2>1, <2>2, PushRun
<1>31. Len(u) = n + 1 /\ u[n + 1].kind = "run" /\ u[n + 1].p = b
  BY <1>30 DEF Pushed, RunEntry
<1>32. WaitOK(u, h, r, pend)
  <2>1. ASSUME NEW i \in Isr, Waits(u, r, i) PROVE FALSE
    <3>1. i \in Exe /\ Waits(s, r, i)
      BY <1>30, <2>1, SameWaits DEF Exe
    <3>2. Waits(s, q, i)
      BY <1>28, <3>1
    <3> QED
      BY <1>1, <1>2, <3>2, NoIsrWaits
  <2>2. ASSUME NEW a \in Task, Waits(u, r, a) PROVE Base[a] <= b
    <3>1. a \in Exe /\ Waits(s, r, a)
      BY <1>30, <2>2, SameWaits DEF Exe
    <3> QED
      BY <1>28, <3>1
  <2> QED
    BY <1>31, <2>1, <2>2 DEF WaitOK, Serves
<1>33. cq \in [Exe -> Prio]
  BY <1>2, <1>5 DEF MutexDropped
<1>34. Good(v, u, y, h, cq, me, Level(save), r, mu2, g, pend)
  BY <1>1, <1>30, <1>32, <1>33 DEF Good
<1> QED
  BY <1>19, <1>34

-----------------------------------------------------------------------------
(* The definitions of the model in terms of frames                         *)

LEMMA Reading ==
  ASSUME NEW x, NEW c, NEW l, Holds(x, c, l)
  PROVE  /\ Top = stack[Len(stack)] /\ stack \in Seq(Frame) /\ Len(stack) >= 1
         /\ Handlers = {} <=> \A k \in 1 .. Len(stack) : ~IsHandler(stack[k])
         /\ Code <=> CodeRuns(machine, stack, locklevel, pendsv)
<1>1. stack \in Seq(Frame) /\ Len(stack) >= 1
  BY DEF Holds, Good, StackOK, Shaped
<1>2. Top = stack[Len(stack)]
  BY DEF Top, Last
<1>3. DOMAIN stack = 1 .. Len(stack)
  BY <1>1
<1>4. Handlers = {} <=> \A k \in 1 .. Len(stack) : ~IsHandler(stack[k])
  BY <1>3 DEF Handlers, IsHandler
<1>5. Code <=> CodeRuns(machine, stack, locklevel, pendsv)
  BY <1>2, <1>4 DEF Code, CodeRuns, Unmasked
<1> QED
  BY <1>1, <1>2, <1>4, <1>5

\* What the steps of the proofs need of a good state
LEMMA GoodState ==
  ASSUME Numbers, NEW x, NEW c, NEW l, Holds(x, c, l), NEW n, n = Len(stack)
  PROVE  /\ n \in Nat /\ n >= 1 /\ stack[n] \in Frame /\ stack \in Seq(Frame)
         /\ x \in Seq(Exe) /\ c \in Seq(Prio) /\ l \in Seq(Prio)
         /\ x[n] \in Exe /\ c[n] \in Prio /\ c[n] \in Nat
         /\ currentexe \in Exe /\ currprio \in [Exe -> Prio] /\ currprio[currentexe] \in Prio
         /\ queue \in [Prio -> Seq(Exe)] /\ mutex \in Seq([owner : Exe, save : Prio])
         /\ pendsv \in BOOLEAN
         /\ stack[n].kind # "run" => currentexe = x[n] /\ currprio[currentexe] = c[n]
<1>1. Good(machine, stack, x, c, currprio, currentexe, locklevel, queue, mutex, l, pendsv)
  BY DEF Holds
<1>2. /\ n \in Nat /\ n >= 1 /\ stack[n] \in Frame /\ stack \in Seq(Frame)
      /\ x \in Seq(Exe) /\ c \in Seq(Prio)
      /\ x[n] \in Exe /\ c[n] \in Prio /\ c[n] \in Nat /\ currprio[x[n]] = c[n]
      /\ stack[n].kind # "run" => currentexe = x[n]
  BY <1>1, GoodTop
<1>3. currentexe \in Exe /\ currprio \in [Exe -> Prio] /\ pendsv \in BOOLEAN
  BY <1>1 DEF Good
<1>4. /\ queue \in [Prio -> Seq(Exe)] /\ mutex \in Seq([owner : Exe, save : Prio])
      /\ l \in Seq(Prio)
  BY <1>1 DEF Good, Rest, MutexOK, QueueOK
<1> QED
  BY <1>2, <1>3, <1>4

\* An executable that is activated is in no queue.
LEMMA IdlingIs ==
  ASSUME NEW q \in [Prio -> Seq(Exe)], NEW e, \A p \in Prio : ~Contains(q[p], e)
  PROVE  NotQueued(q, e)
<1>1. ASSUME NEW p \in Prio, NEW j \in 1 .. Len(q[p]) PROVE q[p][j] # e
  BY <1>1 DEF Contains
<1> QED
  BY <1>1 DEF NotQueued

\* dv_runqueued_onkernelstack() calls dv_runqueued(), or does nothing.
LEMMA RunEntryIs ==
  ASSUME NEW s \in Seq(Frame), NEW high \in Prio, NEW low \in Prio, NEW e \in Exe,
         NEW u, u = IF high > low THEN Append(s, RunEntry(high, low, e)) ELSE s
  PROVE  RunFrom(s, u, high, low, e)
<1>1. RunEntry(high, low, e) \in Frame
  BY DEF RunEntry, RunFrame, Frame
<1>2. PICK t \in Seq(Frame) : /\ t = Append(s, RunEntry(high, low, e))
                              /\ Longer(s, t, RunEntry(high, low, e))
  BY <1>1, LongerExists
<1> QED
  BY <1>2 DEF RunFrom

-----------------------------------------------------------------------------
(* The beginning                                                           *)

LEMMA OneElement ==
  ASSUME NEW A, NEW a \in A
  PROVE  \E w \in Seq(A) : w = <<a>> /\ Len(w) = 1 /\ w[1] = a
<1>1. PICK w : w = <<a>>
  OBVIOUS
<1>2. <<a>> \in Seq(A) /\ Len(<<a>>) = 1 /\ <<a>>[1] = a
  OBVIOUS
<1>3. w \in Seq(A) /\ Len(w) = 1 /\ w[1] = a
  BY <1>1, <1>2
<1> QED
  BY <1>1, <1>3

LEMMA NoElement ==
  ASSUME NEW A
  PROVE  \E w \in Seq(A) : w = <<>> /\ Len(w) = 0
<1>1. PICK w : w = <<>>
  OBVIOUS
<1>2. <<>> \in Seq(A) /\ Len(<<>>) = 0
  BY EmptySeq
<1>3. w \in Seq(A) /\ Len(w) = 0
  BY <1>1, <1>2
<1> QED
  BY <1>1, <1>3

\* The idle loop alone, on an empty stack
LEMMA InitHolds ==
  ASSUME Numbers, LevelsRise, CortexInit
  PROVE  Inv
<1>1. /\ Idle \in Exe /\ 0 \in Prio /\ Base[Idle] = 0 /\ ~(0 > MaxTaskPrio)
      /\ Base \in [Exe -> Prio]
      /\ Level(0) = 0
  <2>1. Idle \in Exe /\ 0 \in Prio /\ Base[Idle] = 0 /\ ~(0 > MaxTaskPrio) /\ 0 <= MaxTaskPrio
    BY DEF Exe, Prio, Numbers
  <2>2. ASSUME NEW e \in Exe PROVE Base[e] \in Prio
    BY DEF Numbers, Prio
  <2>3. Base \in [Exe -> Nat]
    BY CortexMAssumption
  <2>4. Level(0) = 0
    BY <2>1 DEF LevelsRise
  <2> QED
    BY <2>1, <2>2, <2>3, <2>4
<1>2. /\ machine \in {"v6", "v7"} /\ currprio = Base /\ currentexe = Idle /\ mutex = <<>>
      /\ locklevel = 0
      /\ stack = <<Main(Idle)>> /\ request = {} /\ pendsv = FALSE /\ panic = FALSE
      /\ queue = [p \in Prio |-> IF p = 0 THEN <<Idle>> ELSE <<>>]
  BY DEF CortexInit, Numbers
<1>3. PICK x \in Seq(Exe) : x = <<Idle>> /\ Len(x) = 1 /\ x[1] = Idle
  BY <1>1, OneElement
<1>4. PICK c \in Seq(Prio) : c = <<0>> /\ Len(c) = 1 /\ c[1] = 0
  BY <1>1, OneElement
<1>5. Main(Idle) \in Frame /\ Main(Idle).kind = "exe" /\ Main(Idle).exe = Idle
  BY <1>1 DEF Main, Frame, ExeFrame
<1>6. PICK s \in Seq(Frame) : s = stack /\ Len(s) = 1 /\ s[1] = Main(Idle)
  BY <1>2, <1>5, OneElement
<1>7. PICK l \in Seq(Prio) : l = <<>> /\ Len(l) = 0
  BY NoElement
<1>8. \A k \in 1 .. Len(s) : k = 1
  BY <1>6
<1>9. StackOK(machine, s, x, c)
  <2>1. Shaped(s, x, c)
    BY <1>3, <1>4, <1>6 DEF Shaped
  <2>2. Rising(machine, s, x, c, 1)
    BY <1>1, <1>3, <1>4 DEF Rising
  <2>3. BottomOK(s, x, c)
    BY <1>3, <1>4, <1>6 DEF BottomOK
  <2>4. FrameOK(machine, s, x, c, 1)
    BY <2>2, <2>3 DEF FrameOK
  <2> QED
    BY <1>8, <2>1, <2>4 DEF StackOK
<1>10. CurrentOK(s, x, c, Base)
  BY <1>1, <1>3, <1>4, <1>8 DEF CurrentOK
<1>11. ContextOK(machine, s, x, c, Idle, 0)
  BY <1>1, <1>3, <1>4, <1>5, <1>6 DEF ContextOK
<1>12. PICK mu \in Seq([owner : Exe, save : Prio]) : mu = mutex /\ Len(mu) = 0
  BY <1>2, NoElement
<1>13. \A m \in 1 .. Len(mu) : FALSE
  BY <1>12
<1>14. PICK q \in [Prio -> Seq(Exe)] : q = queue
  <2>1. <<Idle>> \in Seq(Exe) /\ <<>> \in Seq(Exe)
    BY <1>1, OneElement, NoElement
  <2>2. PICK q : q = [p \in Prio |-> IF p = 0 THEN <<Idle>> ELSE <<>>]
    OBVIOUS
  <2>3. q \in [Prio -> Seq(Exe)]
    BY <2>1, <2>2
  <2> QED
    BY <1>2, <2>2, <2>3
<1>15. /\ q[0] = <<Idle>> /\ Len(q[0]) = 1 /\ q[0][1] = Idle
       /\ \A p \in Prio : p # 0 => q[p] = <<>>
  <2>1. q[0] = <<Idle>> /\ \A p \in Prio : p # 0 => q[p] = <<>>
    BY <1>1, <1>2, <1>14
  <2>2. Len(<<Idle>>) = 1 /\ <<Idle>>[1] = Idle
    OBVIOUS
  <2> QED
    BY <2>1, <2>2
<1>16. MutexOK(machine, s, c, mu, l)
  BY <1>7, <1>12, <1>13 DEF MutexOK
<1>17. CeilingOK(s, c, mu, l)
  BY <1>1, <1>4, <1>5, <1>6, <1>8, <1>13 DEF CeilingOK
<1>18. InQueue(q, Idle)
  <2>1. Base[Idle] = 0 /\ 1 \in 1 .. Len(q[0]) /\ q[0][1] = Idle
    BY <1>1, <1>15
  <2> QED
    BY <2>1 DEF InQueue
<1>19. QueueOK(s, q, mu, l)
  <2>1. ASSUME NEW p \in Prio
        PROVE  Len(q[p]) <= 1 /\ \A j \in 1 .. Len(q[p]) : Base[q[p][j]] = p
    <3>1. CASE p = 0
      <4>1. Len(q[p]) = 1 /\ q[p][1] = Idle
        BY <1>15, <3>1
      <4> QED
        BY <1>1, <3>1, <4>1
    <3>2. CASE p # 0
      <4>1. q[p] = <<>>
        BY <1>15, <3>2
      <4>2. PICK k : k = Len(q[p])
        OBVIOUS
      <4>3. Len(q[p]) = 0
        BY <4>1
      <4>4. k <= 1 /\ \A j \in 1 .. k : FALSE
        BY <4>2, <4>3
      <4> QED
        BY <4>2, <4>4
    <3> QED
      BY <3>1, <3>2
  <2>2. ASSUME NEW p \in Prio
        PROVE  /\ Len(q[p]) <= 2 /\ (Len(q[p]) = 2 => Base[q[p][1]] # p)
               /\ \A j \in 1 .. Len(q[p]) : Base[q[p][j]] # p =>
                    j = 1 /\ \E m \in 1 .. Len(mu) : l[m] = p /\ mu[m].owner = q[p][1]
    <3>1. PICK k \in Nat : k = Len(q[p])
      OBVIOUS
    <3>2. k <= 2 /\ k # 2
      BY <2>1, <3>1, SMTT(20)
    <3> QED
      BY <2>1, <3>1, <3>2
  <2> QED
    BY <1>5, <1>6, <1>8, <1>13, <1>18, <2>2 DEF QueueOK
<1>20. ASSUME NEW a \in Exe, Waits(s, q, a) PROVE a = Idle
  <2>1. q[Base[a]] # <<>> /\ Base[a] \in Prio
    BY <1>20, WaitsInQueue
  <2> QED
    BY <1>1, <1>15, <2>1 DEF Numbers
<1>21. WaitOK(s, c, q, FALSE)
  <2>1. ASSUME NEW a \in Exe, Waits(s, q, a) PROVE FALSE
    <3>1. a = Idle /\ 1 \in 1 .. Len(s)
      BY <1>6, <1>20, <2>1
    <3> QED
      BY <1>5, <1>6, <2>1, <3>1 DEF Waits, Live
  <2> QED
    BY <2>1 DEF WaitOK, Exe
<1>22. Good(machine, s, x, c, Base, Idle, 0, q, mu, l, FALSE)
  BY <1>1, <1>2, <1>9, <1>10, <1>11, <1>16, <1>17, <1>19, <1>21 DEF Good, Rest
<1>23. Holds(x, c, l)
  BY <1>2, <1>6, <1>12, <1>14, <1>22 DEF Holds
<1> QED
  BY <1>23 DEF Inv

-----------------------------------------------------------------------------
(* dv_irq()                                                                *)

\* The frame of dv_irq() that is on top, and what it has saved
LEMMA IrqTop ==
  ASSUME Numbers, NEW x, NEW c, NEW l, Holds(x, c, l), NEW n, n = Len(stack),
         stack[n].kind = "irq"
  PROVE  /\ n > 1 /\ stack[n] \in IrqFrame /\ currentexe = x[n] /\ currprio[currentexe] = c[n]
         /\ c[n - 1] \in Prio /\ c[n - 1] \in Nat
         /\ c[n] = IF stack[n].pc \in {"vector", "restore"} THEN Raised(c[n - 1]) ELSE c[n - 1]
         /\ stack[n].pc # "save" => stack[n].me = x[n] /\ stack[n].myp = c[n - 1]
         /\ [currprio EXCEPT ![x[n]] = c[n]] = currprio
<1>1. Good(machine, stack, x, c, currprio, currentexe, locklevel, queue, mutex, l, pendsv)
  BY DEF Holds
<1>2. /\ n > 1 /\ stack[n] \in Frame /\ currentexe = x[n] /\ currprio[currentexe] = c[n]
      /\ c[n - 1] \in Prio /\ c[n - 1] \in Nat
      /\ [currprio EXCEPT ![x[n]] = c[n]] = currprio /\ Placed(machine, stack, x, c, n)
  BY <1>1, GoodTop
<1>3. stack[n] \in IrqFrame
  BY <1>2 DEF Frame, ExeFrame, RunFrame, PendSVFrame, PreemptFrame
<1>4. IrqOK(machine, stack, x, c, n)
  BY <1>2 DEF Placed
<1>5. c[n] = IF stack[n].pc \in {"vector", "restore"} THEN Raised(c[n - 1]) ELSE c[n - 1]
  BY <1>4 DEF IrqOK
<1>6. stack[n].pc # "save" => stack[n].me = x[n] /\ stack[n].myp = c[n - 1]
  BY <1>4 DEF IrqOK
<1> QED
  BY <1>2, <1>3, <1>5, <1>6

\* dv_irq() goes on to its next step.
LEMMA IrqMoveStep ==
  ASSUME Numbers, LevelsRise, NEW x, NEW c, NEW l, Holds(x, c, l), NEW n, n = Len(stack),
         stack[n].kind = "irq", NEW f \in IrqFrame, NEW p, IrqNext(stack[n], f, x[n], c[n - 1], p),
         NEW t, t = [stack EXCEPT ![n] = f], NEW cq, Sets(currprio, x[n], p, cq)
  PROVE  \E d \in Seq(Prio) :
           Good(machine, t, x, d, cq, currentexe, locklevel, queue, mutex, l, pendsv)
<1>1. Good(machine, stack, x, c, currprio, currentexe, locklevel, queue, mutex, l, pendsv)
  BY DEF Holds
<1>2. n \in Nat /\ n >= 1 /\ stack \in Seq(Frame)
  BY GoodState
<1>3. f \in Frame /\ f.kind = "irq"
  BY DEF Frame, IrqFrame
<1>4. t \in Seq(Frame) /\ Changed(stack, t, f)
  <2>1. PICK u \in Seq(Frame) : u = [stack EXCEPT ![Len(stack)] = f] /\ Changed(stack, u, f)
    BY <1>2, <1>3, ChangedExists
  <2>2. t = u
    BY <2>1
  <2> QED
    BY <2>1, <2>2
<1>5. PICK d \in Seq(Prio) :
        /\ Moved(stack, x, c, t, d, f, p, n)
        /\ Good(machine, t, x, d, cq, currentexe, locklevel, queue, mutex, l, pendsv)
  BY <1>1, <1>3, <1>4, IrqMoveKeeps
<1> QED
  BY <1>5

LEMMA IrqSaveStep ==
  ASSUME Numbers, LevelsRise, NEW x, NEW c, NEW l, Holds(x, c, l), IrqSave
  PROVE  Inv'
<1>1. PICK n : n = Len(stack)
  OBVIOUS
<1>2. stack[n].kind = "irq" /\ stack[n].pc = "save" /\ currprio[currentexe] \in Prio
  BY <1>1, Reading, GoodState DEF IrqSave
<1>3. /\ stack[n] \in IrqFrame /\ currentexe = x[n] /\ currprio[currentexe] = c[n]
      /\ c[n] = c[n - 1] /\ [currprio EXCEPT ![x[n]] = c[n]] = currprio
  BY <1>1, <1>2, IrqTop
<1>4. PICK f : f = [stack[n] EXCEPT !.me = currentexe, !.myp = currprio[currentexe], !.pc = "raise"]
  OBVIOUS
<1>5. /\ f \in IrqFrame /\ f.isr = stack[n].isr /\ f.me = x[n] /\ f.myp = c[n - 1] /\ f.pc = "raise"
  <2>1. currentexe \in Exe
    BY GoodState
  <2> QED
    BY <1>2, <1>3, <1>4, <2>1 DEF IrqFrame
<1>6. PICK t : t = stack'
  OBVIOUS
<1>7. t = [stack EXCEPT ![n] = f]
  BY <1>1, <1>4, <1>6 DEF IrqSave, Me
<1>8. PICK d \in Seq(Prio) :
        Good(machine, t, x, d, currprio, currentexe, locklevel, queue, mutex, l, pendsv)
  <2>1. PICK p : p = c[n]
    OBVIOUS
  <2>2. Sets(currprio, x[n], p, currprio)
    BY <1>3, <2>1 DEF Sets
  <2>3. f.kind = "irq"
    BY <1>5 DEF IrqFrame
  <2>4. IrqNext(stack[n], f, x[n], c[n - 1], p)
    BY <1>3, <1>5, <2>1, <2>3 DEF IrqNext
  <2> QED
    BY <1>1, <1>2, <1>5, <1>7, <2>2, <2>4, IrqMoveStep
<1>9. Holds(x, d, l)'
  BY <1>6, <1>8 DEF IrqSave, Holds, schedVars
<1> QED
  BY <1>8, <1>9, GoodState DEF Inv

LEMMA IrqRaiseStep ==
  ASSUME Numbers, LevelsRise, NEW x, NEW c, NEW l, Holds(x, c, l), IrqRaise
  PROVE  Inv'
<1>1. PICK n : n = Len(stack)
  OBVIOUS
<1>2. stack[n].kind = "irq" /\ stack[n].pc = "raise"
  BY <1>1, Reading DEF IrqRaise
<1>3. /\ stack[n] \in IrqFrame /\ currentexe = x[n] /\ currprio[currentexe] = c[n]
      /\ c[n] = c[n - 1] /\ stack[n].me = x[n] /\ stack[n].myp = c[n - 1]
  BY <1>1, <1>2, IrqTop
<1>4. PICK f : f = [stack[n] EXCEPT !.pc = "vector"]
  OBVIOUS
<1>5. /\ f \in IrqFrame /\ f.isr = stack[n].isr /\ f.me = x[n] /\ f.myp = c[n - 1]
      /\ f.pc = "vector" /\ f.kind = "irq"
  BY <1>2, <1>3, <1>4 DEF IrqFrame
<1>6. PICK t, cq : t = stack' /\ cq = currprio'
  OBVIOUS
<1>7. t = [stack EXCEPT ![n] = f]
  BY <1>1, <1>4, <1>6 DEF IrqRaise, Goto
<1>8. PICK p : p = Raised(c[n - 1])
  OBVIOUS
<1>9. Sets(currprio, x[n], p, cq) /\ IrqNext(stack[n], f, x[n], c[n - 1], p)
  <2>1. Sets(currprio, x[n], p, cq)
    BY <1>3, <1>6, <1>8 DEF Sets, IrqRaise, Me
  <2> QED
    BY <1>5, <1>8, <2>1 DEF IrqNext
<1>10. PICK d \in Seq(Prio) :
         Good(machine, t, x, d, cq, currentexe, locklevel, queue, mutex, l, pendsv)
  BY <1>1, <1>2, <1>5, <1>7, <1>9, IrqMoveStep
<1>11. Holds(x, d, l)'
  BY <1>6, <1>10 DEF IrqRaise, Holds
<1> QED
  BY <1>10, <1>11, GoodState DEF Inv

LEMMA IrqRestoreStep ==
  ASSUME Numbers, LevelsRise, NEW x, NEW c, NEW l, Holds(x, c, l), IrqRestore
  PROVE  Inv'
<1>1. PICK n : n = Len(stack)
  OBVIOUS
<1>2. stack[n].kind = "irq" /\ stack[n].pc = "restore" /\ Top = stack[n]
  BY <1>1, Reading DEF IrqRestore
<1>3. /\ stack[n] \in IrqFrame /\ currentexe = x[n] /\ c[n - 1] \in Nat
      /\ stack[n].me = x[n] /\ stack[n].myp = c[n - 1]
  BY <1>1, <1>2, IrqTop
<1>4. PICK f : f = [stack[n] EXCEPT !.pc = "scan"]
  OBVIOUS
<1>5. /\ f \in IrqFrame /\ f.isr = stack[n].isr /\ f.me = x[n] /\ f.myp = c[n - 1]
      /\ f.pc = "scan" /\ f.kind = "irq"
  BY <1>2, <1>3, <1>4 DEF IrqFrame
<1>6. PICK t, cq : t = stack' /\ cq = currprio'
  OBVIOUS
<1>7. Me = Top.me
  BY <1>2, <1>3 DEF Me
<1>8. /\ stack' = [stack EXCEPT ![Len(stack)].pc = "scan"]
      /\ currprio' = [currprio EXCEPT ![x[n]] = c[n - 1]] /\ UNCHANGED panic
      /\ UNCHANGED <<machine, queue, currentexe, mutex, locklevel, request, pendsv>>
  BY <1>2, <1>3, <1>7 DEF IrqRestore, Goto, Me
<1>9. t = [stack EXCEPT ![n] = f]
  BY <1>1, <1>4, <1>6, <1>8
<1>10. PICK p : p = c[n - 1]
  OBVIOUS
<1>11. Sets(currprio, x[n], p, cq) /\ IrqNext(stack[n], f, x[n], c[n - 1], p)
  BY <1>5, <1>6, <1>8, <1>10 DEF Sets, IrqNext
<1>12. PICK d \in Seq(Prio) :
         Good(machine, t, x, d, cq, currentexe, locklevel, queue, mutex, l, pendsv)
  BY <1>1, <1>2, <1>5, <1>9, <1>11, IrqMoveStep
<1>13. Holds(x, d, l)'
  BY <1>6, <1>8, <1>12 DEF Holds
<1> QED
  BY <1>12, <1>13, GoodState DEF Inv

LEMMA IrqScanStep ==
  ASSUME Numbers, LevelsRise, NEW x, NEW c, NEW l, Holds(x, c, l), IrqScan
  PROVE  Inv'
<1>1. PICK n : n = Len(stack)
  OBVIOUS
<1>2. /\ stack[n].kind = "irq" /\ stack[n].pc = "scan" /\ Top = stack[n]
      /\ stack \in Seq(Frame) /\ Len(stack) >= 1 /\ pendsv \in BOOLEAN
  BY <1>1, Reading, GoodState DEF IrqScan
<1>3. PICK t \in Seq(Frame) : t = Front(stack) /\ Shorter(stack, t)
  BY <1>2, ShorterExists
<1>4. PICK pend2 \in BOOLEAN : pend2 = (pendsv \/ Awoken # {})
  OBVIOUS
<1>5. t = stack' /\ pend2 = pendsv'
  BY <1>3, <1>4 DEF IrqScan, Below
<1>6. \A p \in stack[n].myp + 1 .. MaxTaskPrio : queue[p] # <<>> => pend2
  BY <1>2, <1>4 DEF Awoken
<1>7. Good(machine, stack, x, c, currprio, currentexe, locklevel, queue, mutex, l, pendsv)
  BY DEF Holds
<1>8. PICK y \in Seq(Exe), d \in Seq(Prio) :
        Good(machine, t, y, d, currprio, currentexe, locklevel, queue, mutex, l, pend2)
  BY <1>1, <1>2, <1>3, <1>6, <1>7, IrqScanKeeps
<1>9. Holds(y, d, l)'
  BY <1>5, <1>8 DEF IrqScan, Holds, schedVars
<1> QED
  BY <1>8, <1>9, GoodState DEF Inv

LEMMA IrqVectorStep ==
  ASSUME Numbers, LevelsRise, NEW x, NEW c, NEW l, Holds(x, c, l), IrqVector
  PROVE  Inv'
<1>1. PICK n : n = Len(stack)
  OBVIOUS
<1>2. /\ stack[n].kind = "irq" /\ stack[n].pc = "vector" /\ Top = stack[n]
      /\ stack \in Seq(Frame) /\ Len(stack) >= 1
  BY <1>1, Reading DEF IrqVector
<1>3. /\ stack[n] \in IrqFrame /\ currentexe = x[n] /\ currprio[currentexe] = c[n]
      /\ c[n] = Raised(c[n - 1]) /\ stack[n].me = x[n] /\ stack[n].myp = c[n - 1]
      /\ [currprio EXCEPT ![x[n]] = c[n]] = currprio
  BY <1>1, <1>2, IrqTop
<1>4. PICK e \in Isr : e = stack[n].isr
  BY <1>3 DEF IrqFrame
<1>5. PICK f : f = [stack[n] EXCEPT !.pc = "restore"]
  OBVIOUS
<1>6. /\ f \in IrqFrame /\ f.isr = e /\ f.me = stack[n].me /\ f.myp = stack[n].myp
      /\ f.pc = "restore" /\ f.kind = "irq"
  BY <1>2, <1>3, <1>4, <1>5 DEF IrqFrame
<1>7. PICK t \in Seq(Frame) : t = [stack EXCEPT ![Len(stack)] = f] /\ Changed(stack, t, f)
  <2>1. f \in Frame
    BY <1>6 DEF Frame
  <2> QED
    BY <1>2, <2>1, ChangedExists
<1>8. t = [stack EXCEPT ![Len(stack)].pc = "restore"]
  BY <1>1, <1>5, <1>7
<1>9. Good(machine, stack, x, c, currprio, currentexe, locklevel, queue, mutex, l, pendsv)
  BY DEF Holds
<1>10. UNCHANGED <<machine, currprio, currentexe, mutex, locklevel, request, pendsv, panic>>
  BY DEF IrqVector
<1>11. CASE Idling(e)
  <2>1. PICK u, r : u = stack' /\ r = queue'
    OBVIOUS
  <2>2. /\ r = [queue EXCEPT ![Base[e]] = Append(@, e)]
        /\ RunQueued(t, Base[e], currprio[currentexe])
    BY <1>2, <1>4, <1>8, <1>11, <2>1 DEF IrqVector, Me
  <2>3. Queued(queue, e, r)
    BY <2>2 DEF Queued
  <2>4. NotQueued(queue, e)
    <3>1. queue \in [Prio -> Seq(Exe)]
      BY GoodState
    <3> QED
      BY <1>11, <3>1, IdlingIs DEF Idling
  <2>5. RunFrom(t, u, Base[e], currprio[currentexe], currentexe)
    <3>0. e \in Exe
      BY DEF Exe
    <3>1. Base[e] \in Prio /\ currprio[currentexe] \in Prio /\ currentexe \in Exe
      <4>1. Base[e] \in Prio
        BY <3>0 DEF Numbers, Prio
      <4> QED
        BY <4>1, GoodState
    <3>2. PICK low : low = currprio[currentexe]
      OBVIOUS
    <3>3. u = IF Base[e] > low THEN Append(t, RunEntry(Base[e], low, currentexe)) ELSE t
      BY <2>1, <2>2, <3>2 DEF RunQueued, Run, RunEntry
    <3> QED
      BY <3>1, <3>2, <3>3, RunEntryIs
  <2>6. PICK y \in Seq(Exe), d \in Seq(Prio) :
          Good(machine, u, y, d, currprio, currentexe, locklevel, r, mutex, l, pendsv)
    <3>1. Vectored(stack[n], f, e)
      BY <1>2, <1>4, <1>6 DEF Vectored
    <3>2. Changed(stack, t, f)
      BY <1>7
    <3>3. VectorRuns(stack, t, u, f, e, queue, r, currprio, currentexe)
      BY <1>1, <1>4, <1>7, <2>3, <2>4, <2>5, <3>1, <3>2 DEF VectorRuns
    <3> QED
      BY <1>1, <1>9, <3>3, IrqVectorKeeps
  <2>7. Holds(y, d, l)'
    BY <1>10, <2>1, <2>6 DEF Holds
  <2> QED
    BY <2>6, <2>7, GoodState DEF Inv
<1>12. CASE ~Idling(e)
  <2>1. stack' = t /\ UNCHANGED queue
    BY <1>2, <1>4, <1>8, <1>12 DEF IrqVector
  <2>2. PICK p : p = c[n]
    OBVIOUS
  <2>3. Sets(currprio, x[n], p, currprio) /\ IrqNext(stack[n], f, x[n], c[n - 1], p)
    BY <1>3, <1>4, <1>6, <2>2 DEF Sets, IrqNext
  <2>4. t = [stack EXCEPT ![n] = f]
    BY <1>1, <1>7
  <2>5. PICK d \in Seq(Prio) :
          Good(machine, t, x, d, currprio, currentexe, locklevel, queue, mutex, l, pendsv)
    BY <1>1, <1>2, <1>6, <2>3, <2>4, IrqMoveStep
  <2>6. Holds(x, d, l)'
    BY <1>10, <2>1, <2>5 DEF Holds
  <2> QED
    BY <2>5, <2>6, GoodState DEF Inv
<1> QED
  BY <1>11, <1>12

LEMMA ActivateTaskStep ==
  ASSUME Numbers, LevelsRise, NEW x, NEW c, NEW l, Holds(x, c, l), NEW e \in Task, ActivateTask(e)
  PROVE  Inv'
<1>1. PICK n : n = Len(stack)
  OBVIOUS
<1>2. /\ stack \in Seq(Frame) /\ currprio[currentexe] \in Prio /\ currentexe \in Exe
      /\ queue \in [Prio -> Seq(Exe)]
  BY GoodState
<1>3. PICK u, r : u = stack' /\ r = queue'
  OBVIOUS
<1>4. Queued(queue, e, r)
  BY <1>3 DEF Queued, ActivateTask
<1>5. NotQueued(queue, e)
  BY <1>2, IdlingIs DEF ActivateTask, Idling
<1>6. RunFrom(stack, u, Base[e], currprio[currentexe], currentexe)
  <2>1. Base[e] \in Prio
    BY DEF Numbers, Prio, Exe
  <2>2. PICK low : low = currprio[currentexe]
    OBVIOUS
  <2>3. u = IF Base[e] > low THEN Append(stack, RunEntry(Base[e], low, currentexe)) ELSE stack
    BY <1>3, <2>2 DEF ActivateTask, RunQueued, Run, RunEntry, Me
  <2> QED
    BY <1>2, <2>1, <2>2, <2>3, RunEntryIs
<1>7. ActivationRuns(stack, u, e, queue, r, currprio, currentexe)
  BY <1>4, <1>5, <1>6 DEF ActivationRuns
<1>8. CodeRuns(machine, stack, locklevel, pendsv)
  BY Reading DEF ActivateTask
<1>9. Good(machine, stack, x, c, currprio, currentexe, locklevel, queue, mutex, l, pendsv)
  BY DEF Holds
<1>10. PICK y \in Seq(Exe), d \in Seq(Prio) :
         Good(machine, u, y, d, currprio, currentexe, locklevel, r, mutex, l, pendsv)
  BY <1>1, <1>7, <1>8, <1>9, ActivateTaskKeeps
<1>11. Holds(y, d, l)'
  BY <1>3, <1>10 DEF ActivateTask, Holds
<1> QED
  BY <1>10, <1>11, GoodState DEF Inv

LEMMA TakeMutexStep ==
  ASSUME Numbers, LevelsRise, NEW x, NEW c, NEW l, Holds(x, c, l), NEW p \in Prio, TakeMutex(p)
  PROVE  Inv'
<1>1. PICK n : n = Len(stack)
  OBVIOUS
<1>2. /\ currprio[currentexe] \in Prio /\ currentexe \in Exe
      /\ mutex \in Seq([owner : Exe, save : Prio])
  BY GoodState
<1>3. PICK mu2, r, cq : mu2 = mutex' /\ r = queue' /\ cq = currprio'
  OBVIOUS
<1>4. mu2 \in Seq([owner : Exe, save : Prio])
      /\ Taken(mutex, mu2, currentexe, currprio[currentexe])
  <2>1. PICK a \in [owner : Exe, save : Prio] :
          a = [owner |-> currentexe, save |-> currprio[currentexe]]
    BY <1>2
  <2>2. a.owner = currentexe /\ a.save = currprio[currentexe]
    BY <2>1
  <2>3. PICK m \in Seq([owner : Exe, save : Prio]) : m = Append(mutex, a) /\ Longer(mutex, m, a)
    BY <1>2, LongerExists
  <2>4. m = mu2
    BY <1>3, <2>1, <2>3 DEF TakeMutex, Me
  <2> QED
    BY <2>2, <2>3, <2>4 DEF Taken, Longer
<1>5. /\ r = [queue EXCEPT ![p] = Append(@, currentexe)]
      /\ cq = [currprio EXCEPT ![currentexe] = p]
      /\ p > currprio[currentexe] /\ (machine = "v6" => p <= MaxTaskPrio) /\ currentexe # Idle
  BY <1>3 DEF TakeMutex, Me
<1>6. MutexTaken(machine, p, mutex, mu2, queue, r, currprio, cq, currentexe)
  BY <1>4, <1>5 DEF MutexTaken
<1>7. CodeRuns(machine, stack, locklevel, pendsv)
  BY Reading DEF TakeMutex
<1>8. Good(machine, stack, x, c, currprio, currentexe, locklevel, queue, mutex, l, pendsv)
  BY DEF Holds
<1>9. PICK d \in Seq(Prio), g \in Seq(Prio) :
        Good(machine, stack, x, d, cq, currentexe, Level(p), r, mu2, g, pendsv)
  BY <1>1, <1>5, <1>6, <1>7, <1>8, TakeMutexKeeps
<1>10. Holds(x, d, g)'
  BY <1>3, <1>9 DEF TakeMutex, Holds
<1> QED
  BY <1>9, <1>10, GoodState DEF Inv

LEMMA DropMutexStep ==
  ASSUME Numbers, LevelsRise, NEW x, NEW c, NEW l, Holds(x, c, l), DropMutex
  PROVE  Inv'
<1>1. PICK n : n = Len(stack)
  OBVIOUS
<1>2. /\ stack \in Seq(Frame) /\ currprio[currentexe] \in Prio /\ currentexe \in Exe
      /\ mutex \in Seq([owner : Exe, save : Prio])
  BY GoodState
<1>3. PICK M \in Nat : M = Len(mutex) /\ M > 0
  BY <1>2 DEF DropMutex
<1>4. PICK save : save = mutex[M].save
  OBVIOUS
<1>5. Last(mutex) = mutex[M] /\ save \in Prio
  <2>1. PICK R : R = [owner : Exe, save : Prio]
    OBVIOUS
  <2>2. mutex[M].save \in Prio
    <3>1. mutex \in Seq(R) /\ M \in 1 .. Len(mutex)
      BY <1>2, <1>3, <2>1
    <3>2. mutex[M] \in R
      BY <3>1
    <3> QED
      BY <2>1, <3>2
  <2>3. Last(mutex) = mutex[M]
    BY <1>3 DEF Last
  <2> QED
    BY <1>4, <2>2, <2>3
<1>6. PICK u, mu2, r, cq : u = stack' /\ mu2 = mutex' /\ r = queue' /\ cq = currprio'
  OBVIOUS
<1>7. mu2 \in Seq([owner : Exe, save : Prio]) /\ Shorter(mutex, mu2)
  <2>1. PICK m \in Seq([owner : Exe, save : Prio]) : m = Front(mutex) /\ Shorter(mutex, m)
    BY <1>2, <1>3, ShorterExists
  <2> QED
    BY <1>6, <2>1 DEF DropMutex
<1>8. /\ mutex[M].owner = currentexe
      /\ r = [queue EXCEPT ![currprio[currentexe]] = Tail(@)]
      /\ cq = [currprio EXCEPT ![currentexe] = save]
      /\ locklevel' = Level(save)
  BY <1>4, <1>5, <1>6 DEF DropMutex, Me
<1>9. RunFrom(stack, u, currprio[currentexe], save, currentexe)
  <2>1. PICK high \in Prio : high = currprio[currentexe]
    BY <1>2
  <2>2. u = IF high > save THEN Append(stack, RunEntry(high, save, currentexe)) ELSE stack
    BY <1>4, <1>5, <1>6, <2>1 DEF DropMutex, RunQueued, Run, RunEntry, Me
  <2> QED
    BY <1>2, <1>5, <2>1, <2>2, RunEntryIs
<1>10. MutexDropped(stack, u, M, save, mutex, mu2, queue, r, currprio, cq, currentexe)
  BY <1>3, <1>4, <1>7, <1>8, <1>9 DEF MutexDropped
<1>11. CodeRuns(machine, stack, locklevel, pendsv)
  BY Reading DEF DropMutex
<1>12. Good(machine, stack, x, c, currprio, currentexe, locklevel, queue, mutex, l, pendsv)
  BY DEF Holds
<1>13. PICK y \in Seq(Exe), d \in Seq(Prio), g \in Seq(Prio) :
         Good(machine, u, y, d, cq, currentexe, Level(save), r, mu2, g, pendsv)
  BY <1>1, <1>10, <1>11, <1>12, DropMutexKeeps
<1>14. UNCHANGED <<machine, currentexe, request, pendsv, panic>>
  BY DEF DropMutex
<1>15. Holds(y, d, g)'
  BY <1>6, <1>8, <1>13, <1>14 DEF Holds
<1> QED
  BY <1>13, <1>15 DEF Inv

LEMMA TerminateStep ==
  ASSUME Numbers, LevelsRise, NEW x, NEW c, NEW l, Holds(x, c, l), Terminate
  PROVE  Inv'
<1>1. PICK n : n = Len(stack)
  OBVIOUS
<1>2. /\ stack \in Seq(Frame) /\ Len(stack) >= 1
      /\ mutex \in Seq([owner : Exe, save : Prio])
  BY Reading, GoodState
<1>3. PICK t \in Seq(Frame) : t = Front(stack) /\ Shorter(stack, t)
  BY <1>2, ShorterExists
<1>4. PICK r : r = queue'
  OBVIOUS
<1>5. Unqueued(queue, currentexe, r)
  BY <1>4 DEF Unqueued, Terminate, Me
<1>6. t = stack'
  BY <1>3 DEF Terminate, Below
<1>7. currentexe # Idle /\ \A m \in 1 .. Len(mutex) : mutex[m].owner # currentexe
  <2>1. DOMAIN mutex = 1 .. Len(mutex)
    BY <1>2
  <2> QED
    BY <2>1 DEF Terminate, Me
<1>8. CodeRuns(machine, stack, locklevel, pendsv)
  BY Reading DEF Terminate
<1>9. Good(machine, stack, x, c, currprio, currentexe, locklevel, queue, mutex, l, pendsv)
  BY DEF Holds
<1>10. PICK y \in Seq(Exe), d \in Seq(Prio) :
         Good(machine, t, y, d, currprio, currentexe, locklevel, r, mutex, l, pendsv)
  BY <1>1, <1>3, <1>5, <1>7, <1>8, <1>9, TerminateKeeps
<1>11. Holds(y, d, l)'
  <2>1. request' \subseteq Isr
    BY DEF Holds, Terminate
  <2> QED
    BY <1>4, <1>6, <1>10, <2>1 DEF Terminate, Holds
<1> QED
  BY <1>10, <1>11, GoodState DEF Inv

-----------------------------------------------------------------------------
(* The steps of dv_runqueued()                                             *)

\* The frame of dv_runqueued() that is on top
LEMMA RunTop ==
  ASSUME Numbers, NEW x, NEW c, NEW l, Holds(x, c, l), NEW n, n = Len(stack),
         stack[n].kind = "run"
  PROVE  stack[n] \in RunFrame
<1>1. stack[n] \in Frame
  BY GoodState
<1> QED
  BY <1>1 DEF Frame, ExeFrame, IrqFrame, PendSVFrame, PreemptFrame

LEMMA DispatchStep ==
  ASSUME Numbers, LevelsRise, NEW x, NEW c, NEW l, Holds(x, c, l), Dispatch
  PROVE  Inv'
<1>1. PICK n : n = Len(stack)
  OBVIOUS
<1>2. /\ stack[n].kind = "run" /\ Top = stack[n] /\ Waiting # {}
      /\ stack \in Seq(Frame) /\ Len(stack) >= 1 /\ n \in Nat /\ queue \in [Prio -> Seq(Exe)]
  BY <1>1, Reading, GoodState DEF Dispatch
<1>3. PICK g \in RunFrame : g = stack[n]
  BY <1>1, <1>2, RunTop
<1>4. g.low \in Nat /\ g.p \in Nat /\ g.p \in Prio /\ MaxPrio \in Nat
  BY DEF RunFrame, Prio, Numbers
<1>5. PICK W : W = Waiting
  OBVIOUS
<1>6. W = {p \in g.low + 1 .. g.p : queue[p] # <<>>} /\ W # {}
  BY <1>2, <1>3, <1>5 DEF Waiting
<1>7. PICK p : p = Max(W)
  OBVIOUS
<1>8. p \in W /\ \A r \in W : r <= p
  <2>1. W \subseteq g.low + 1 .. g.p /\ W \subseteq Nat
    BY <1>4, <1>6
  <2>2. IsFiniteSet(g.low + 1 .. g.p)
    <3>1. PICK a, b : a = g.low + 1 /\ b = g.p
      OBVIOUS
    <3>2. a \in Int /\ b \in Int
      BY <1>4, <3>1
    <3>3. IsFiniteSet(a .. b)
      BY <3>2, FS_Interval
    <3> QED
      BY <3>1, <3>3
  <2>3. IsFiniteSet(W)
    BY <2>1, <2>2, FS_Subset
  <2>4. PICK f : f = [a \in W |-> a]
    OBVIOUS
  <2>5. f \in [W -> Nat] /\ {f[a] : a \in W} \subseteq W
        /\ W \subseteq {0} \union {f[a] : a \in W}
    BY <2>1, <2>4
  <2>6. W # {} /\ W \subseteq Nat
    BY <1>6, <2>1
  <2>7. Max(W) \in W /\ \A r \in W : r <= Max(W)
    BY <2>3, <2>5, <2>6, LargestOf
  <2> QED
    BY <1>7, <2>7
<1>9. p \in g.low + 1 .. g.p /\ p \in Prio /\ queue[p] # <<>>
  BY <1>4, <1>6, <1>8 DEF Prio
<1>10. PICK w \in Seq(Exe) : w = queue[p] /\ w # <<>>
  BY <1>2, <1>9
<1>11. PICK e \in Exe : e = queue[p][1] /\ e = Head(queue[p])
  <2>1. Len(w) >= 1
    BY <1>10
  <2>2. w[1] \in Exe /\ Head(w) = w[1]
    BY <1>10, <2>1
  <2> QED
    BY <1>10, <2>2
<1>12. PICK f : f = [g EXCEPT !.p = p]
  OBVIOUS
<1>13. f \in Frame /\ f.kind = "run" /\ f.p = p /\ f.low = g.low /\ f.exe = g.exe
  BY <1>9, <1>12 DEF Frame, RunFrame
<1>14. PICK t \in Seq(Frame) : t = [stack EXCEPT ![Len(stack)] = f] /\ Changed(stack, t, f)
  BY <1>2, <1>13, ChangedExists
<1>15. Main(e) \in Frame
  BY DEF Main, ExeFrame, Frame
<1>16. PICK u \in Seq(Frame) : u = Append(t, Main(e)) /\ Longer(t, u, Main(e))
  BY <1>15, LongerExists
<1>17. PICK cq, lo2 : cq = currprio' /\ lo2 = locklevel'
  OBVIOUS
<1>18. /\ currentexe' = e /\ cq = [currprio EXCEPT ![e] = Base[e]] /\ lo2 = Level(Base[e])
       /\ stack' = Append([stack EXCEPT ![Len(stack)].p = p], Main(e))
  BY <1>5, <1>7, <1>11, <1>17 DEF Dispatch
<1>19. stack' = u
  <2>1. t = [stack EXCEPT ![Len(stack)].p = p]
    BY <1>1, <1>3, <1>12, <1>14
  <2> QED
    BY <1>16, <1>18, <2>1
<1>20. Chosen(stack[n], f, p, e, queue)
  BY <1>2, <1>3, <1>6, <1>8, <1>9, <1>11, <1>13 DEF Chosen
<1>21. Dispatches(stack, n, t, u, f, p, e, queue, currprio, cq, lo2)
  <2>1. Changed(stack, t, f) /\ Longer(t, u, Main(e))
    BY <1>14, <1>16
  <2> QED
    BY <1>18, <1>20, <2>1 DEF Dispatches, Sets
<1>22. Good(machine, stack, x, c, currprio, currentexe, locklevel, queue, mutex, l, pendsv)
  BY DEF Holds
<1>23. PICK y \in Seq(Exe), d \in Seq(Prio) :
         Good(machine, u, y, d, cq, e, lo2, queue, mutex, l, pendsv)
  BY <1>1, <1>21, <1>22, DispatchKeeps
<1>24. UNCHANGED <<machine, queue, mutex, request, pendsv, panic>>
  BY DEF Dispatch
<1>25. Holds(y, d, l)'
  BY <1>17, <1>18, <1>19, <1>23, <1>24 DEF Holds
<1> QED
  BY <1>23, <1>25, GoodState DEF Inv

LEMMA ReturnStep ==
  ASSUME Numbers, LevelsRise, NEW x, NEW c, NEW l, Holds(x, c, l), Return
  PROVE  Inv'
<1>1. PICK n : n = Len(stack)
  OBVIOUS
<1>2. /\ stack[n].kind = "run" /\ Top = stack[n] /\ Waiting = {}
      /\ stack \in Seq(Frame) /\ Len(stack) >= 1
  BY <1>1, Reading DEF Return
<1>3. PICK t \in Seq(Frame) : t = Front(stack) /\ Shorter(stack, t)
  BY <1>2, ShorterExists
<1>4. PICK me2, lo2 : me2 = currentexe' /\ lo2 = locklevel'
  OBVIOUS
<1>5. me2 = stack[n].exe /\ lo2 = IF currentexe # me2 THEN Level(currprio[me2]) ELSE locklevel
  BY <1>2, <1>4 DEF Return, Me
<1>6. \A p \in stack[n].low + 1 .. stack[n].p : queue[p] = <<>>
  BY <1>2 DEF Waiting
<1>7. RunReturns(n, stack, t, queue, currprio, currentexe, me2, locklevel, lo2)
  BY <1>1, <1>2, <1>3, <1>5, <1>6 DEF RunReturns
<1>8. Good(machine, stack, x, c, currprio, currentexe, locklevel, queue, mutex, l, pendsv)
  BY DEF Holds
<1>9. PICK y \in Seq(Exe), d \in Seq(Prio) :
        Good(machine, t, y, d, currprio, me2, lo2, queue, mutex, l, pendsv)
  BY <1>7, <1>8, ReturnKeeps
<1>10. stack' = t
  BY <1>3 DEF Return, Below
<1>11. UNCHANGED <<machine, queue, currprio, mutex, request, pendsv, panic>>
  BY DEF Return
<1>12. Holds(y, d, l)'
  BY <1>4, <1>9, <1>10, <1>11 DEF Holds
<1> QED
  BY <1>9, <1>12, GoodState DEF Inv

-----------------------------------------------------------------------------
(* The steps of the processor, of dv_pendsvtrap(), dv_preempt() and        *)
(* dv_svctrap()                                                            *)

\* Interrupts are enabled on top of these frames only.
LEMMA InterruptibleIs ==
  ASSUME NEW x, NEW c, NEW l, Holds(x, c, l), Interruptible
  PROVE  Stops(stack[Len(stack)])
<1>1. Top = stack[Len(stack)]
  BY Reading
<1> QED
  BY <1>1 DEF Interruptible, Stops

LEMMA RequestStep ==
  ASSUME NEW x, NEW c, NEW l, Numbers, Holds(x, c, l), NEW i \in Isr, DeviceRequests(i)
  PROVE  Inv'
<1>1. x \in Seq(Exe) /\ c \in Seq(Prio) /\ l \in Seq(Prio)
  <2>1. PICK n : n = Len(stack)
    OBVIOUS
  <2> QED
    BY <2>1, GoodState
<1>2. Holds(x, c, l)'
  BY DEF DeviceRequests, Holds, schedVars
<1> QED
  BY <1>1, <1>2 DEF Inv

LEMMA TakeIrqStep ==
  ASSUME Numbers, LevelsRise, NEW x, NEW c, NEW l, Holds(x, c, l), NEW i \in Isr, TakeIrq(i)
  PROVE  Inv'
<1>1. PICK n : n = Len(stack)
  OBVIOUS
<1>2. stack \in Seq(Frame) /\ Len(stack) >= 1
  BY Reading
<1>3. Stops(stack[Len(stack)])
  BY InterruptibleIs DEF TakeIrq
<1>4. machine = "v6" \/ Level(Base[i]) > locklevel
  BY DEF TakeIrq, Enabled
<1>5. \A k \in 1 .. Len(stack) : stack[k].kind = "irq" => Base[stack[k].isr] < Base[i]
  <2>1. ASSUME NEW k \in 1 .. Len(stack), stack[k].kind = "irq"
        PROVE  Base[stack[k].isr] < Base[i]
    <3>1. k \in Handlers
      BY <1>2, <2>1 DEF Handlers
    <3> QED
      BY <2>1, <3>1 DEF TakeIrq
  <2> QED
    BY <2>1
<1>6. PICK t \in Seq(Frame) : t = stack' /\ Longer(stack, t, IrqEntry(i))
  <2>1. IrqEntry(i) \in Frame
    <3>1. 0 \in Prio
      BY DEF Prio, Numbers
    <3> QED
      BY <3>1 DEF IrqEntry, IrqFrame, Frame
  <2>2. PICK t \in Seq(Frame) : t = Append(stack, IrqEntry(i)) /\ Longer(stack, t, IrqEntry(i))
    BY <1>2, <2>1, LongerExists
  <2>3. t = stack'
    BY <2>2 DEF TakeIrq, IrqEntry
  <2> QED
    BY <2>2, <2>3
<1>7. Good(machine, stack, x, c, currprio, currentexe, locklevel, queue, mutex, l, pendsv)
  BY DEF Holds
<1>8. PICK y \in Seq(Exe), d \in Seq(Prio) :
        Good(machine, t, y, d, currprio, currentexe, locklevel, queue, mutex, l, pendsv)
  BY <1>3, <1>4, <1>5, <1>6, <1>7, TakeIrqKeeps
<1>9. Holds(y, d, l)'
  BY <1>6, <1>8 DEF TakeIrq, Holds, schedVars
<1> QED
  BY <1>1, <1>8, <1>9, GoodState DEF Inv

LEMMA TakePendSVStep ==
  ASSUME Numbers, LevelsRise, NEW x, NEW c, NEW l, Holds(x, c, l), TakePendSV
  PROVE  Inv'
<1>1. PICK n : n = Len(stack)
  OBVIOUS
<1>2. stack \in Seq(Frame) /\ \A k \in 1 .. Len(stack) : ~IsHandler(stack[k])
  BY Reading DEF TakePendSV
<1>3. Stops(stack[Len(stack)]) /\ (machine = "v6" \/ locklevel = 0)
  BY InterruptibleIs DEF TakePendSV, Unmasked
<1>4. PICK t \in Seq(Frame) : t = stack' /\ Longer(stack, t, PendSVEntry)
  <2>1. PendSVEntry \in Frame
    BY DEF PendSVEntry, PendSVFrame, Frame
  <2>2. PICK t \in Seq(Frame) : t = Append(stack, PendSVEntry) /\ Longer(stack, t, PendSVEntry)
    BY <1>2, <2>1, LongerExists
  <2>3. t = stack'
    BY <2>2 DEF TakePendSV, PendSVEntry
  <2> QED
    BY <2>2, <2>3
<1>5. Good(machine, stack, x, c, currprio, currentexe, locklevel, queue, mutex, l, pendsv)
  BY DEF Holds
<1>6. PICK y \in Seq(Exe), d \in Seq(Prio) :
        Good(machine, t, y, d, currprio, currentexe, locklevel, queue, mutex, l, FALSE)
  BY <1>2, <1>3, <1>4, <1>5, TakePendSVKeeps
<1>7. Holds(y, d, l)'
  BY <1>4, <1>6 DEF TakePendSV, Holds, schedVars
<1> QED
  BY <1>1, <1>6, <1>7, GoodState DEF Inv

LEMMA LockedAllIs ==
  ASSUME LockedAll
  PROVE  locklevel' = Locked(machine)
BY DEF LockedAll, Locked

LEMMA PendSVTrapStep ==
  ASSUME Numbers, LevelsRise, NEW x, NEW c, NEW l, Holds(x, c, l), PendSVTrap
  PROVE  Inv'
<1>1. PICK n : n = Len(stack)
  OBVIOUS
<1>2. stack \in Seq(Frame) /\ Len(stack) >= 1 /\ stack[Len(stack)].kind = "pendsv"
  BY Reading DEF PendSVTrap
<1>3. PICK f \in Frame : /\ f = [kind |-> "preempt", pc |-> "frame"]
                         /\ f.kind = "preempt" /\ f.pc = "frame"
  <2>1. PICK f : f = [kind |-> "preempt", pc |-> "frame"]
    OBVIOUS
  <2>2. f \in PreemptFrame /\ f.kind = "preempt" /\ f.pc = "frame"
    BY <2>1 DEF PreemptFrame
  <2> QED
    BY <2>1, <2>2 DEF Frame
<1>4. PICK b \in Seq(Frame) : b = Front(stack) /\ Shorter(stack, b)
  BY <1>2, ShorterExists
<1>5. PICK t \in Seq(Frame) : t = Append(b, f) /\ Longer(b, t, f)
  BY LongerExists
<1>6. t = stack'
  BY <1>3, <1>4, <1>5 DEF PendSVTrap, Below
<1>7. Changed(stack, t, f)
  <2>1. Len(b) = Len(stack) - 1 /\ Len(t) = Len(stack) /\ t[Len(stack)] = f
    BY <1>2, <1>4, <1>5 DEF Shorter, Longer
  <2>2. \A j \in 1 .. Len(stack) - 1 : t[j] = stack[j]
    BY <1>4, <1>5, <2>1 DEF Shorter, Longer, Agree
  <2> QED
    BY <2>1, <2>2 DEF Changed, Agree
<1>8. Good(machine, stack, x, c, currprio, currentexe, locklevel, queue, mutex, l, pendsv)
  BY DEF Holds
<1>9. PICK d \in Seq(Prio) :
        Good(machine, t, x, d, currprio, currentexe, Locked(machine), queue, mutex, l, FALSE)
  BY <1>2, <1>3, <1>7, <1>8, PendSVTrapKeeps
<1>10. locklevel' = Locked(machine)
  BY LockedAllIs DEF PendSVTrap
<1>11. Holds(x, d, l)'
  BY <1>6, <1>9, <1>10 DEF PendSVTrap, Holds, schedVars
<1> QED
  BY <1>1, <1>9, <1>11, GoodState DEF Inv

\* The frame of dv_preempt() that is on top, at another step
LEMMA PreemptTop ==
  ASSUME Numbers, NEW x, NEW c, NEW l, Holds(x, c, l), NEW n, n = Len(stack),
         stack[n].kind = "preempt", NEW a \in {"frame", "unwind", "svc"}
  PROVE  \E f \in Frame, t \in Seq(Frame) :
           /\ f.kind = "preempt" /\ f.pc = a
           /\ t = [stack EXCEPT ![Len(stack)].pc = a] /\ Changed(stack, t, f)
<1>1. stack[n] \in Frame /\ stack \in Seq(Frame) /\ Len(stack) >= 1
  BY Reading, GoodState
<1>2. stack[n] \in PreemptFrame
  BY <1>1 DEF Frame, ExeFrame, RunFrame, IrqFrame, PendSVFrame
<1>3. PICK f : f = [stack[n] EXCEPT !.pc = a]
  OBVIOUS
<1>4. f \in Frame /\ f.kind = "preempt" /\ f.pc = a
  BY <1>2, <1>3 DEF Frame, PreemptFrame
<1>5. PICK t \in Seq(Frame) : t = [stack EXCEPT ![Len(stack)] = f] /\ Changed(stack, t, f)
  BY <1>1, <1>4, ChangedExists
<1>6. t = [stack EXCEPT ![Len(stack)].pc = a]
  BY <1>3, <1>5
<1> QED
  BY <1>4, <1>5, <1>6

LEMMA PreemptStep ==
  ASSUME Numbers, LevelsRise, NEW x, NEW c, NEW l, Holds(x, c, l), Preempt
  PROVE  Inv'
<1>1. PICK n : n = Len(stack)
  OBVIOUS
<1>2. stack[n].kind = "preempt" /\ Top = stack[n]
  BY <1>1, Reading DEF Preempt
<1>3. PICK f \in Frame, t \in Seq(Frame) :
        /\ f.kind = "preempt" /\ f.pc = "unwind"
        /\ t = [stack EXCEPT ![Len(stack)].pc = "unwind"] /\ Changed(stack, t, f)
  <2>1. PICK a \in {"frame", "unwind", "svc"} : a = "unwind"
    OBVIOUS
  <2> QED
    BY <1>1, <1>2, <2>1, PreemptTop
<1>4. PICK u : u = stack'
  OBVIOUS
<1>5. RunFrom(t, u, MaxTaskPrio, currprio[currentexe], currentexe)
  <2>1. MaxTaskPrio \in Prio
    BY DEF Numbers, Prio
  <2>2. currprio[currentexe] \in Prio /\ currentexe \in Exe
    BY GoodState
  <2>3. PICK low \in Prio, high \in Prio : low = currprio[currentexe] /\ high = MaxTaskPrio
    BY <2>1, <2>2
  <2>4. u = IF high > low THEN Append(t, RunEntry(high, low, currentexe)) ELSE t
    BY <1>3, <1>4, <2>3 DEF Preempt, RunQueued, Run, RunEntry, Me
  <2> QED
    BY <2>2, <2>3, <2>4, RunEntryIs
<1>6. PreemptRuns(stack, t, u, f, currprio, currentexe)
  <2>1. f.kind = "preempt" /\ f.pc = "unwind" /\ t \in Seq(Frame) /\ Changed(stack, t, f)
    BY <1>3
  <2> QED
    BY <1>5, <2>1 DEF PreemptRuns
<1>7. Good(machine, stack, x, c, currprio, currentexe, locklevel, queue, mutex, l, pendsv)
  BY DEF Holds
<1>8. PICK y \in Seq(Exe), d \in Seq(Prio) :
        Good(machine, u, y, d, currprio, currentexe, locklevel, queue, mutex, l, pendsv)
  BY <1>1, <1>2, <1>6, <1>7, PreemptKeeps
<1>9. Holds(y, d, l)'
  BY <1>4, <1>8 DEF Preempt, Holds, schedVars
<1> QED
  BY <1>8, <1>9, GoodState DEF Inv

LEMMA UnwindStep ==
  ASSUME Numbers, LevelsRise, NEW x, NEW c, NEW l, Holds(x, c, l), Unwind
  PROVE  Inv'
<1>1. PICK n : n = Len(stack)
  OBVIOUS
<1>2. stack[n].kind = "preempt" /\ stack[n].pc = "unwind" /\ Top = stack[n]
  BY <1>1, Reading DEF Unwind
<1>3. PICK f \in Frame, t \in Seq(Frame) :
        /\ f.kind = "preempt" /\ f.pc = "svc"
        /\ t = [stack EXCEPT ![Len(stack)].pc = "svc"] /\ Changed(stack, t, f)
  <2>1. PICK a \in {"frame", "unwind", "svc"} : a = "svc"
    OBVIOUS
  <2> QED
    BY <1>1, <1>2, <2>1, PreemptTop
<1>4. f.kind = "preempt" /\ f.pc = "svc" /\ Changed(stack, t, f)
  BY <1>3
<1>5. Good(machine, stack, x, c, currprio, currentexe, locklevel, queue, mutex, l, pendsv)
  BY DEF Holds
<1>6. PICK d \in Seq(Prio) :
        Good(machine, t, x, d, currprio, currentexe, Locked(machine), queue, mutex, l, pendsv)
  BY <1>1, <1>2, <1>4, <1>5, UnwindKeeps
<1>7. locklevel' = Locked(machine) /\ stack' = t
  BY <1>3, LockedAllIs DEF Unwind, Goto
<1>8. Holds(x, d, l)'
  BY <1>6, <1>7 DEF Unwind, Holds, schedVars
<1> QED
  BY <1>6, <1>8, GoodState DEF Inv

LEMMA SvcTrapStep ==
  ASSUME Numbers, LevelsRise, NEW x, NEW c, NEW l, Holds(x, c, l), SvcTrap
  PROVE  Inv'
<1>1. PICK n : n = Len(stack)
  OBVIOUS
<1>2. /\ stack[n].kind = "preempt" /\ stack[n].pc = "svc"
      /\ stack \in Seq(Frame) /\ Len(stack) >= 1
  BY <1>1, Reading DEF SvcTrap
<1>3. PICK t \in Seq(Frame) : t = Front(stack) /\ Shorter(stack, t)
  BY <1>2, ShorterExists
<1>4. t = stack'
  BY <1>3 DEF SvcTrap, Below
<1>5. Good(machine, stack, x, c, currprio, currentexe, locklevel, queue, mutex, l, pendsv)
  BY DEF Holds
<1>6. PICK y \in Seq(Exe), d \in Seq(Prio) :
        Good(machine, t, y, d, currprio, currentexe, 0, queue, mutex, l, pendsv)
  BY <1>1, <1>2, <1>3, <1>5, SvcTrapKeeps
<1>7. Holds(y, d, l)'
  BY <1>4, <1>6 DEF SvcTrap, Holds, schedVars
<1> QED
  BY <1>6, <1>7, GoodState DEF Inv

-----------------------------------------------------------------------------
(* The invariant                                                           *)

\* Every step keeps the invariant.
LEMMA NextHolds ==
  ASSUME Numbers, LevelsRise, Inv, [CortexNext]_cortexVars
  PROVE  Inv'
<1>1. PICK x \in Seq(Exe), c \in Seq(Prio), l \in Seq(Prio) : Holds(x, c, l)
  BY DEF Inv
<1>2. CASE UNCHANGED cortexVars
  <2>1. Holds(x, c, l)'
    BY <1>1, <1>2 DEF cortexVars, schedVars, Holds
  <2> QED
    BY <2>1 DEF Inv
<1>3. CASE CortexNext
  <2>1. CASE \E t \in Task : ActivateTask(t)
    BY <1>1, <2>1, ActivateTaskStep
  <2>2. CASE \E p \in Ceilings : TakeMutex(p)
    BY <1>1, <2>2, TakeMutexStep DEF Numbers
  <2>3. CASE DropMutex
    BY <1>1, <2>3, DropMutexStep
  <2>4. CASE Terminate
    BY <1>1, <2>4, TerminateStep
  <2>5. CASE Dispatch
    BY <1>1, <2>5, DispatchStep
  <2>6. CASE Return
    BY <1>1, <2>6, ReturnStep
  <2>7. CASE \E i \in Isr : DeviceRequests(i)
    BY <1>1, <2>7, RequestStep
  <2>8. CASE \E i \in Isr : TakeIrq(i)
    BY <1>1, <2>8, TakeIrqStep
  <2>9. CASE TakePendSV
    BY <1>1, <2>9, TakePendSVStep
  <2>10. CASE IrqSave
    BY <1>1, <2>10, IrqSaveStep
  <2>11. CASE IrqRaise
    BY <1>1, <2>11, IrqRaiseStep
  <2>12. CASE IrqVector
    BY <1>1, <2>12, IrqVectorStep
  <2>13. CASE IrqRestore
    BY <1>1, <2>13, IrqRestoreStep
  <2>14. CASE IrqScan
    BY <1>1, <2>14, IrqScanStep
  <2>15. CASE PendSVTrap
    BY <1>1, <2>15, PendSVTrapStep
  <2>16. CASE Preempt
    BY <1>1, <2>16, PreemptStep
  <2>17. CASE Unwind
    BY <1>1, <2>17, UnwindStep
  <2>18. CASE SvcTrap
    BY <1>1, <2>18, SvcTrapStep
  <2> QED
    BY <1>3, <2>1, <2>2, <2>3, <2>4, <2>5, <2>6, <2>7, <2>8, <2>9, <2>10, <2>11, <2>12, <2>13,
       <2>14, <2>15, <2>16, <2>17, <2>18 DEF CortexNext
<1> QED
  BY <1>2, <1>3

\* Every state of the dispatcher is one of nested contexts, each of which finds the
\* executable, the priority and the lock level it had when it comes on top again
\* (dv_runqueued(), dv_irq(), dv_cortexm_pendsvc(), dv_cortexm_svctrap()).
THEOREM CortexMInvariant ==
  CortexSpec => []Inv
<1>1. Numbers /\ LevelsRise
  BY NumbersHold, LevelsHold
<1>2. CortexInit => Inv
  BY <1>1, InitHolds
<1>3. Inv /\ [CortexNext]_cortexVars => Inv'
  BY <1>1, NextHolds
<1> QED
  BY <1>2, <1>3, PTL DEF CortexSpec

-----------------------------------------------------------------------------
(* What follows from it                                                    *)

\* The mode of an executable is that of the frames below it.
LEMMA ModesAre ==
  ASSUME Numbers, NEW x, NEW c, NEW l, Holds(x, c, l)
  PROVE  ModeOfExe
<1>1. /\ StackOK(machine, stack, x, c) /\ panic = FALSE /\ stack \in Seq(Frame)
      /\ DOMAIN stack = 1 .. Len(stack)
  BY DEF Holds, Good, StackOK, Shaped
<1>2. ASSUME NEW k \in DOMAIN stack, stack[k].kind = "exe"
      PROVE  stack[k].exe \in Isr <=> \E h \in Handlers : h < k
  <2>1. FrameOK(machine, stack, x, c, k) /\ k \in 1 .. Len(stack)
    BY <1>1 DEF StackOK
  <2>2. (\E h \in Handlers : h < k) <=> InHandler(stack, k)
    BY <1>1, <2>1 DEF Handlers, InHandler, IsHandler
  <2>3. CASE k = 1
    <3>1. stack[k].exe = Idle
      BY <2>1, <2>3 DEF FrameOK, BottomOK, Main
    <3>2. stack[k].exe \notin Isr
      BY <3>1 DEF Numbers
    <3>3. ~InHandler(stack, k)
      BY <2>3 DEF InHandler
    <3> QED
      BY <2>2, <3>2, <3>3
  <2>4. CASE k # 1
    <3>1. ExeOK(stack, x, c, k)
      BY <1>2, <2>1, <2>4 DEF FrameOK, Placed
    <3> QED
      BY <2>2, <3>1 DEF ExeOK
  <2> QED
    BY <2>3, <2>4
<1> QED
  BY <1>1, <1>2 DEF ModeOfExe

\* Code runs at the level and the priority of its context.
LEMMA LevelIs ==
  ASSUME Numbers, LevelsRise, NEW x, NEW c, NEW l, Holds(x, c, l)
  PROVE  LevelRestored
<1>1. SUFFICES ASSUME Code
               PROVE  /\ locklevel = Level(currprio[Me])
                      /\ currprio[Me] = IF mutex # <<>> /\ Last(mutex).owner = Me
                                        THEN Max({p \in Prio : Contains(queue[p], Me)})
                                        ELSE Base[Me]
  BY DEF LevelRestored
<1>2. PICK n : n = Len(stack)
  OBVIOUS
<1>3. /\ n \in Nat /\ n >= 1 /\ x[n] \in Exe /\ c[n] \in Prio /\ c[n] \in Nat
      /\ queue \in [Prio -> Seq(Exe)] /\ mutex \in Seq([owner : Exe, save : Prio])
  BY <1>2, GoodState
<1>4. CodeRuns(machine, stack, locklevel, pendsv) /\ stack[n].kind = "exe"
  BY <1>1, <1>2, Reading DEF CodeRuns
<1>5. Me = x[n] /\ currprio[Me] = c[n]
  BY <1>2, <1>4, GoodState DEF Me
<1>6. Good(machine, stack, x, c, currprio, currentexe, locklevel, queue, mutex, l, pendsv)
  BY DEF Holds
<1>7. /\ StackOK(machine, stack, x, c) /\ Rest(machine, stack, c, queue, mutex, l)
      /\ ContextOK(machine, stack, x, c, currentexe, locklevel)
      /\ CeilingOK(stack, c, mutex, l) /\ QueueOK(stack, queue, mutex, l)
  BY <1>6 DEF Good, Rest
<1>8. locklevel = Level(currprio[Me])
  BY <1>2, <1>4, <1>5, <1>7 DEF ContextOK
<1>9. n \in 1 .. Len(stack) /\ stack[n].exe = x[n]
  <2>1. n \in 1 .. Len(stack)
    BY <1>2, <1>3
  <2> QED
    BY <1>4, <1>7, <2>1, ExeAt
<1>10. CASE mutex # <<>> /\ Last(mutex).owner = Me
  <2>1. PICK M : M = Len(mutex)
    OBVIOUS
  <2>2. M \in 1 .. Len(mutex) /\ Last(mutex) = mutex[M]
    BY <1>3, <1>10, <2>1 DEF Last
  <2>3. Newest(mutex, M) /\ mutex[M].owner = x[n]
    BY <1>5, <1>10, <2>1, <2>2 DEF Newest
  <2>4. c[n] = l[M]
    BY <1>4, <1>7, <1>9, <2>2, <2>3 DEF CeilingOK
  <2>5. queue[l[M]] # <<>> /\ queue[l[M]][1] = mutex[M].owner
    BY <1>7, <2>2 DEF QueueOK
  <2>6. Contains(queue[c[n]], Me)
    <3>1. queue[c[n]] \in Seq(Exe) /\ queue[c[n]] # <<>> /\ queue[c[n]][1] = Me
      BY <1>3, <1>5, <2>3, <2>4, <2>5
    <3>2. 1 \in 1 .. Len(queue[c[n]])
      BY <3>1
    <3> QED
      BY <3>1, <3>2 DEF Contains
  <2>7. PICK W : W = {p \in Prio : Contains(queue[p], Me)}
    OBVIOUS
  <2>8. c[n] \in W
    BY <1>3, <2>6, <2>7
  <2>9. ASSUME NEW p \in W PROVE c[n] >= p /\ p \in Nat
    <3>1. p \in Prio /\ Contains(queue[p], Me) /\ queue[p] \in Seq(Exe)
      BY <1>3, <2>7
    <3>2. p \in Nat
      BY <3>1 DEF Prio
    <3>3. queue[p] # <<>>
      <4>1. PICK j \in 1 .. Len(queue[p]) : queue[p][j] = Me
        BY <3>1 DEF Contains
      <4>2. Len(queue[p]) # 0
        BY <4>1
      <4> QED
        BY <4>2
    <3>4. ~(p > c[Len(stack)])
      BY <1>4, <1>6, <3>1, <3>3, NoneAbove
    <3> QED
      BY <1>2, <1>3, <3>2, <3>4
  <2>10. Max(W) = c[n]
    <3>1. Max(W) \in W /\ \A p \in W : Max(W) >= p
      BY <2>8, <2>9 DEF Max
    <3>2. Max(W) >= c[n] /\ c[n] >= Max(W) /\ Max(W) \in Nat
      BY <2>8, <2>9, <3>1
    <3> QED
      BY <1>3, <3>2
  <2> QED
    BY <1>5, <1>8, <1>10, <2>7, <2>10
<1>11. CASE ~(mutex # <<>> /\ Last(mutex).owner = Me)
  <2>1. ASSUME NEW m \in 1 .. Len(mutex), mutex[m].owner = x[n] PROVE FALSE
    <3>1. PICK M : M = Len(mutex)
      OBVIOUS
    <3>2. M \in m .. Len(mutex) /\ mutex # <<>> /\ Last(mutex) = mutex[M]
      BY <1>3, <3>1 DEF Last
    <3>3. mutex[M].owner = x[n]
      BY <1>2, <1>4, <1>7, <2>1, <3>2, OwnersOnTop
    <3> QED
      BY <1>5, <1>11, <3>2, <3>3
  <2>2. c[n] = Base[x[n]]
    BY <1>4, <1>7, <1>9, <2>1 DEF CeilingOK
  <2> QED
    BY <1>5, <1>8, <1>11, <2>2
<1> QED
  BY <1>10, <1>11

\* Nothing is queued above code that runs in thread mode without PendSV pending.
LEMMA NoneMissed ==
  ASSUME Numbers, LevelsRise, NEW x, NEW c, NEW l, Holds(x, c, l)
  PROVE  NoMissedPreemption
<1>1. SUFFICES ASSUME Code, NEW p \in currprio[Me] + 1 .. MaxPrio PROVE queue[p] = <<>>
  BY DEF NoMissedPreemption
<1>2. PICK n : n = Len(stack)
  OBVIOUS
<1>3. CodeRuns(machine, stack, locklevel, pendsv) /\ stack[n].kind = "exe"
  BY <1>1, <1>2, Reading DEF CodeRuns
<1>4. c[n] \in Nat /\ currprio[Me] = c[n]
  BY <1>2, <1>3, GoodState DEF Me
<1>5. p \in Prio /\ p > c[Len(stack)]
  BY <1>1, <1>2, <1>4 DEF Numbers, Prio
<1>6. Good(machine, stack, x, c, currprio, currentexe, locklevel, queue, mutex, l, pendsv)
  BY DEF Holds
<1> QED
  BY <1>3, <1>5, <1>6, NoneAbove

\* Whatever nests, tasks run in thread mode and ISRs in handler mode, dv_irq() never finds
\* another executable than the one it has interrupted, and what runs does so at its own
\* priority and lock level: its base priority, or the ceiling of its newest mutex
\* (dv_irq(), dv_cortexm_pendsvc(), dv_cortexm_svctrap(), dv_runqueued()).
THEOREM DispatchedAlways ==
  CortexSpec => []Dispatched
<1>1. Numbers /\ LevelsRise
  BY NumbersHold, LevelsHold
<1>2. Inv => Dispatched
  BY <1>1, ModesAre, LevelIs DEF Inv, Dispatched
<1> QED
  BY <1>2, CortexMInvariant, PTL

\* A task that is ready above the code that runs in thread mode has PendSV on its way:
\* no interrupt, however it nests with others and with the calls of the tasks, leaves one
\* behind (dv_irq(), dv_preempt()).
THEOREM PreemptionNotMissed ==
  CortexSpec => []NoMissedPreemption
<1>1. Numbers /\ LevelsRise
  BY NumbersHold, LevelsHold
<1>2. Inv => NoMissedPreemption
  BY <1>1, NoneMissed DEF Inv
<1> QED
  BY <1>2, CortexMInvariant, PTL
=============================================================================
