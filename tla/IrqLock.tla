------------------------------- MODULE IrqLock -------------------------------
(***************************************************************************)
(* The interrupt controllers, and how the kernels lock interrupts with     *)
(* them.  davroska asks every controller for the same thing: an IRQ has a  *)
(* level, dv_setirqlevel() shuts the IRQs up to a lock level.  Only the    *)
(* ARMv7-M NVIC has such levels in hardware; on the others the driver      *)
(* keeps a table of what is enabled and rewrites the enable registers.     *)
(*                                                                         *)
(*   "bcm2835"  Raspberry Pi, davroska: one controller, tables by level    *)
(*   "nvic7"    STM32: BASEPRI                                             *)
(*   "nvic6"    RP2040: no BASEPRI, tables by level                        *)
(*   "dv3"      Raspberry Pi, davros-3: no levels, an IRQ that is taken is *)
(*              disabled until its handler enables it again                *)
(*   "gic"      ARM GIC, davros-3: priorities in hardware                  *)
(*                                                                         *)
(* kind says which of them the machine has.  One bit of a register is an   *)
(* element of a set of IRQs.                                               *)
(***************************************************************************)
EXTENDS Integers, Sequences, FiniteSets, SequencesExt, FiniteSetsExt

CONSTANTS
  Controllers,  \* the kinds of controller to look at
  Irq,          \* 0 .. n-1: the sources of the controller
  Local,        \* n .. m-1: the sources of the BCM2836, which stands before a BCM2835
  Register,     \* Register[i]: the enable register of source i (dv_bcm2835_irq_list)
  Levels        \* Levels[kind]: the lock levels that the kernel uses, from 0

\* The levels stay within those of the controller (DV_NVIC_MAXLEVEL and its like).
ASSUME IrqLockAssumption ==
  /\ Controllers \subseteq {"bcm2835", "nvic7", "nvic6", "dv3", "gic"}
  /\ \A k \in Controllers : Levels[k] \subseteq Nat
  /\ "bcm2835" \in Controllers => Levels["bcm2835"] \subseteq 0 .. 7
  /\ "nvic7" \in Controllers => Levels["nvic7"] \subseteq 0 .. 15
  /\ "nvic6" \in Controllers => Levels["nvic6"] \subseteq 0 .. 3
  /\ IsFiniteSet(Irq) /\ IsFiniteSet(Local)
  /\ Irq = 0 .. Cardinality(Irq) - 1
  /\ Local = Cardinality(Irq) .. Cardinality(Irq) + Cardinality(Local) - 1
  /\ \A i, j \in Irq : i <= j => Register[i] <= Register[j]
  /\ \A i \in Irq : Register[i] \in 0 .. 2

VARIABLES
  kind,      \* the controller of this machine
  lock,      \* dv_currentlocklevel
  level,     \* dv_bcm2835_irq_level[]
  masks,     \* dv_bcm2835_levelmasks[], dv_nvic_levelmask[]
  enabled,   \* dv_bcm2835_irq_enabled, dv_nvic_enabled
  gate,      \* hardware: the enable bits
  prio,      \* hardware: the priority of each source (NVIC and GIC), 0 is the most urgent
  threshold, \* hardware: BASEPRI (0: off), or the priority mask of the GIC
  asserted,  \* hardware: the sources that request an interrupt
  pending,   \* history: the sources that were open and asserted at the last interrupt
  vectored,  \* history: the vector functions called for it
  started,   \* dv_startos() has configured the IRQs
  conf,      \* history: the level a source was configured with, 0: none
  on         \* history: the sources that the application has enabled

tables  == <<level, masks, enabled>>
cpuVars == <<asserted, pending, vectored>>
vars == <<kind, lock, tables, gate, prio, threshold, cpuVars, started, conf, on>>

MaxLevel == CASE kind = "bcm2835" -> 7 [] kind = "nvic7" -> 15 [] OTHER -> 3
\* The Pico's DV_LOCKALL_LEVEL is 0: there the kernel's calls lock nothing.
LockAll  == CASE kind = "bcm2835" -> 8 [] kind = "nvic7" -> 15 [] OTHER -> 0
Least(a, b) == IF a < b THEN a ELSE b
Sources == IF kind \in {"bcm2835", "dv3"} THEN Irq \union Local ELSE Irq

-----------------------------------------------------------------------------
(* dv_config_irq() *)

Config2835(i, l) ==
  /\ kind = "bcm2835"
  /\ level' = [level EXCEPT ![i] = Least(l, MaxLevel)]
  /\ masks' = [k \in DOMAIN masks |-> IF k <= level'[i] THEN masks[k] \union {i} ELSE masks[k]]
  /\ UNCHANGED prio

\* The NVIC counts downwards.
ConfigNvic7(i, l) ==
  /\ kind = "nvic7"
  /\ prio' = [prio EXCEPT ![i] = MaxLevel + 1 - Least(l, MaxLevel)]
  /\ UNCHANGED <<level, masks>>

ConfigNvic6(i, l) ==
  LET p == MaxLevel + 1 - Least(l, MaxLevel)
  IN  /\ kind = "nvic6"
      /\ prio'  = [prio EXCEPT ![i] = p]
      /\ masks' = [k \in DOMAIN masks |->
                     IF k \in 1 .. p THEN masks[k] \union {i}
                     ELSE IF k \in 1 .. prio[i] THEN masks[k] \ {i} ELSE masks[k]]
      /\ UNCHANGED level

\* dv_calculatelevels() configures each ISR's source once, before anything is enabled.
Config(i, l) ==
  /\ ~started /\ conf[i] = 0 /\ l > 0
  /\ Config2835(i, l) \/ ConfigNvic7(i, l) \/ ConfigNvic6(i, l)
  /\ conf' = [conf EXCEPT ![i] = Least(l, MaxLevel)]
  /\ UNCHANGED <<kind, lock, enabled, gate, threshold, cpuVars, started, on>>

\* davros-3 leaves the BCM2835 alone; the GIC gets the priority itself.
ConfigGic(i, p) ==
  /\ ~started /\ kind = "gic" /\ p > 0
  /\ prio' = [prio EXCEPT ![i] = p]
  /\ UNCHANGED <<kind, lock, tables, gate, threshold, cpuVars, started, conf, on>>

-----------------------------------------------------------------------------
(* dv_setirqlevel() *)

\* All are disabled, then those of the level enabled.
SetLevel2835(l) ==
  /\ kind = "bcm2835"
  /\ gate' = enabled \intersect masks[l]
  /\ UNCHANGED threshold

BasepriOf(l) == IF l = 0 THEN 0 ELSE MaxLevel + 1 - l

SetLevelNvic7(l) ==
  /\ kind = "nvic7"
  /\ threshold' = BasepriOf(l)
  /\ UNCHANGED gate

\* The set-enable register can only enable, the clear-enable register only disable.
SetLevelNvic6(l) ==
  /\ kind = "nvic6"
  /\ gate' = IF l > lock THEN gate \union (enabled \intersect masks[l])
                         ELSE gate \intersect (enabled \intersect masks[l])
  /\ UNCHANGED threshold

SetLevel(l) ==
  /\ l # lock
  /\ SetLevel2835(l) \/ SetLevelNvic7(l) \/ SetLevelNvic6(l)
  /\ lock' = l
  /\ UNCHANGED <<kind, tables, prio, cpuVars, conf, on>>

\* The kernel's calls, once the system runs.
Lock(l) == started /\ SetLevel(l) /\ UNCHANGED started

\* dv_startos() ends: the kernel's lock level goes down to that of the tasks.
StartOs ==
  /\ ~started /\ started' = TRUE
  /\ IF kind \in {"dv3", "gic"} \/ lock = 0
     THEN UNCHANGED <<kind, lock, tables, gate, prio, threshold, cpuVars, conf, on>>
     ELSE SetLevel(0)

\* dv_set_level() of the GIC.
SetPriorityMask(p) ==
  /\ kind = "gic"
  /\ threshold' = p
  /\ UNCHANGED <<kind, lock, tables, gate, prio, cpuVars, started, conf, on>>

-----------------------------------------------------------------------------
(* dv_enable_irq(), dv_disable_irq() *)

\* Mutation: the level is not looked at.
Enable2835Always(i) ==
  /\ kind = "bcm2835"
  /\ enabled' = enabled \union {i}
  /\ gate' = gate \union {i}

Enable2835(i) ==
  /\ kind = "bcm2835"
  /\ enabled' = enabled \union {i}
  /\ gate' = IF level[i] >= lock THEN gate \union {i} ELSE gate

EnableNvic6(i) ==
  /\ kind = "nvic6"
  /\ enabled' = enabled \union {i}
  /\ gate' = gate \union (enabled' \intersect masks[lock])

\* One bit is written to the set-enable register.
EnableDirectly(i) ==
  /\ kind \in {"nvic7", "dv3", "gic"}
  /\ gate' = gate \union {i}
  /\ UNCHANGED enabled

Enable(i) ==
  /\ started
  /\ Enable2835(i) \/ EnableNvic6(i) \/ EnableDirectly(i)
  /\ on' = on \union {i}
  /\ UNCHANGED <<kind, lock, level, masks, prio, threshold, cpuVars, started, conf>>

\* The BCM2835's dv_disable_irq() has no caller.
Disable(i) ==
  /\ started /\ kind \in {"nvic7", "nvic6", "gic"}
  /\ gate' = gate \ {i}
  /\ enabled' = enabled \ {i}
  /\ on' = on \ {i}
  /\ UNCHANGED <<kind, lock, level, masks, prio, threshold, cpuVars, started, conf>>

-----------------------------------------------------------------------------
(* Interrupts *)

\* What the hardware lets through.  The BCM2836's own sources have no gate here.
Open(i) ==
  \/ i \in Local
  \/ /\ i \in gate
     /\ CASE kind = "nvic7" -> threshold = 0 \/ prio[i] < threshold
          [] kind = "gic"   -> prio[i] < threshold
          [] OTHER          -> TRUE

\* A device requests an interrupt; an ISR quietens its device.
Request(i) ==
  /\ i \notin asserted /\ asserted' = asserted \union {i}
  /\ UNCHANGED <<kind, lock, tables, gate, prio, threshold, pending, vectored, started,
                 conf, on>>
Quieten(i) ==
  /\ i \in asserted /\ asserted' = asserted \ {i}
  /\ UNCHANGED <<kind, lock, tables, gate, prio, threshold, pending, vectored, started,
                 conf, on>>

\* The elements of S in ascending order
Sorted(S) == CHOOSE s \in [1 .. Cardinality(S) -> S] :
               \A i, j \in DOMAIN s : i < j => s[i] < s[j]

\* dv_bcm2835_interrupt_handler() goes through the list once: where it stands when it
\* has done register r.
Cursor[r \in -1 .. 2] ==
  IF r = -1 THEN 0
  ELSE Min({i \in Irq \union {Cardinality(Irq)} :
              /\ i >= Cursor[r - 1]
              /\ i \in Irq => Register[i] # r})

\* Mutation: the walk goes on one too far from one register to the next.
Handler2835Skips(P) ==
  Sorted({i \in P \intersect Irq :
            i \in Cursor[Register[i] - 1] + 1 .. Cursor[Register[i]] - 1})

\* davroska: each register's pending bits against the stretch of the list that is its own.
Handler2835(P) ==
  Sorted({i \in P \intersect Irq : i \in Cursor[Register[i] - 1] .. Cursor[Register[i]] - 1})

\* The BCM2836 passes the GPU's interrupts on and then looks at its own.
Handler2836(P) == Handler2835(P) \o Sorted(P \intersect Local)

\* What is open and asserted; a processor with vectors takes one, the most urgent.
Requests == {i \in asserted : Open(i)}
Urgent   == {i \in Requests : \A j \in Requests : prio[i] <= prio[j]}

Interrupt2835 ==
  /\ kind = "bcm2835"
  /\ pending'  = Requests
  /\ vectored' = Handler2836(pending' \intersect (enabled \union Local))
  /\ UNCHANGED gate

InterruptVectored ==
  /\ kind \in {"nvic7", "nvic6", "gic"}
  /\ \E i \in Urgent : pending' = {i} /\ vectored' = <<i>>
  /\ UNCHANGED gate

\* davros-3 first disables everything that is pending.
InterruptDv3 ==
  /\ kind = "dv3"
  /\ pending'  = Requests
  /\ gate'     = gate \ pending'
  /\ vectored' = Sorted(pending' \intersect Irq) \o Sorted(pending' \intersect Local)

Interrupt ==
  /\ started
  /\ Requests # {}
  /\ Interrupt2835 \/ InterruptVectored \/ InterruptDv3
  /\ UNCHANGED <<kind, lock, tables, prio, threshold, asserted, started, conf, on>>

-----------------------------------------------------------------------------
\* dv_init_interrupt_controller(), dv_nvic_init() and dv_init_gic(), and the first
\* dv_setirqlevel() of dv_startos().
Init ==
  /\ kind \in Controllers
  /\ lock = LockAll
  /\ level = [i \in Irq |-> -1]
  /\ masks = [k \in 0 .. 8 |-> IF kind = "nvic6" /\ k = 0 THEN Irq ELSE {}]
  /\ enabled = {} /\ gate = {}
  /\ prio = [i \in Irq |-> IF kind = "gic" THEN 255 ELSE 0]
  /\ threshold = IF kind = "nvic7" THEN BasepriOf(LockAll) ELSE 0
  /\ asserted = {} /\ pending = {} /\ vectored = <<>>
  /\ started = FALSE
  /\ conf = [i \in Irq |-> 0]
  /\ on = {}

Next ==
  \/ \E i \in Irq, l \in Levels[kind] : Config(i, l)
  \/ \E i \in Irq, p \in Levels[kind] : ConfigGic(i, p)
  \/ StartOs
  \/ \E l \in Levels[kind] \union {LockAll} : Lock(l)
  \/ \E p \in Levels[kind] : SetPriorityMask(p)
  \/ \E i \in Irq : Enable(i)
  \/ \E i \in Irq : Disable(i)
  \/ \E i \in Sources : Request(i)
  \/ \E i \in Sources : Quieten(i)
  \/ Interrupt

Spec == Init /\ [][Next]_vars

-----------------------------------------------------------------------------
Configured(i) == conf[i] > 0

\* An IRQ below the lock level does not get through, however the lock level got there
\* and whenever the IRQ was enabled (dv_setirqlevel(), dv_enable_irq()): this is what
\* makes a mutex shared with an ISR a mutex.  It is not true of the RP2040.
LockedOut ==
  kind \in {"bcm2835", "nvic7"} =>
    \A i \in Irq : Open(i) /\ Configured(i) => conf[i] >= lock

\* An enabled IRQ above the lock level does get through, whatever levels were set in
\* the meantime: an ISR is never shut out by a less urgent one.
LetThrough ==
  started /\ kind \in {"bcm2835", "nvic7", "nvic6"} =>
    \A i \in on : Configured(i) /\ conf[i] > lock => Open(i)

\* At level 0 nothing is locked: every IRQ that the application has enabled gets
\* through.  ("0 is lowest (all enabled)", dv-nvic.h.)
AllOpenAtZero == started /\ lock = 0 /\ kind # "gic" => \A i \in on : Open(i)

\* An IRQ that the application has not enabled, or has disabled, stays shut: nothing in
\* the tables brings it back when the lock level changes.
OnlyEnabled == gate \subseteq on

\* One pass of the handler calls the vector function of every source that is open and
\* pending, once, and of no other (dv_bcm2835_interrupt_handler(), which relies on the
\* order of its list, dv_bcm2836_interrupt_handler()).
VectoredOnce ==
  /\ ToSet(vectored) = pending
  /\ Len(vectored) = Cardinality(pending)

\* The controllers' gates stand as the lock level, the levels of the sources and the
\* application's enabling ask for, in whatever order these changed.
GatesMatch == LockedOut /\ LetThrough /\ OnlyEnabled
=============================================================================
