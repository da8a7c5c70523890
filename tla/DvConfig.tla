------------------------------ MODULE DvConfig ------------------------------
(***************************************************************************)
(* The start-up of davroska: dv_startos() calls the application's callouts *)
(* one after the other, and in each of them the application may make the   *)
(* configuration calls of that phase in any order and with any arguments   *)
(* (davroska.c and dv_addextendedtask() of davroska-extended.c).           *)
(*                                                                         *)
(* A call in another phase, or with an argument that is refused, reports   *)
(* an error and changes nothing: it is a stuttering step, and the guards   *)
(* of the actions are the negated refusals.  Names are left out.           *)
(*                                                                         *)
(* The module Davroska takes the result of the start-up as its constants   *)
(* and assumes what the properties here show.                              *)
(***************************************************************************)
EXTENDS Integers, FiniteSets, FiniteSetsExt

CONSTANTS
  MaxPrio,      \* dv_maxprio
  MaxExe,       \* dv_maxexe: the configured executables and the idle loop
  MaxExtended,  \* dv_maxextended
  MaxMutex,     \* dv_maxmutex
  SlotLimit,    \* dv_maxslot: what dv_createqueues() compares with
  Irq,          \* the interrupt requests, 0 .. DV_NVECTOR-1
  Canary,       \* DV_CANARY
  None,         \* the id -1, and DV_NULL
  MaxGroups,    \* bound of the model: groups configured in one start-up
  Asked         \* the arguments that applications try: a record of sets

ASSUME ConfigAssumption ==
  /\ MaxPrio \in Nat \ {0} /\ MaxExe \in Nat \ {0} /\ Canary \in Nat \ {0}
  /\ MaxExtended \in Nat /\ MaxMutex \in Nat /\ SlotLimit \in Nat
  /\ Asked.prio \subseteq Int /\ Asked.act \subseteq Int /\ Asked.bytes \subseteq Int
  /\ None \notin Int /\ None \notin Irq

VARIABLES
  phase,        \* dv_configstate->phase, "started" after the last callout
  exe,          \* dv_exe[]: a function on 0 .. dv_nexe-1
  ntask,        \* dv_ntask
  maxtaskprio,  \* dv_maxtaskprio
  vector,       \* dv_vectors[]: the executable an IRQ activates, None: unconfigured
  nslots,       \* dv_queue[q].nslots
  first,        \* dv_queue[q].slots, as an index in dv_slots[]
  level,        \* dv_queue[q].level
  irqlevel,     \* the level dv_config_irq() has given to an IRQ
  group,        \* the groupdef of dv_addgroups(), None between two groups
  mutex,        \* dv_mutex[]: a function on 0 .. dv_nmutex-1
  extstacks,    \* dv_extstacks
  stack,        \* dv_extended[]: a function on 0 .. dv_nextended-1
  groups,       \* history: the groups finished in this phase
  panic         \* dv_panic() was called

exeVars   == <<exe, ntask, maxtaskprio, nslots>>
irqVars   == <<vector, irqlevel>>
tableVars == <<first, level>>
stackVars == <<extstacks, stack>>
groupVars == <<group, groups>>
configVars == <<phase, exeVars, irqVars, tableVars, groupVars, mutex, stackVars, panic>>

\* Queues 0 .. MaxPrio for the executables and the kernel, and one that stays empty.
Queue == 0 .. MaxPrio + 1

CountOf(f)    == Cardinality(DOMAIN f)
Append1(f, x) == [i \in 0 .. CountOf(f) |-> IF i = CountOf(f) THEN x ELSE f[i]]
Isr           == {e \in DOMAIN exe : e >= ntask}

\* What a loop over f[0], f[1], ... has added up when it comes to f[n]
SumsOf(f, length) ==
  LET sum[n \in 0 .. length] == IF n = 0 THEN 0 ELSE sum[n - 1] + f[n - 1]
  IN  sum

\* What dv_addexe() writes; only an ISR has an IRQ, only an extended task a stack.
NewExe(prio, maxact, irq, ext) ==
  [base |-> prio, run |-> prio, maxact |-> maxact, irq |-> irq, extended |-> ext]

AddExe(prio, maxact, irq, ext) ==
  /\ CountOf(exe) < MaxExe
  /\ prio < MaxPrio
  /\ exe'    = Append1(exe, NewExe(prio, maxact, irq, ext))
  /\ nslots' = [nslots EXCEPT ![prio] = @ + maxact]

-----------------------------------------------------------------------------
(* callout_addtasks() *)

AddTask(prio, maxact, ext) ==
  /\ phase = "tasks"
  /\ prio >= 1
  /\ AddExe(prio, IF maxact < 1 THEN 1 ELSE maxact, None, ext)
  /\ ntask' = ntask + 1
  /\ maxtaskprio' = IF prio > maxtaskprio THEN prio ELSE maxtaskprio
  /\ UNCHANGED <<phase, irqVars, tableVars, groupVars, mutex, panic>>

AddBasicTask(prio, maxact) == AddTask(prio, maxact, None) /\ UNCHANGED stackVars

StackRound(n) == ((n + Canary - 1) \div Canary) * Canary

\* The stacks are laid out upwards, each with room for a canary.
Stack(bytes) ==
  [base |-> extstacks, len |-> StackRound(bytes),
   sp   |-> extstacks + StackRound(bytes) + Canary]

AddExtendedTask(prio, bytes) ==
  /\ CountOf(stack) < MaxExtended
  /\ bytes > 0
  /\ AddTask(prio, 1, CountOf(stack))
  /\ extstacks' = extstacks + StackRound(bytes) + Canary
  /\ stack'     = Append1(stack, Stack(bytes))

EndTasks ==
  /\ phase = "tasks"
  /\ phase' = "isrs"
  /\ UNCHANGED <<exeVars, irqVars, tableVars, groupVars, mutex, stackVars, panic>>

-----------------------------------------------------------------------------
(* callout_addisrs(), then dv_createqueues() and dv_calculatelevels() *)

IsVectorFree(irq) == irq \in Irq /\ vector[irq] = None

AddIsr(irq, prio) ==
  /\ phase = "isrs"
  /\ prio > maxtaskprio
  /\ IsVectorFree(irq)
  /\ AddExe(prio, 1, irq, None)
  /\ vector' = [vector EXCEPT ![irq] = CountOf(exe)]
  /\ UNCHANGED <<phase, ntask, maxtaskprio, irqlevel, tableVars, groupVars, mutex,
                 stackVars, panic>>

\* The slots of the queues before q.
SlotsBefore(q) == SumsOf(nslots, MaxPrio + 2)[q]

CreateQueues ==
  /\ first' = [q \in Queue |-> SlotsBefore(q)]
  /\ panic' = (SlotsBefore(MaxPrio + 2) > SlotLimit)

HasIsr(p) == \E e \in Isr : exe[e].base = p

\* The local l when the loop comes to priority p: a priority that an ISR has takes a level.
Taken    == [p \in Queue |-> IF p > maxtaskprio /\ HasIsr(p) THEN 1 ELSE 0]
Level(p) == 1 + SumsOf(Taken, MaxPrio + 2)[p]

CalculateLevels ==
  /\ level' = [q \in Queue |-> IF q \in maxtaskprio + 1 .. MaxPrio THEN Level(q) ELSE level[q]]
  /\ irqlevel' = [i \in Irq |-> IF vector[i] # None THEN Level(exe[vector[i]].base)
                                                    ELSE irqlevel[i]]

EndIsrs ==
  /\ phase = "isrs"
  /\ CreateQueues
  /\ CalculateLevels
  /\ phase' = IF panic' THEN "halted" ELSE "groups"
  /\ UNCHANGED <<exeVars, vector, groupVars, mutex, stackVars>>

-----------------------------------------------------------------------------
(* callout_addgroups() *)

StartGroup(nopreempt) ==
  /\ phase = "groups" /\ group = None
  /\ Cardinality(groups) < MaxGroups
  /\ group' = [nopreempt |-> nopreempt, members |-> {}]
  /\ UNCHANGED <<phase, exeVars, irqVars, tableVars, groups, mutex, stackVars, panic>>

AddToGroup(e) ==
  /\ phase = "groups" /\ group # None
  /\ e >= 1 /\ e < CountOf(exe)
  /\ ~(group.nopreempt /\ e >= ntask)   \* only tasks can be made non-preemptable
  /\ group' = [group EXCEPT !.members = @ \union {e}]
  /\ UNCHANGED <<phase, exeVars, irqVars, tableVars, groups, mutex, stackVars, panic>>

\* The executables whose base priority the group must reach.
Rivals == IF group.nopreempt THEN 1 .. ntask - 1 ELSE group.members
GroupPrio == Max({0} \union {exe[e].base : e \in Rivals})

\* Mutation: the priority is the lowest of the group.
FinishGroupLow ==
  /\ phase = "groups" /\ group # None
  /\ LET prio == Min({MaxPrio} \union {exe[e].base : e \in Rivals})
     IN  exe' = [e \in DOMAIN exe |-> IF e \in group.members /\ exe[e].run < prio
                                      THEN [exe[e] EXCEPT !.run = prio] ELSE exe[e]]
  /\ groups' = groups \union {group}
  /\ group'  = None
  /\ UNCHANGED <<phase, ntask, maxtaskprio, nslots, irqVars, tableVars, mutex,
                 stackVars, panic>>

FinishGroup ==
  /\ phase = "groups" /\ group # None
  /\ exe' = [e \in DOMAIN exe |-> IF e \in group.members /\ exe[e].run < GroupPrio
                                  THEN [exe[e] EXCEPT !.run = GroupPrio] ELSE exe[e]]
  /\ groups' = groups \union {group}
  /\ group'  = None
  /\ UNCHANGED <<phase, ntask, maxtaskprio, nslots, irqVars, tableVars, mutex,
                 stackVars, panic>>

\* A group that the callout has not finished is reported and forgotten.
EndGroups ==
  /\ phase = "groups"
  /\ phase' = "mutexes"
  /\ group' = None /\ groups' = {}
  /\ UNCHANGED <<exeVars, irqVars, tableVars, mutex, stackVars, panic>>

-----------------------------------------------------------------------------
(* callout_addmutexes() *)

AddMutex(maxtake) ==
  /\ phase = "mutexes"
  /\ CountOf(mutex) < MaxMutex
  /\ mutex' = Append1(mutex, [ceiling |-> 0, users |-> {},
                              maxtake |-> IF maxtake < 1 THEN 1 ELSE maxtake])
  /\ UNCHANGED <<phase, exeVars, irqVars, tableVars, groupVars, stackVars, panic>>

\* users is history: the code keeps only the ceiling.
AddMutexUser(m, e) ==
  /\ phase = "mutexes"
  /\ m \in DOMAIN mutex /\ e \in DOMAIN exe
  /\ mutex' = [mutex EXCEPT ![m].ceiling = IF @ < exe[e].base THEN exe[e].base ELSE @,
                            ![m].users   = @ \union {e}]
  /\ UNCHANGED <<phase, exeVars, irqVars, tableVars, groupVars, stackVars, panic>>

EndMutexes ==
  /\ phase = "mutexes"
  /\ phase' = "started"
  /\ UNCHANGED <<exeVars, irqVars, tableVars, groupVars, mutex, stackVars, panic>>

-----------------------------------------------------------------------------
\* dv_startos() up to the first callout: two slots for every priority, no vectors,
\* and the idle loop as executable 0.
ConfigInit ==
  /\ phase = "tasks"
  /\ exe = [e \in {0} |-> NewExe(0, 1, None, None)]
  /\ ntask = 1 /\ maxtaskprio = 0
  /\ nslots = [q \in Queue |-> IF q = 0 THEN 3 ELSE IF q <= MaxPrio THEN 2 ELSE 0]
  /\ vector = [i \in Irq |-> None]
  /\ irqlevel = [i \in Irq |-> 0]
  /\ first = [q \in Queue |-> 0]
  /\ level = [q \in Queue |-> 0]
  /\ group = None /\ groups = {}
  /\ mutex = [m \in {} |-> 0]
  /\ extstacks = Canary
  /\ stack = [n \in {} |-> 0]
  /\ panic = FALSE

ConfigNext ==
  \/ \E p \in Asked.prio, n \in Asked.act : AddBasicTask(p, n)
  \/ \E p \in Asked.prio, b \in Asked.bytes : AddExtendedTask(p, b)
  \/ EndTasks
  \/ \E i \in Irq, p \in Asked.prio : AddIsr(i, p)
  \/ EndIsrs
  \/ \E b \in BOOLEAN : StartGroup(b)
  \/ \E e \in 0 .. MaxExe : AddToGroup(e)
  \/ FinishGroup
  \/ EndGroups
  \/ \E n \in Asked.act : AddMutex(n)
  \/ \E m \in 0 .. MaxMutex - 1, e \in 0 .. MaxExe : AddMutexUser(m, e)
  \/ EndMutexes

ConfigSpec == ConfigInit /\ [][ConfigNext]_configVars

-----------------------------------------------------------------------------
(* What the rest of davroska relies on. *)

Queued == phase \in {"groups", "mutexes", "started"}

\* The priorities come out as Davroska assumes them, in spite of the order of the
\* calls (davroska.c:523-549, 650-690): ISRs are above tasks and the idle loop below,
\* no IRQ activates two executables, and the members of a finished group cannot
\* preempt each other (a non-preemptable one: no task can preempt them).
ExecutablesSound ==
  /\ exe[0].base = 0 /\ exe[0].run = 0
  /\ \A e \in DOMAIN exe \ {0} : exe[e].base \in 1 .. MaxPrio - 1 /\ exe[e].maxact >= 1
  /\ \A e \in DOMAIN exe : exe[e].run \in exe[e].base .. MaxPrio - 1
  /\ \A i \in Isr, t \in DOMAIN exe \ Isr : exe[i].base > exe[t].base
  /\ \A i \in Irq : vector[i] # None => exe[vector[i]].irq = i
  /\ \A i \in Isr : vector[exe[i].irq] = i
  /\ \A g \in groups : \A e \in g.members :
       /\ \A f \in g.members : exe[e].run >= exe[f].base
       /\ g.nopreempt => \A t \in DOMAIN exe \ Isr : exe[e].run >= exe[t].base

\* The ring buffers (dv_createqueues()) do not overlap, end before the limit, and each
\* has room for every activation at its priority, one raised executable and the gap.
QueuesSound ==
  Queued =>
    /\ \A p \in 0 .. MaxPrio :
         nslots[p] = 2 + SumsOf([e \in DOMAIN exe |-> IF exe[e].base = p THEN exe[e].maxact ELSE 0],
                                CountOf(exe))[CountOf(exe)]
    /\ \A q, r \in Queue : q < r => first[q] + nslots[q] <= first[r]
    /\ \A q \in Queue : first[q] >= 0 /\ first[q] + nslots[q] <= SlotLimit

\* At the lock level of a priority that is in use exactly the IRQs of lower ISRs are
\* shut (dv_calculatelevels()), so an ISR never waits for a task, and the kernel's own
\* priority shuts all.
LevelsSound ==
  Queued =>
    \A p \in {exe[e].base : e \in DOMAIN exe} \union {MaxPrio} :
      \A i \in Isr : irqlevel[exe[i].irq] >= level[p] <=> exe[i].base >= p

\* Every extended task has a stack of its own, with a canary, that no other overlaps.
StacksSound ==
  /\ \A e, f \in DOMAIN exe : exe[e].extended # None /\ exe[e].extended = exe[f].extended
                                => e = f
  /\ \A n \in DOMAIN stack :
       /\ \E e \in 1 .. ntask - 1 : exe[e].extended = n /\ exe[e].maxact = 1
       /\ stack[n].sp - stack[n].base >= stack[n].len + Canary
       /\ stack[n].sp <= extstacks
       /\ \A m \in DOMAIN stack : n < m => stack[n].sp <= stack[m].base

\* The ceiling of a mutex reaches every user and is that of one of them
\* (dv_addmutexuser()), and only executables and priorities of the start-up are used.
CeilingsSound ==
  \A m \in DOMAIN mutex :
    /\ \A e \in mutex[m].users : exe[e].base <= mutex[m].ceiling
    /\ mutex[m].ceiling \in {0} \union {exe[e].base : e \in mutex[m].users}
    /\ mutex[m].maxtake >= 1

\* What dv_createqueues(), dv_calculatelevels(), dv_startos() and dv_addmutexuser() make
\* of the configuration is what the scheduler relies on.
TablesSound == QueuesSound /\ LevelsSound /\ StacksSound /\ CeilingsSound

\* Whatever the order of the calls, and whichever of them are refused, the executables and
\* the tables are those that Davroska and DavroskaExtended assume.
\* (dv_addexe(), dv_finishgroup(), dv_startos() and what they call)
Configured == ExecutablesSound /\ TablesSound
=============================================================================
