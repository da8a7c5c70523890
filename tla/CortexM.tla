------------------------------- MODULE CortexM -------------------------------
(***************************************************************************)
(* davroska on an ARM Cortex-M (hardware/arm/c/davroska-cortexm.c).  An    *)
(* ISR executable runs inside the vector function dv_irq(), in handler     *)
(* mode and on the main stack; a task must not.  A task that an ISR has    *)
(* activated is started by way of PendSV, the exception of the lowest      *)
(* priority: it makes the processor return not to the interrupted code but *)
(* to dv_preempt(), in thread mode, and an SVC takes that frame off again. *)
(*                                                                         *)
(* Of the scheduler (see Davroska) only what this needs is here: one       *)
(* activation of each executable, and mutexes without nesting.             *)
(*                                                                         *)
(* stack is the processor's stacks and the exceptions on them in the order *)
(* in which they were entered; the newest frame is what the processor is   *)
(* executing.  A frame                                                     *)
(*   "exe"      is the main function of an executable,                     *)
(*   "run"      an activation of dv_runqueued(), interrupts disabled,      *)
(*   "irq"      dv_irq(), at the step pc,                                  *)
(*   "pendsv"   dv_pendsvtrap(),                                           *)
(*   "preempt"  dv_preempt(), at the step pc.                              *)
(***************************************************************************)
EXTENDS Integers, Sequences, FiniteSets, SequencesExt, FiniteSetsExt

CONSTANTS
  Task, Isr,    \* the executables besides the idle loop
  Idle,
  Base,         \* dv_exe[].baseprio
  Ceilings,     \* the ceilings of the mutexes
  None,
  Machines,     \* "v7": levels lock IRQs (BASEPRI); "v6": they lock nothing
  MaxDepth      \* bound of the model: devices request nothing on deeper stacks

Exe == Task \union Isr \union {Idle}

MaxTaskPrio == Max({0} \union {Base[t] : t \in Task})
MaxPrio     == 1 + Max({Base[e] : e \in Exe})
Prio        == 0 .. MaxPrio

ASSUME CortexMAssumption ==
  /\ IsFiniteSet(Task) /\ IsFiniteSet(Isr)
  /\ Base \in [Exe -> Nat] /\ Base[Idle] = 0
  /\ \A e \in Task \union Isr : 0 < Base[e]
  /\ \A t \in Task, i \in Isr : Base[t] < Base[i]
  /\ \A e, f \in Exe : Base[e] = Base[f] => e = f
  /\ Ceilings \subseteq Prio
  /\ Machines \subseteq {"v7", "v6"} /\ MaxDepth \in Nat

\* dv_calculatelevels(), and the level that shuts every IRQ (v7).
Level(p) == IF p <= MaxTaskPrio THEN 0
            ELSE 1 + Cardinality({i \in Isr : Base[i] < p})
AllShut == Level(MaxPrio)

VARIABLES
  machine,    \* which of the Machines this is
  queue,      \* dv_queue[]
  currprio,   \* dv_exe[].currprio
  currentexe, \* dv_currentexe
  mutex,      \* the mutexes held, oldest first: their owners and saved priorities
  locklevel,  \* dv_currentlocklevel
  stack,      \* see above
  request,    \* hardware: the IRQs that devices request
  pendsv,     \* hardware: PendSV is pending
  panic       \* dv_panic() was called

schedVars == <<queue, currprio, currentexe, mutex>>
cortexVars == <<machine, schedVars, locklevel, stack, request, pendsv, panic>>

Me      == currentexe
Top     == Last(stack)
Below   == Front(stack)
Goto(s) == stack' = [stack EXCEPT ![Len(stack)].pc = s]

Run(high, low) == [kind |-> "run", p |-> high, low |-> low, exe |-> currentexe]
Main(e)        == [kind |-> "exe", exe |-> e]

\* dv_runqueued_onkernelstack(): nothing happens unless high is above low.
RunQueued(s, high, low) ==
  stack' = IF high > low THEN Append(s, Run(high, low)) ELSE s

Unmasked == machine = "v6" \/ locklevel = 0
Handlers == {k \in DOMAIN stack : stack[k].kind \in {"irq", "pendsv"}}

\* The executable's own code is running; the processor goes from the last handler to
\* PendSV before it returns to thread mode.
Code == Top.kind = "exe" /\ ~(pendsv /\ Unmasked /\ Handlers = {})

-----------------------------------------------------------------------------
(* Calls of the executable that is running *)

Idling(e) == \A p \in Prio : ~Contains(queue[p], e)

ActivateTask(t) ==
  /\ Code /\ Idling(t)
  /\ queue' = [queue EXCEPT ![Base[t]] = Append(@, t)]
  /\ RunQueued(stack, Base[t], currprio[Me])
  /\ UNCHANGED <<machine, currprio, currentexe, mutex, locklevel, request, pendsv, panic>>

\* On v6 an application has no mutexes for ISRs: they would lock nothing.
TakeMutex(c) ==
  /\ Code /\ Me # Idle
  /\ c > currprio[Me]
  /\ machine = "v6" => c <= MaxTaskPrio
  /\ mutex'     = Append(mutex, [owner |-> Me, save |-> currprio[Me]])
  /\ queue'     = [queue EXCEPT ![c] = Append(@, Me)]
  /\ currprio'  = [currprio EXCEPT ![Me] = c]
  /\ locklevel' = Level(c)
  /\ UNCHANGED <<machine, currentexe, stack, request, pendsv, panic>>

DropMutex ==
  LET save == Last(mutex).save IN
  /\ Code
  /\ mutex # <<>> /\ Last(mutex).owner = Me
  /\ mutex'     = Front(mutex)
  /\ queue'     = [queue EXCEPT ![currprio[Me]] = Tail(@)]
  /\ currprio'  = [currprio EXCEPT ![Me] = save]
  /\ locklevel' = Level(save)
  /\ RunQueued(stack, currprio[Me], save)
  /\ UNCHANGED <<machine, currentexe, request, pendsv, panic>>

\* The main function returns to dv_runqueued(); an ISR has seen to its device.
Terminate ==
  /\ Code /\ Me # Idle
  /\ \A k \in DOMAIN mutex : mutex[k].owner # Me
  /\ queue'   = [queue EXCEPT ![Base[Me]] = Tail(@)]
  /\ stack'   = Below
  /\ request' = request \ {Me}
  /\ UNCHANGED <<machine, currprio, currentexe, mutex, locklevel, pendsv, panic>>

-----------------------------------------------------------------------------
(* dv_runqueued(), interrupts disabled *)

Waiting == {p \in Top.low + 1 .. Top.p : queue[p] # <<>>}

Dispatch ==
  LET p == Max(Waiting)
      e == Head(queue[p])
  IN  /\ Top.kind = "run" /\ Waiting # {}
      /\ currentexe' = e
      /\ currprio'   = [currprio EXCEPT ![e] = Base[e]]
      /\ locklevel'  = Level(Base[e])
      /\ stack'      = Append([stack EXCEPT ![Len(stack)].p = p], Main(e))
      /\ UNCHANGED <<machine, queue, mutex, request, pendsv, panic>>

Return ==
  /\ Top.kind = "run" /\ Waiting = {}
  /\ currentexe' = Top.exe
  /\ locklevel' = IF Me # Top.exe THEN Level(currprio[Top.exe]) ELSE locklevel
  /\ stack' = Below
  /\ UNCHANGED <<machine, queue, currprio, mutex, request, pendsv, panic>>

-----------------------------------------------------------------------------
(* The processor *)

Enabled(i) == machine = "v6" \/ Level(Base[i]) > locklevel
\* PRIMASK is set in dv_runqueued() and in what dv_preempt() does around it.
Interruptible ==
  \/ Top.kind \in {"exe", "irq", "pendsv"}
  \/ Top.kind = "preempt" /\ Top.pc \in {"frame", "svc"}

\* A device requests an interrupt.
DeviceRequests(i) ==
  /\ i \notin request
  /\ Len(stack) <= MaxDepth
  /\ request' = request \union {i}
  /\ UNCHANGED <<machine, schedVars, locklevel, stack, pendsv, panic>>

\* The processor enters dv_irq() for an IRQ more urgent than what it is handling.
TakeIrq(i) ==
  /\ i \in request /\ Enabled(i) /\ Interruptible
  /\ \A k \in Handlers : stack[k].kind = "irq" => Base[stack[k].isr] < Base[i]
  /\ stack' = Append(stack, [kind |-> "irq", isr |-> i, me |-> None, myp |-> 0,
                             pc |-> "save"])
  /\ UNCHANGED <<machine, schedVars, locklevel, request, pendsv, panic>>

\* PendSV is less urgent than any IRQ: it waits until all are handled and none is shut.
TakePendSV ==
  /\ pendsv /\ Unmasked /\ Interruptible
  /\ Handlers = {}
  /\ \A i \in request : ~Enabled(i)
  /\ stack' = Append(stack, [kind |-> "pendsv"])
  /\ pendsv' = FALSE
  /\ UNCHANGED <<machine, schedVars, locklevel, request, panic>>

-----------------------------------------------------------------------------
(* dv_irq(): a more urgent IRQ can come between any two steps *)

IrqSave ==
  /\ Top.kind = "irq" /\ Top.pc = "save"
  /\ stack' = [stack EXCEPT ![Len(stack)] =
                 [@ EXCEPT !.me = Me, !.myp = currprio[Me], !.pc = "raise"]]
  /\ UNCHANGED <<machine, schedVars, locklevel, request, pendsv, panic>>

\* Mutation: the priority is not raised.
RaisedNot(p) == p

\* No task starts above this priority.
Raised(p) == IF p < MaxTaskPrio THEN MaxTaskPrio ELSE p

IrqRaise ==
  /\ Top.kind = "irq" /\ Top.pc = "raise"
  /\ currprio' = [currprio EXCEPT ![Me] = Raised(@)]
  /\ Goto("vector")
  /\ UNCHANGED <<machine, queue, currentexe, mutex, locklevel, request, pendsv, panic>>

\* dv_softvector(): dv_activateexe() runs the ISR at once; an ISR that is still
\* active is refused.
IrqVector ==
  LET i == Top.isr
      s == [stack EXCEPT ![Len(stack)].pc = "restore"]
  IN
  /\ Top.kind = "irq" /\ Top.pc = "vector"
  /\ IF Idling(i)
     THEN /\ queue' = [queue EXCEPT ![Base[i]] = Append(@, i)]
          /\ RunQueued(s, Base[i], currprio[Me])
     ELSE /\ stack' = s
          /\ UNCHANGED queue
  /\ UNCHANGED <<machine, currprio, currentexe, mutex, locklevel, request, pendsv, panic>>

IrqRestore ==
  /\ Top.kind = "irq" /\ Top.pc = "restore"
  /\ IF Me # Top.me
     THEN panic' = TRUE /\ UNCHANGED <<currprio, stack>>
     ELSE /\ currprio' = [currprio EXCEPT ![Me] = Top.myp]
          /\ Goto("scan")
          /\ UNCHANGED panic
  /\ UNCHANGED <<machine, queue, currentexe, mutex, locklevel, request, pendsv>>

\* Mutation: the scan stops one priority too high.
AwokenAboveNext == {p \in Top.myp + 2 .. MaxTaskPrio : queue[p] # <<>>}

\* The priorities of the tasks that have become ready above the interrupted code.
Awoken == {p \in Top.myp + 1 .. MaxTaskPrio : queue[p] # <<>>}

IrqScan ==
  /\ Top.kind = "irq" /\ Top.pc = "scan"
  /\ pendsv' = (pendsv \/ Awoken # {})
  /\ stack'  = Below
  /\ UNCHANGED <<machine, schedVars, locklevel, request, panic>>

-----------------------------------------------------------------------------
(* dv_pendsvtrap(), dv_preempt() and dv_svctrap() *)

LockedAll == locklevel' = IF machine = "v7" THEN AllShut ELSE 0

\* The exception returns to a frame of its own making.
PendSVTrap ==
  /\ Top.kind = "pendsv"
  /\ LockedAll
  /\ pendsv' = FALSE
  /\ stack' = Append(Below, [kind |-> "preempt", pc |-> "frame"])
  /\ UNCHANGED <<machine, schedVars, request, panic>>

\* dv_disable(), then dv_runqueued() down to the interrupted executable's priority.
Preempt ==
  /\ Top.kind = "preempt" /\ Top.pc = "frame"
  /\ RunQueued([stack EXCEPT ![Len(stack)].pc = "unwind"], MaxTaskPrio, currprio[Me])
  /\ UNCHANGED <<machine, schedVars, locklevel, request, pendsv, panic>>

\* Everything is locked again before interrupts are enabled for the SVC.
Unwind ==
  /\ Top.kind = "preempt" /\ Top.pc = "unwind"
  /\ LockedAll
  /\ Goto("svc")
  /\ UNCHANGED <<machine, schedVars, request, pendsv, panic>>

\* The frame is taken off the stack; the interrupted code was at level 0.
SvcTrap ==
  /\ Top.kind = "preempt" /\ Top.pc = "svc"
  /\ locklevel' = 0
  /\ stack' = Below
  /\ UNCHANGED <<machine, schedVars, request, pendsv, panic>>

-----------------------------------------------------------------------------
CortexInit ==
  /\ machine \in Machines
  /\ queue = [p \in Prio |-> IF p = 0 THEN <<Idle>> ELSE <<>>]
  /\ currprio = Base
  /\ currentexe = Idle
  /\ mutex = <<>>
  /\ locklevel = 0
  /\ stack = <<Main(Idle)>>
  /\ request = {} /\ pendsv = FALSE /\ panic = FALSE

CortexNext ==
  /\ ~panic
  /\ \/ \E t \in Task : ActivateTask(t)
     \/ \E c \in Ceilings : TakeMutex(c)
     \/ DropMutex
     \/ Terminate
     \/ Dispatch
     \/ Return
     \/ \E i \in Isr : DeviceRequests(i)
     \/ \E i \in Isr : TakeIrq(i)
     \/ TakePendSV
     \/ IrqSave
     \/ IrqRaise
     \/ IrqVector
     \/ IrqRestore
     \/ IrqScan
     \/ PendSVTrap
     \/ Preempt
     \/ Unwind
     \/ SvcTrap

CortexSpec == CortexInit /\ [][CortexNext]_cortexVars

-----------------------------------------------------------------------------
\* Tasks run in thread mode and ISRs in handler mode, on the stack that belongs to it,
\* whatever nests: no task is started inside an interrupt, and dv_irq() always finds the
\* executable it has interrupted (its check "current executable changed" never fails).
ModeOfExe ==
  /\ ~panic
  /\ \A k \in DOMAIN stack : stack[k].kind = "exe" =>
       (stack[k].exe \in Isr <=> \E h \in Handlers : h < k)

\* A task that an ISR has made ready is not forgotten: code at a priority below it runs
\* in thread mode only until the processor gets to PendSV (dv_irq(), dv_preempt()).
NoMissedPreemption ==
  Code /\ Handlers = {} /\ ~pendsv =>
    \A p \in currprio[Me] + 1 .. MaxPrio : queue[p] = <<>>

\* The code of an executable runs at the lock level and the priority it had before it
\* was interrupted: its base priority, or the ceiling of the mutex it holds; what it
\* shares with an ISR stays locked.
LevelRestored ==
  Code => /\ locklevel = Level(currprio[Me])
          /\ Handlers = {} => currprio[Me] =
               IF mutex # <<>> /\ Last(mutex).owner = Me
               THEN Max({p \in Prio : Contains(queue[p], Me)}) ELSE Base[Me]

\* What the dispatcher fabricates and unwinds leaves every executable in its mode, on
\* its stack, at its level (dv_irq(), dv_cortexm_pendsvc(), dv_cortexm_svctrap()).
Dispatched == ModeOfExe /\ LevelRestored
=============================================================================
