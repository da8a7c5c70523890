------------------------------ MODULE Davroska ------------------------------
(***************************************************************************)
(* The davroska kernel of src/davroska/c/davroska.c: executables (tasks,   *)
(* ISRs and the idle loop), the per-priority FIFO queues, the recursive    *)
(* single-stack scheduler dv_runqueued(), and mutexes with an immediate    *)
(* priority ceiling.  The build is the one without extended tasks          *)
(* (DV_CFG_MAXEXTENDED <= 0), where dv_runqueued_onkernelstack() is        *)
(* dv_runqueued() itself.                                                  *)
(*                                                                         *)
(* There is one CPU.  Kernel code runs with interrupts disabled, so a      *)
(* kernel call is a run of deterministic steps (pc # "app") that nothing   *)
(* interleaves with; while an executable's own code runs (pc = "app") it   *)
(* may make any call, and any unmasked interrupt may arrive.               *)
(*                                                                         *)
(* An API call that is refused (dv_e_id, dv_e_limit, dv_e_access,          *)
(* dv_e_nesting, dv_e_nofunc) changes nothing: it is a stuttering step,    *)
(* and the guards of the actions are the negated refusals.                 *)
(*                                                                         *)
(* The operators whose comment starts with "Mutation:" are used nowhere.   *)
(* Each is a plausible bug in the definition that follows it, and breaks   *)
(* the properties that PROJECT.json names for it.                          *)
(***************************************************************************)
EXTENDS Integers, Sequences, FiniteSets, FiniteSetsExt, SequencesExt

CONSTANTS
  Idle,      \* executable 0, the idle loop
  Task,      \* the tasks (ids 1 .. dv_ntask-1)
  Isr,       \* the interrupt service routines (ids dv_ntask .. dv_nexe-1)
  Mutex,     \* the mutexes
  None,      \* the id -1
  MaxPrio,   \* DV_CFG_MAXPRIO: the kernel's own priority, above all others
  BasePrio,  \* dv_exe[e].baseprio
  RunPrio,   \* dv_exe[e].runprio: raised above baseprio by dv_finishgroup()
  MaxAct,    \* dv_exe[e].maxact
  Ceiling,   \* dv_mutex[m].ceiling
  MaxTake,   \* dv_mutex[m].maxtake
  Liberties  \* the rules of OSEK that the application does not keep

Exe  == {Idle} \union Task \union Isr
Prio == 0 .. MaxPrio

\* Two rules of OSEK that dv_dropmutex() and dv_terminatetask() do not enforce:
\* a mutex is dropped for the last time only when it is the one most recently
\* taken (the comment above dv_dropmutex demands it), and an executable has
\* dropped its mutexes when it ends (davroska's documents lift this rule).
OutOfOrderDrop     == "drops out of order"
ExitHoldingMutex   == "exits holding a mutex"

ASSUME ExeAssumption ==
  /\ Idle \notin Task /\ Idle \notin Isr /\ Task \cap Isr = {}
  /\ None \notin Exe /\ None \notin Mutex
  /\ IsFiniteSet(Exe)

\* dv_addexe() and dv_addisr() refuse other priorities.
ASSUME PrioAssumption ==
  /\ MaxPrio \in Nat \ {0}
  /\ BasePrio \in [Exe -> 0 .. MaxPrio - 1]
  /\ BasePrio[Idle] = 0
  /\ \A e \in Task \union Isr : BasePrio[e] > 0
  /\ \A t \in Task, i \in Isr : BasePrio[t] < BasePrio[i]

\* dv_finishgroup() only raises runprio, to the base priority of some executable.
ASSUME RunPrioAssumption ==
  /\ RunPrio \in [Exe -> 0 .. MaxPrio - 1]
  /\ \A e \in Exe : RunPrio[e] >= BasePrio[e]
  /\ RunPrio[Idle] = 0

ASSUME MaxActAssumption ==
  /\ MaxAct \in [Exe -> Nat \ {0}]
  /\ \A e \in Isr \union {Idle} : MaxAct[e] = 1

\* dv_addmutexuser(): a ceiling is the base priority of one of the users.
ASSUME MutexAssumption ==
  /\ Ceiling \in [Mutex -> 0 .. MaxPrio - 1]
  /\ MaxTake \in [Mutex -> Nat \ {0}]

ASSUME LibertiesAssumption == Liberties \subseteq {OutOfOrderDrop, ExitHoldingMutex}

-----------------------------------------------------------------------------
(* dv_createqueues() and dv_calculatelevels(): the tables of the start-up. *)

\* What may be activated at base priority p at a time
Activations(p) == UNION {{e} \X (1 .. MaxAct[e]) : e \in {x \in Exe : BasePrio[x] = p}}

\* Length of the ring buffer of priority p (dv_startos(), dv_addexe()): the
\* gap, one raised executable, and every activation at that base priority.
NSlots(p) == 2 + Cardinality(Activations(p))

\* The interrupt lock level of queue p: 0 up to the highest task, then one
\* more for each ISR priority below p.
Level(p) == IF p = 0 \/ \E t \in Task : p <= BasePrio[t] THEN 0
            ELSE 1 + Cardinality({q \in 1 .. p - 1 :
                                     \E i \in Isr : BasePrio[i] = q})
LockAll == MaxPrio + 1

VARIABLES
  queue,       \* dv_queue: for each priority the executables queued, head first
  nact,        \* dv_exe[e].nact: activations not yet finished
  state,       \* dv_exe[e].state
  currprio,    \* dv_exe[e].currprio
  mutexlist,   \* dv_exe[e].mutexlist: head of the list of mutexes held
  jb,          \* dv_exe[e].jb: the frame its termination jumps to, 0 = DV_NULL
  owner,       \* dv_mutex[m].owner
  ntake,       \* dv_mutex[m].ntake
  next,        \* dv_mutex[m].next
  saveprio,    \* dv_mutex[m].saveprio
  currentexe,  \* dv_currentexe
  irqlevel,    \* the level last given to dv_setirqlevel()
  frames,      \* the activations of dv_runqueued() on the stack, oldest first
  pending,     \* the IRQs that dv_catch_irq() has still to vector
  pc,          \* which code is running
  panic        \* the reason given to dv_panic(), "none" while the system runs

exeVars   == <<nact, state, currprio, mutexlist, jb>>
mutexVars == <<owner, ntake, next, saveprio>>
cpuVars   == <<currentexe, irqlevel, frames, pending, pc>>
vars      == <<queue, exeVars, mutexVars, cpuVars, panic>>

\* pc = "app":     code of currentexe, interrupts enabled
\*      "chained": currentexe in dv_chaintask(), between the activation (which
\*                 enabled interrupts again) and the longjmp
\*      "irq":     the vector loop of dv_catch_irq()
\*      "raised":  between dv_raiseprio() and dv_lowerprio()
\*      "sched":   the loop of dv_runqueued() of the newest frame
\*      "exit":    the part of dv_runqueued() after an executable's end
Pcs == {"app", "chained", "irq", "raised", "sched", "exit"}
Panics == {"none", "QueueOverflow", "QueueCorrupt", "MutexOccupied", "CurrentExeDead"}

\* Mutation: the two bounds are passed in the wrong order.
FrameSwapped(high, low, ret, relevel) ==
  [exe |-> currentexe, p |-> low, low |-> high, e |-> None, eprio |-> 0,
   ret |-> ret, relevel |-> relevel]

\* The locals of one activation of dv_runqueued() and of the call it serves:
\* the caller exe, the scan position p, the bound low, the executable e it has
\* started (None before the first), the priority eprio it started it at, the
\* code to return to, and whether the call sets the IRQ level on its return.
Frame(high, low, ret, relevel) ==
  [exe |-> currentexe, p |-> high, low |-> low, e |-> None, eprio |-> 0,
   ret |-> ret, relevel |-> relevel]

Top == frames[Len(frames)]
Me  == currentexe

-----------------------------------------------------------------------------
(* dv_enqueue(), dv_qhead(), dv_dequeue() and dv_panic()                   *)

\* Mutation: the newest entry is put first.
EnqueueFront(q, p, e) == [q EXCEPT ![p] = <<e>> \o @]

\* A ring buffer of n slots holds n-1 entries; dv_enqueue() panics when its
\* tail catches up with its head.
Full(q, p)       == Len(q[p]) + 1 >= NSlots(p)
Enqueue(q, p, e) == [q EXCEPT ![p] = Append(@, e)]
IsHead(q, p, e)  == q[p] # <<>> /\ Head(q[p]) = e
Dequeue(q, p)    == [q EXCEPT ![p] = Tail(@)]

\* dv_panic() never returns; what the failing call changed before is dropped.
Panic(reason) == /\ panic' = reason
                 /\ UNCHANGED <<queue, exeVars, mutexVars, cpuVars>>

\* The call dv_runqueued(high, low, is) that ends an API function.  When
\* high <= low its loop is not entered and it returns with nothing changed.
RunQueued(high, low, ret) ==
  IF high > low THEN /\ frames' = Append(frames, Frame(high, low, ret, FALSE))
                     /\ pc' = "sched"
                ELSE /\ pc' = ret
                     /\ UNCHANGED frames

-----------------------------------------------------------------------------
(* Activation: dv_activateexe(), dv_activatetask()                         *)

\* Self-activation does not change the state.
StateActivated(t) == IF state[t] = "running" THEN state
                     ELSE [state EXCEPT ![t] = "ready"]

\* Mutation: preempts on the caller's base priority.
ActivateFromBase(t, ret) ==
  /\ nact'  = [nact EXCEPT ![t] = @ + 1]
  /\ state' = StateActivated(t)
  /\ queue' = Enqueue(queue, BasePrio[t], t)
  /\ RunQueued(BasePrio[t], BasePrio[Me], ret)
  /\ UNCHANGED <<currprio, mutexlist, jb, mutexVars, currentexe, irqlevel, panic>>

\* dv_activateexe2(), after it found room in the queue
Activate(t, ret) ==
  /\ nact'  = [nact EXCEPT ![t] = @ + 1]
  /\ state' = StateActivated(t)
  /\ queue' = Enqueue(queue, BasePrio[t], t)
  /\ RunQueued(BasePrio[t], currprio[Me], ret)
  /\ UNCHANGED <<currprio, mutexlist, jb, mutexVars, currentexe, irqlevel, panic>>

\* Mutation: one activation too many.
CanActivateOneMore(t) == nact[t] <= MaxAct[t]

\* dv_activateexe(): at most maxact activations at a time.
CanActivate(t) == nact[t] < MaxAct[t]

\* Called by an executable, by an alarm's expiry function, or in autostart.
ActivateTask(t) ==
  /\ pc \in {"app", "raised"}
  /\ CanActivate(t)
  /\ IF Full(queue, BasePrio[t])
     THEN Panic("QueueOverflow")
     ELSE Activate(t, pc) /\ UNCHANGED pending

-----------------------------------------------------------------------------
(* Termination: dv_terminatetask(), dv_chaintask(), return from the main   *)
(* function                                                                *)

\* The idle loop does not end, and an executable that holds a mutex ends only
\* in an application that takes this liberty.
MayExit == /\ Me # Idle
           /\ \/ ExitHoldingMutex \in Liberties
              \/ mutexlist[Me] = None

\* Mutation: jumps to the frame below.
LongjmpTooFar == /\ frames' = SubSeq(frames, 1, jb[Me] - 1)
                 /\ pc' = "exit"

\* dv_longjmp(*dv_exe[dv_currentexe].jb): every younger frame is discarded.
LongjmpToExit == /\ frames' = SubSeq(frames, 1, jb[Me])
                 /\ pc' = "exit"

TerminateTask ==
  /\ pc = "app"
  /\ MayExit
  /\ IF jb[Me] = 0
     THEN Panic("CurrentExeDead")
     ELSE /\ LongjmpToExit
          /\ UNCHANGED <<queue, exeVars, mutexVars, currentexe, irqlevel, pending, panic>>

\* (*dv_exe[e].func)() returns into the frame that called it.
ReturnFromMain ==
  /\ pc = "app"
  /\ MayExit
  /\ frames # <<>>
  /\ pc' = "exit"
  /\ UNCHANGED <<queue, exeVars, mutexVars, currentexe, irqlevel, frames, pending, panic>>

\* dv_chaintask() up to the return of dv_activateexe2(): the activation limit
\* is not checked for the caller itself, and the caller is still alive.
ChainTask(t) ==
  /\ pc = "app"
  /\ MayExit
  /\ t = Me \/ CanActivate(t)
  /\ IF jb[Me] = 0 THEN Panic("CurrentExeDead")
     ELSE IF Full(queue, BasePrio[t]) THEN Panic("QueueOverflow")
     ELSE Activate(t, "chained") /\ UNCHANGED pending

\* ... and its longjmp
ChainExit ==
  /\ pc = "chained"
  /\ LongjmpToExit
  /\ UNCHANGED <<queue, exeVars, mutexVars, currentexe, irqlevel, pending, panic>>

-----------------------------------------------------------------------------
(* Mutexes: dv_takemutex(), dv_dropmutex()                                 *)

TakeAgain(m) ==
  /\ ntake[m] < MaxTake[m]
  /\ ntake' = [ntake EXCEPT ![m] = @ + 1]
  /\ UNCHANGED <<queue, exeVars, owner, next, saveprio, cpuVars, panic>>

\* The caller moves to the ceiling's queue only if its priority increases.
TakeFree(m) ==
  LET raises == currprio[Me] < Ceiling[m] IN
  IF raises /\ Full(queue, Ceiling[m]) THEN Panic("QueueOverflow")
  ELSE
  /\ owner'     = [owner EXCEPT ![m] = Me]
  /\ ntake'     = [ntake EXCEPT ![m] = 1]
  /\ next'      = [next EXCEPT ![m] = mutexlist[Me]]
  /\ mutexlist' = [mutexlist EXCEPT ![Me] = m]
  /\ saveprio'  = [saveprio EXCEPT ![m] = currprio[Me]]
  /\ IF raises
     THEN /\ currprio' = [currprio EXCEPT ![Me] = Ceiling[m]]
          /\ queue'    = Enqueue(queue, Ceiling[m], Me)
          /\ irqlevel' = Level(Ceiling[m])
     ELSE UNCHANGED <<currprio, queue, irqlevel>>
  /\ UNCHANGED <<nact, state, jb, currentexe, frames, pending, pc, panic>>

TakeMutex(m) ==
  /\ pc = "app"
  /\ Ceiling[m] >= BasePrio[Me]
  /\ CASE owner[m] = Me   -> TakeAgain(m)
       [] owner[m] = None -> TakeFree(m)
       [] OTHER           -> Panic("MutexOccupied")

DropOnce(m) ==
  /\ ntake[m] > 1
  /\ ntake' = [ntake EXCEPT ![m] = @ - 1]
  /\ UNCHANGED <<queue, exeVars, owner, next, saveprio, cpuVars, panic>>

\* Nothing checks that m is the head of the caller's list: the list is cut
\* after m and the priority saved in m is restored, whatever was taken since.
DropLast(m) ==
  LET lowers == saveprio[m] < Ceiling[m] IN
  /\ ntake[m] <= 1
  /\ OutOfOrderDrop \in Liberties \/ mutexlist[Me] = m
  /\ IF lowers /\ ~IsHead(queue, Ceiling[m], Me) THEN Panic("QueueCorrupt")
     ELSE
     /\ ntake'     = [ntake EXCEPT ![m] = 0]
     /\ owner'     = [owner EXCEPT ![m] = None]
     /\ mutexlist' = [mutexlist EXCEPT ![Me] = next[m]]
     /\ next'      = [next EXCEPT ![m] = None]
     /\ currprio'  = [currprio EXCEPT ![Me] = saveprio[m]]
     /\ IF lowers
        THEN /\ irqlevel' = Level(saveprio[m])
             /\ queue'    = Dequeue(queue, Ceiling[m])
             /\ RunQueued(Ceiling[m], saveprio[m], "app")
        ELSE UNCHANGED <<irqlevel, queue, frames, pc>>
     /\ UNCHANGED <<nact, state, jb, saveprio, currentexe, pending, panic>>

DropMutex(m) ==
  /\ pc = "app"
  /\ owner[m] = Me
  /\ DropOnce(m) \/ DropLast(m)

-----------------------------------------------------------------------------
(* The scheduler: dv_runqueued()                                           *)

\* Mutation: the scan starts one queue too low.
WaitingBelow == {p \in Top.low + 1 .. Top.p - 1 : queue[p] # <<>>}
\* The scan of the queues from p down to low stops at the first that is not empty.
Waiting == {p \in Top.low + 1 .. Top.p : queue[p] # <<>>}

\* An executable runs at its runprio; if that is above its baseprio it also
\* takes a place in the queue of its runprio.
QueueStarted(e) == IF BasePrio[e] < RunPrio[e] THEN Enqueue(queue, RunPrio[e], e)
                                                ELSE queue

\* The caller is preempted when the first executable is started.
StateStarted(e) ==
  [state EXCEPT ![Top.exe] = IF @ = "running" THEN "ready" ELSE @, ![e] = "running"]

Start(p, e) ==
  IF BasePrio[e] < RunPrio[e] /\ Full(queue, RunPrio[e]) THEN Panic("QueueOverflow")
  ELSE
  /\ frames'     = [frames EXCEPT ![Len(frames)].p = p, ![Len(frames)].e = e,
                                  ![Len(frames)].eprio = RunPrio[e]]
  /\ queue'      = QueueStarted(e)
  /\ state'      = StateStarted(e)
  /\ currentexe' = e
  /\ currprio'   = [currprio EXCEPT ![e] = RunPrio[e]]
  /\ jb'         = [jb EXCEPT ![e] = Len(frames)]
  /\ irqlevel'   = Level(RunPrio[e])
  /\ pc'         = "app"
  /\ UNCHANGED <<nact, mutexlist, mutexVars, pending, panic>>

\* Start the head of the highest queue that is not empty.
Dispatch ==
  /\ pc = "sched"
  /\ Waiting # {}
  /\ LET p == Max(Waiting)
     IN  IF Head(queue[p]) = Idle THEN Panic("QueueCorrupt")
                                  ELSE Start(p, Head(queue[p]))

\* Nothing above low is left: back to the caller, which becomes running again
\* if another executable has run.
Return ==
  /\ pc = "sched"
  /\ Waiting = {}
  /\ frames'     = SubSeq(frames, 1, Len(frames) - 1)
  /\ currentexe' = Top.exe
  /\ state'      = IF Me # Top.exe THEN [state EXCEPT ![Top.exe] = "running"] ELSE state
  /\ irqlevel'   = IF Me # Top.exe \/ Top.relevel THEN Level(currprio[Top.exe])
                                                  ELSE irqlevel
  /\ pc'         = Top.ret
  /\ UNCHANGED <<queue, nact, currprio, mutexlist, jb, mutexVars, pending, panic>>

\* The end of an executable: its mutexes are released, head of the list first ...
ReleaseMutex ==
  LET e == Top.e
      m == mutexlist[e]
      lowers == saveprio[m] < Ceiling[m]
  IN
  /\ pc = "exit"
  /\ m # None
  /\ IF lowers /\ ~IsHead(queue, Ceiling[m], e) THEN Panic("QueueCorrupt")
     ELSE
     /\ mutexlist' = [mutexlist EXCEPT ![e] = next[m]]
     /\ ntake'     = [ntake EXCEPT ![m] = 0]
     /\ owner'     = [owner EXCEPT ![m] = None]
     /\ next'      = [next EXCEPT ![m] = None]
     /\ currprio'  = [currprio EXCEPT ![e] = saveprio[m]]
     /\ queue'     = IF lowers THEN Dequeue(queue, Ceiling[m]) ELSE queue
     /\ UNCHANGED <<nact, state, jb, saveprio, cpuVars, panic>>

\* ... then it leaves the queue of its runprio and that of its baseprio.  The
\* scan goes on from where it was: p is not raised again.
AfterRunPrio(e) == IF Top.eprio # BasePrio[e] THEN Dequeue(queue, Top.eprio) ELSE queue

StateEnded(e) == [state EXCEPT ![e] = IF nact[e] <= 1 THEN "suspended" ELSE "ready"]

FinishExit ==
  LET e == Top.e
      q == AfterRunPrio(e)
  IN
  /\ pc = "exit"
  /\ mutexlist[e] = None
  /\ IF \/ Top.eprio # BasePrio[e] /\ ~IsHead(queue, Top.eprio, e)
        \/ ~IsHead(q, BasePrio[e], e)
     THEN Panic("QueueCorrupt")
     ELSE
     /\ queue'    = Dequeue(q, BasePrio[e])
     /\ nact'     = [nact EXCEPT ![e] = @ - 1]
     /\ state'    = StateEnded(e)
     /\ currprio' = [currprio EXCEPT ![e] = BasePrio[e]]
     /\ jb'       = [jb EXCEPT ![e] = 0]
     /\ pc'       = "sched"
     /\ UNCHANGED <<mutexlist, mutexVars, currentexe, irqlevel, frames, pending, panic>>

-----------------------------------------------------------------------------
(* Interrupts: dv_catch_irq() of hardware/arm64 and hardware/arm           *)

\* An IRQ has the level of its ISR's queue; it is enabled when that is not
\* below the lock level (dv_config_irq(), dv_setirqlevel()).
Enabled(i) == Level(BasePrio[i]) >= irqlevel

\* The priority of the interrupted executable is kept in low, and is above
\* everything while the IRQs are vectored.
CatchIrq ==
  /\ pc \in {"app", "chained"}
  /\ \E S \in SUBSET {i \in Isr : Enabled(i)} :
       /\ S # {}
       /\ pending' = S
  /\ frames'   = Append(frames, Frame(MaxPrio, currprio[Me], pc, TRUE))
  /\ currprio' = [currprio EXCEPT ![Me] = MaxPrio + 1]
  /\ pc'       = "irq"
  /\ UNCHANGED <<queue, nact, state, mutexlist, jb, mutexVars, currentexe, irqlevel, panic>>

\* Mutation: an IRQ whose activation is refused is vectored again.
VectorIrqAgain(i) ==
  /\ pc = "irq"
  /\ i \in pending
  /\ IF ~CanActivate(i)
     THEN UNCHANGED vars
     ELSE /\ pending' = pending \ {i}
          /\ Activate(i, "irq")

\* dv_softvector() calls dv_activateexe(); an ISR that is still active keeps
\* its one activation and the new one is lost (dv_e_limit).
VectorIrq(i) ==
  /\ pc = "irq"
  /\ i \in pending
  /\ IF ~CanActivate(i)
     THEN /\ pending' = pending \ {i}
          /\ UNCHANGED <<queue, exeVars, mutexVars, currentexe, irqlevel, frames, pc, panic>>
     ELSE IF Full(queue, BasePrio[i])
     THEN Panic("QueueOverflow")
     ELSE /\ pending' = pending \ {i}
          /\ Activate(i, "irq")

IrqDone ==
  /\ pc = "irq"
  /\ pending = {}
  /\ IF Me # Top.exe THEN Panic("QueueCorrupt")
     ELSE /\ currprio' = [currprio EXCEPT ![Me] = Top.low]
          /\ pc' = "sched"
          /\ UNCHANGED <<queue, nact, state, mutexlist, jb, mutexVars, currentexe,
                         irqlevel, frames, pending, panic>>

-----------------------------------------------------------------------------
(* Start-up and dv_advancecounter(): activations in batches                *)

\* dv_advancecounter() up to dv_raiseprio(): the alarms' expiry functions are
\* called at the highest priority, so that what they activate waits.
RaisePrio ==
  /\ pc = "app"
  /\ currprio[Me] < MaxPrio
  /\ IF Full(queue, MaxPrio) THEN Panic("QueueOverflow")
     ELSE /\ frames'   = Append(frames, Frame(MaxPrio - 1, currprio[Me], "app", FALSE))
          /\ currprio' = [currprio EXCEPT ![Me] = MaxPrio]
          /\ queue'    = Enqueue(queue, MaxPrio, Me)
          /\ pc'       = "raised"
          /\ UNCHANGED <<nact, state, mutexlist, jb, mutexVars, currentexe, irqlevel,
                         pending, panic>>

\* dv_lowerprio() and the call of dv_runqueued() after it
LowerPrio ==
  /\ pc = "raised"
  /\ IF ~IsHead(queue, MaxPrio, Me) THEN Panic("QueueCorrupt")
     ELSE /\ queue'    = Dequeue(queue, MaxPrio)
          /\ currprio' = [currprio EXCEPT ![Me] = Top.low]
          /\ pc'       = "sched"
          /\ UNCHANGED <<nact, state, mutexlist, jb, mutexVars, currentexe, irqlevel,
                         frames, pending, panic>>

\* dv_startos() before callout_autostart(): the idle loop is running, raised,
\* in its own queue and in the highest one; every interrupt is masked.
Init ==
  /\ queue      = [p \in Prio |-> IF p \in {0, MaxPrio} THEN <<Idle>> ELSE <<>>]
  /\ nact       = [e \in Exe |-> IF e = Idle THEN 1 ELSE 0]
  /\ state      = [e \in Exe |-> IF e = Idle THEN "running" ELSE "suspended"]
  /\ currprio   = [e \in Exe |-> IF e = Idle THEN MaxPrio ELSE BasePrio[e]]
  /\ mutexlist  = [e \in Exe |-> None]
  /\ jb         = [e \in Exe |-> 0]
  /\ owner      = [m \in Mutex |-> None]
  /\ ntake      = [m \in Mutex |-> 0]
  /\ next       = [m \in Mutex |-> None]
  /\ saveprio   = [m \in Mutex |-> -1]
  /\ currentexe = Idle
  /\ irqlevel   = LockAll
  /\ frames     = <<[exe |-> Idle, p |-> MaxPrio - 1, low |-> 0, e |-> None,
                     eprio |-> 0, ret |-> "app", relevel |-> TRUE]>>
  /\ pending    = {}
  /\ pc         = "raised"
  /\ panic      = "none"

-----------------------------------------------------------------------------
(* The code of an executable decides what to call; the kernel then runs.   *)

Call == \/ \E t \in Task : ActivateTask(t) \/ ChainTask(t)
        \/ \E m \in Mutex : TakeMutex(m) \/ DropMutex(m)
        \/ RaisePrio

End == TerminateTask \/ ReturnFromMain

Kernel == \/ Dispatch \/ Return \/ ReleaseMutex \/ FinishExit
          \/ ChainExit \/ LowerPrio \/ IrqDone \/ \E i \in Isr : VectorIrq(i)

Next == /\ panic = "none"
        /\ Call \/ End \/ CatchIrq \/ Kernel

Spec == Init /\ [][Next]_vars

-----------------------------------------------------------------------------
(* Properties                                                              *)

FrameType == [exe : Exe, p : 0 .. MaxPrio, low : 0 .. MaxPrio - 1,
              e : Exe \union {None}, eprio : 0 .. MaxPrio - 1,
              ret : {"app", "chained"}, relevel : BOOLEAN]

\* Every variable has its type: the bound that a frame of dv_runqueued() keeps is
\* a priority of executables and never one the kernel raised its caller to.
TypeOK ==
  /\ queue \in [Prio -> Seq(Exe)]
  /\ nact \in [Exe -> Int]
  /\ state \in [Exe -> {"suspended", "ready", "running"}]
  /\ currprio \in [Exe -> 0 .. MaxPrio + 1]
  /\ mutexlist \in [Exe -> Mutex \union {None}]
  /\ jb \in [Exe -> Nat]
  /\ owner \in [Mutex -> Exe \union {None}]
  /\ ntake \in [Mutex -> Nat]
  /\ next \in [Mutex -> Mutex \union {None}]
  /\ saveprio \in [Mutex -> -1 .. MaxPrio - 1]
  /\ currentexe \in Exe
  /\ irqlevel \in Nat
  /\ frames \in Seq(FrameType)
  /\ pending \in SUBSET Isr
  /\ pc \in Pcs
  /\ panic \in Panics

\* Code of an executable is running: it is currentexe, at its own priority.
Running == pc \in {"app", "chained"}

\* "Executables run strictly according to priority": while an executable's code
\* runs, nothing is queued at a priority above its current one, so whatever has
\* been activated, released by a mutex, or left over by an ended executable and
\* is more urgent has run first.
StrictPriority ==
  Running => \A p \in Prio : p > currprio[Me] => queue[p] = <<>>

\* No internal consistency check of the kernel ever fails: the queues are long
\* enough, raised executables leave them in the order they expect, a mutex is
\* never found occupied and every termination has an anchor.
NoPanic == panic = "none"

\* The ceiling keeps others out: while an executable owns a mutex, only
\* executables above the ceiling can run, and they may not take it.
MutualExclusion ==
  pc = "app" => \A m \in Mutex : owner[m] \notin {None, Me} => BasePrio[Me] > Ceiling[m]

\* No activation is lost or duplicated by preemption, chaining, priority raising
\* or termination: each one not yet finished has its one place in the queue of
\* the executable's base priority.
Queued(e, p)     == Cardinality({i \in DOMAIN queue[p] : queue[p][i] = e})
NoLostActivation == \A e \in Exe : nact[e] = Queued(e, BasePrio[e])

\* The state that callouts see is right: exactly the executable whose code runs
\* is "running", and the suspended ones are those without an activation.
StateMatches ==
  /\ Running => \A e \in Exe : (state[e] = "running") <=> (e = Me)
  /\ \A e \in Exe : (state[e] = "suspended") <=> (nact[e] = 0)

\* While code of an executable runs, the interrupt lock level is that of its
\* current priority: an ISR above it can come in, an ISR below it cannot.
LevelMatches == Running => irqlevel = Level(currprio[Me])

\* dv_terminatetask() and dv_chaintask() land in the frame that started the
\* caller, whatever has been nested and unwound since; no executable is started
\* a second time while it is preempted.
JumpTarget ==
  /\ Running /\ Me # Idle => jb[Me] = Len(frames)
  /\ \A e \in Exe : jb[e] # 0 => jb[e] <= Len(frames) /\ frames[jb[e]].e = e

\* dv_runqueued() calls itself through preemption, but never deeper than there
\* are priorities.
NestingBound == Len(frames) <= MaxPrio

\* A mutex is held only by an executable that has started and not ended: the
\* kernel takes back what an ended executable held.
HeldByLive == pc # "exit" => \A m \in Mutex : owner[m] # None =>
                 (owner[m] = Idle \/ jb[owner[m]] # 0)

\* A step that starts an executable starts one whose base priority is above the
\* current priority of every executable that it preempts.
OnlyHigherPreempts ==
  [][(pc = "sched" /\ pc' = "app" /\ Len(frames') = Len(frames)) =>
       \A i \in 1 .. Len(frames) : BasePrio[currentexe'] > currprio[frames[i].exe]]_vars

\* The nesting of dv_runqueued() is sound: what runs on it runs at its own lock level,
\* every termination lands in the frame that started the caller, and it never goes
\* deeper than there are priorities.
FramesSound == JumpTarget /\ NestingBound /\ LevelMatches
=============================================================================
