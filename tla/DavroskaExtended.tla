-------------------------- MODULE DavroskaExtended --------------------------
(***************************************************************************)
(* Extended tasks and events: src/davroska/c/davroska-extended.c, composed *)
(* with the kernel of module Davroska (the build with                      *)
(* DV_CFG_MAXEXTENDED > 0).                                                *)
(*                                                                         *)
(* An extended task runs on a stack of its own and may wait for events: it *)
(* then leaves the queues as if it had ended, but keeps its activation and *)
(* its context.  dv_runqueued() runs on the kernel stack only.  When an    *)
(* extended task, or an interrupt of it, needs it, the call jumps back to  *)
(* the kernel stack through the anchor *dv_kjmpbuf, which dv_runextended() *)
(* has left in the frame of the dv_runqueued() that started the task.      *)
(*                                                                         *)
(* A longjmp through an anchor whose frame has been left is undefined; the *)
(* model stops there (wild # "no").                                        *)
(***************************************************************************)
EXTENDS Davroska

CONSTANTS
  Extended,       \* the extended tasks
  Event           \* the events, the bits of dv_eventmask_t

\* dv_addextendedtask() adds tasks of one activation.
ASSUME ExtendedAssumption ==
  /\ Extended \subseteq Task
  /\ \A t \in Extended : MaxAct[t] = 1

VARIABLES
  events,         \* dv_extended[t].events_pending
  awaited,        \* dv_extended[t].events_awaited
  saved,          \* the extended tasks with a context: dv_extended[t].jb # DV_NULL
  onkernelstack,  \* dv_onkernelstack
  kjmpbuf,        \* dv_kjmpbuf: the frame that holds the anchor, 0 = DV_NULL
  wild            \* why a jump has used an anchor that was gone, "no" before

eventVars == <<events, awaited, saved>>
stackVars == <<onkernelstack, kjmpbuf, wild>>
allVars   == <<vars, eventVars, stackVars>>

\* What a task can wait for, set or clear; an empty mask has no effect.
Mask == (SUBSET Event) \ {{}}

-----------------------------------------------------------------------------
(* The two stacks                                                          *)

\* The anchor must be in the frame that has started the caller.
WildAnchor == IF ~onkernelstack /\ kjmpbuf # jb[Me] THEN "anchor" ELSE wild

\* Mutation: the flag is not set when the kernel stack takes the message.
HopUnmarked == /\ wild' = WildAnchor
               /\ UNCHANGED <<onkernelstack, kjmpbuf>>

\* dv_runqueued_onkernelstack(): a caller on a private stack jumps to the anchor.
Hop == /\ wild' = WildAnchor
       /\ onkernelstack' = (onkernelstack \/ pc' = "sched")
       /\ UNCHANGED kjmpbuf

\* A call that ends in dv_runqueued_onkernelstack(), unless it panics before.
HopUnlessPanic == IF panic' = "none" THEN Hop ELSE UNCHANGED stackVars

\* A longjmp to the frame that started the caller: dv_set_onkernelstack().
Land == /\ onkernelstack' = TRUE
        /\ UNCHANGED <<kjmpbuf, wild>>

-----------------------------------------------------------------------------
(* The calls of the kernel, on either stack                                *)

\* dv_clearpending()
ClearPending(t) ==
  /\ events' = IF t \in Extended /\ panic' = "none"
               THEN [events EXCEPT ![t] = {}] ELSE events
  /\ UNCHANGED <<awaited, saved>>

XActivateTask(t) == ActivateTask(t) /\ ClearPending(t) /\ HopUnlessPanic

XChainTask(t) == ChainTask(t) /\ ClearPending(t) /\ HopUnlessPanic

XChainExit == ChainExit /\ Land /\ UNCHANGED eventVars

\* The longjmp of dv_chaintask() lands with interrupts enabled and the flag still
\* off: an IRQ that comes in before dv_disable() uses the anchor of the frame that
\* dv_runextended() has just lost.
IrqWhileLanding ==
  /\ pc = "chained"
  /\ Me \in Extended
  /\ \E i \in Isr : Enabled(i)
  /\ wild' = "landing"
  /\ UNCHANGED <<vars, eventVars, onkernelstack, kjmpbuf>>

\* The main function of an extended task returns to dv_startextendedtask(), which
\* jumps as dv_terminatetask() does.
XEnd == /\ TerminateTask \/ (Me \notin Extended /\ ReturnFromMain)
        /\ IF panic' = "none" THEN Land ELSE UNCHANGED stackVars
        /\ UNCHANGED eventVars

\* Dropping a mutex reschedules only when it lowers the priority.
XDropMutex(m) == /\ DropMutex(m)
                 /\ IF pc' = "sched" THEN Hop ELSE UNCHANGED stackVars
                 /\ UNCHANGED eventVars

XTakeMutex(m) == TakeMutex(m) /\ UNCHANGED <<eventVars, stackVars>>

\* These end in a call of dv_runqueued_onkernelstack() too.
XLowerPrio == LowerPrio /\ HopUnlessPanic /\ UNCHANGED eventVars
XIrqDone   == IrqDone /\ HopUnlessPanic /\ UNCHANGED eventVars

\* ... and the activation that an IRQ makes, unless it is refused.
XVectorIrq(i) == /\ VectorIrq(i)
                 /\ IF nact' # nact THEN Hop ELSE UNCHANGED stackVars
                 /\ UNCHANGED eventVars

XRaisePrio == RaisePrio /\ UNCHANGED <<eventVars, stackVars>>
XCatchIrq  == CatchIrq /\ UNCHANGED <<eventVars, stackVars>>

-----------------------------------------------------------------------------
(* Events: dv_waitevent(), dv_setevent(), dv_clearevent()                  *)

\* Mutation: an event that is already there is not noticed.
NothingPending(evts) == TRUE

MustWait(evts) == evts \cap events[Me] = {}

\* The caller leaves its context behind and ends for the scheduler.  It returns at
\* once when one of the events is pending already.
WaitEvent(evts) ==
  /\ pc = "app"
  /\ Me \in Extended
  /\ mutexlist[Me] = None
  /\ MustWait(evts)
  /\ awaited' = [awaited EXCEPT ![Me] = evts]
  /\ state'   = [state EXCEPT ![Me] = "waiting"]
  /\ saved'   = saved \union {Me}
  /\ LongjmpToExit
  /\ Land
  /\ UNCHANGED <<queue, nact, currprio, mutexlist, jb, mutexVars, currentexe,
                 irqlevel, pending, panic, events>>

\* Mutation: the task is released each time its event is set.
ReleasesAgain(t, pend) == pend \cap awaited[t] # {}

Releases(t, pend) == state[t] = "waiting" /\ pend \cap awaited[t] # {}

\* A waiting task is released when one of its events is pending; for the scheduler
\* this is an activation.
SetEvent(t, evts) ==
  LET pend == events[t] \union evts IN
  /\ pc \in {"app", "raised"}
  /\ t \in Extended
  /\ state[t] # "suspended"
  /\ IF Releases(t, pend) /\ Full(queue, BasePrio[t])
     THEN Panic("QueueOverflow") /\ UNCHANGED <<eventVars, stackVars>>
     ELSE /\ events' = [events EXCEPT ![t] = pend]
          /\ IF Releases(t, pend)
             THEN /\ state' = [state EXCEPT ![t] = "ready"]
                  /\ queue' = Enqueue(queue, BasePrio[t], t)
                  /\ RunQueued(BasePrio[t], currprio[Me], pc)
                  /\ Hop
             ELSE UNCHANGED <<state, queue, frames, pc, stackVars>>
          /\ UNCHANGED <<nact, currprio, mutexlist, jb, mutexVars, currentexe,
                         irqlevel, pending, panic, awaited, saved>>

ClearEvent(evts) ==
  /\ pc = "app"
  /\ Me \in Extended
  /\ events' = [events EXCEPT ![Me] = @ \ evts]
  /\ UNCHANGED <<vars, awaited, saved, stackVars>>

-----------------------------------------------------------------------------
(* The scheduler with extended tasks                                       *)

\* dv_runextended(): leave an anchor, then call the main function on an empty stack
\* or resume the context that dv_waitevent() has saved.
RunExtended(e) ==
  /\ onkernelstack' = FALSE
  /\ kjmpbuf' = Len(frames)
  /\ saved'   = saved \ {e}
  /\ awaited' = IF e \in saved THEN [awaited EXCEPT ![e] = {}] ELSE awaited

XDispatch ==
  /\ Dispatch
  /\ IF panic' = "none" /\ currentexe' \in Extended
     THEN RunExtended(currentexe') /\ UNCHANGED wild
     ELSE UNCHANGED <<awaited, saved, stackVars>>
  /\ UNCHANGED events

\* A request from a private stack has been served: dv_runextended() jumps back to it.
\* The anchor is not set again.
XReturn == /\ Return
           /\ onkernelstack' = (Top.exe \notin Extended)
           /\ UNCHANGED <<kjmpbuf, wild, eventVars>>

XReleaseMutex == ReleaseMutex /\ UNCHANGED <<eventVars, stackVars>>

XFinishExit == /\ FinishExit
               /\ Top.e \notin saved
               /\ UNCHANGED <<eventVars, stackVars>>

\* dv_taskwaiting(): a task that waits leaves the queues but keeps its activation.
FinishWait ==
  LET e == Top.e
      q == AfterRunPrio(e)
  IN
  /\ pc = "exit"
  /\ e \in saved
  /\ mutexlist[e] = None
  /\ IF \/ Top.eprio # BasePrio[e] /\ ~IsHead(queue, Top.eprio, e)
        \/ ~IsHead(q, BasePrio[e], e)
     THEN Panic("QueueCorrupt")
     ELSE
     /\ queue'    = Dequeue(q, BasePrio[e])
     /\ state'    = [state EXCEPT ![e] = "waiting"]
     /\ currprio' = [currprio EXCEPT ![e] = BasePrio[e]]
     /\ jb'       = [jb EXCEPT ![e] = 0]
     /\ pc'       = "sched"
     /\ UNCHANGED <<nact, mutexlist, mutexVars, currentexe, irqlevel, frames, pending,
                    panic>>
  /\ UNCHANGED <<eventVars, stackVars>>

-----------------------------------------------------------------------------
\* dv_extended_init(): the start-up is on the kernel stack.
XInit == /\ Init
         /\ events        = [t \in Extended |-> {}]
         /\ awaited       = [t \in Extended |-> {}]
         /\ saved         = {}
         /\ onkernelstack = TRUE
         /\ kjmpbuf       = 0
         /\ wild          = "no"

XCall == \/ \E t \in Task : XActivateTask(t) \/ XChainTask(t)
         \/ \E m \in Mutex : XTakeMutex(m) \/ XDropMutex(m)
         \/ XRaisePrio
         \/ XEnd
         \/ \E evts \in Mask : WaitEvent(evts) \/ ClearEvent(evts)
         \/ \E t \in Extended, evts \in Mask : SetEvent(t, evts)

XKernel == \/ XDispatch \/ XReturn \/ XReleaseMutex \/ XFinishExit \/ FinishWait
           \/ XChainExit \/ XLowerPrio \/ XIrqDone \/ \E i \in Isr : XVectorIrq(i)

XNext == /\ panic = "none"
         /\ wild = "no"
         /\ XCall \/ XKernel \/ XCatchIrq \/ IrqWhileLanding

XSpec == XInit /\ [][XNext]_allVars

-----------------------------------------------------------------------------
(* Properties                                                              *)

\* Every new variable has its type; a task awaits something exactly while its context
\* is saved.
ExtendedTypeOK ==
  /\ state \in [Exe -> {"suspended", "ready", "running", "waiting"}]
  /\ events \in [Extended -> SUBSET Event]
  /\ awaited \in [Extended -> SUBSET Event]
  /\ saved = {t \in Extended : awaited[t] # {}}
  /\ onkernelstack \in BOOLEAN
  /\ kjmpbuf \in 0 .. MaxPrio
  /\ wild \in {"no", "anchor", "landing"}

\* A task does not wait for an event that is pending: whether the event is set
\* before, while or after the task decides to wait, it is released once.
NoLostWakeup ==
  \A t \in Extended : state[t] = "waiting" => events[t] \cap awaited[t] = {}

\* A task that waits or is released exists once: it keeps its one context until it
\* is resumed, and while it has one no frame of the kernel stack runs it.
ContextOnce ==
  \A t \in Extended :
    /\ t \in saved => /\ nact[t] > 0
                      /\ \A i \in 1 .. Len(frames) :
                           frames[i].e = t /\ jb[t] # 0 => i = Len(frames) /\ pc = "exit"
    /\ state[t] = "waiting" => t \in saved

\* dv_runqueued() runs on the kernel stack, an extended task on its own, whatever
\* interrupts, preemptions, waits and terminations came between.
OnRightStack ==
  /\ Running => (onkernelstack <=> Me \notin Extended)
  /\ pc \in {"sched", "exit"} => onkernelstack

\* "This global variable needs to be very carefully managed": a request from a
\* private stack finds the anchor in the frame that started the caller.
AnchorInPlace == wild # "anchor"

\* No request reaches an anchor that is gone, also while a termination "will skip
\* back up the main stack".
NoWildJump == wild = "no"

\* The two stacks and the contexts on them go together (dv_runextended(),
\* dv_runqueued_onkernelstack()): each piece of code runs on its own stack, and each
\* context that could be resumed or jumped to is there once.
StacksInPlace == OnRightStack /\ AnchorInPlace /\ ContextOnce

-----------------------------------------------------------------------------
(* As an implementation of the kernel without extended tasks               *)

\* A task that ends, or is about to wait
Leaving(e) == pc = "exit" /\ Top.e = e

\* A task that has left the queues to wait
Away(e) == e \in saved /\ state[e] = "waiting" /\ ~Leaving(e)

\* What the scheduler takes for the activations and the states
KernelNact  == [e \in Exe |-> IF Away(e) THEN nact[e] - 1 ELSE nact[e]]
KernelState == [e \in Exe |-> IF Away(e) THEN "suspended"
                              ELSE IF state[e] = "waiting" THEN "running" ELSE state[e]]

Basic == INSTANCE Davroska WITH nact <- KernelNact, state <- KernelState

\* For the scheduler a wait is the end of an activation and a release is a new one:
\* with extended tasks the kernel still behaves like the kernel without them.
ImplementsDavroska == Basic!Spec
=============================================================================
