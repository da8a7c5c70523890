----------------------- MODULE DavroskaExtendedProofs -----------------------
(***************************************************************************)
(* The kernel with extended tasks implements the kernel without them: to   *)
(* the scheduler of module Davroska a wait is the end of an activation and *)
(* the event that ends it is a new one.  What DavroskaProofs proves of     *)
(* that kernel then holds with extended tasks too, and carries the proofs  *)
(* about events and stacks.                                                *)
(***************************************************************************)
EXTENDS DavroskaExtended, DavroskaInv, TLAPS

\* The proofs about the kernel, for what the scheduler sees of the extended one
Kern == INSTANCE DavroskaProofs WITH nact <- KernelNact, state <- KernelState

-----------------------------------------------------------------------------
(* The definitions that do not depend on what is seen differently          *)

LEMMA SameSizes ==
  /\ \A S : Kern!Cardinality(S) = Cardinality(S)
  /\ \A S : Kern!IsFiniteSet(S) <=> IsFiniteSet(S)
BY DEF Kern!Cardinality, Cardinality, Kern!IsFiniteSet, IsFiniteSet

LEMMA SameConstants ==
  /\ Kern!Exe = Exe /\ Kern!Prio = Prio
  /\ Kern!OutOfOrderDrop = OutOfOrderDrop /\ Kern!ExitHoldingMutex = ExitHoldingMutex
  /\ Kern!Disciplined <=> Disciplined
BY DEF Kern!Exe, Exe, Kern!Prio, Prio, Kern!OutOfOrderDrop, OutOfOrderDrop,
   Kern!ExitHoldingMutex, ExitHoldingMutex, Kern!Disciplined, Disciplined

LEMMA SameFrames ==
  /\ Kern!Me = Me /\ Kern!Top = Top
  /\ \A e : Kern!Live(e) <=> Live(e)
  /\ \A e : Kern!Chaining(e) <=> Chaining(e)
  /\ Kern!FrameInv <=> FrameInv
BY DEF Kern!FrameInv, FrameInv, Kern!Chain, Chain, Kern!Lows, Lows, Kern!OwnPrio, OwnPrio,
   Kern!Started, Started, Kern!Anchors, Anchors, Kern!Current, Current, Kern!Occupied,
   Occupied, Kern!Live, Live, Kern!Chaining, Chaining, Kern!Top, Top, Kern!Me, Me,
   Kern!Exe, Exe

LEMMA SameStep == Basic!Next <=> Kern!Next
BY DEF Basic!Next, Kern!Next, Basic!Call, Kern!Call, Basic!End, Kern!End, Basic!Kernel,
   Kern!Kernel, Basic!ActivateTask, Kern!ActivateTask, Basic!ChainTask, Kern!ChainTask,
   Basic!TakeMutex, Kern!TakeMutex, Basic!DropMutex, Kern!DropMutex, Basic!RaisePrio,
   Kern!RaisePrio, Basic!TerminateTask, Kern!TerminateTask, Basic!ReturnFromMain,
   Kern!ReturnFromMain, Basic!Dispatch, Kern!Dispatch, Basic!Return, Kern!Return,
   Basic!ReleaseMutex, Kern!ReleaseMutex, Basic!FinishExit, Kern!FinishExit,
   Basic!ChainExit, Kern!ChainExit, Basic!LowerPrio, Kern!LowerPrio, Basic!IrqDone,
   Kern!IrqDone, Basic!VectorIrq, Kern!VectorIrq, Basic!CatchIrq, Kern!CatchIrq,
   Basic!exeVars, Kern!exeVars, Basic!mutexVars, Kern!mutexVars, Basic!cpuVars,
   Kern!cpuVars, Basic!Panic, Kern!Panic, Basic!Full, Kern!Full, Basic!Enqueue,
   Kern!Enqueue, Basic!Dequeue, Kern!Dequeue, Basic!IsHead, Kern!IsHead, Basic!RunQueued,
   Kern!RunQueued, Basic!Frame, Kern!Frame, Basic!Top, Kern!Top, Basic!Me, Kern!Me,
   Basic!Activate, Kern!Activate, Basic!StateActivated, Kern!StateActivated,
   Basic!CanActivate, Kern!CanActivate, Basic!MayExit, Kern!MayExit, Basic!LongjmpToExit,
   Kern!LongjmpToExit, Basic!TakeAgain, Kern!TakeAgain, Basic!TakeFree, Kern!TakeFree,
   Basic!DropOnce, Kern!DropOnce, Basic!DropLast, Kern!DropLast, Basic!Waiting,
   Kern!Waiting, Basic!Start, Kern!Start, Basic!QueueStarted, Kern!QueueStarted,
   Basic!StateStarted, Kern!StateStarted, Basic!AfterRunPrio, Kern!AfterRunPrio,
   Basic!StateEnded, Kern!StateEnded, Basic!Enabled, Kern!Enabled, Basic!Level, Kern!Level,
   Basic!NSlots, Kern!NSlots, Basic!Activations, Kern!Activations, Basic!Exe, Kern!Exe,
   Basic!Cardinality, Kern!Cardinality, Basic!Max, Kern!Max, Basic!Prio, Kern!Prio,
   Basic!OutOfOrderDrop, Kern!OutOfOrderDrop, Basic!ExitHoldingMutex,
   Kern!ExitHoldingMutex

LEMMA SameSpec ==
  /\ Basic!Init <=> Kern!Init
  /\ UNCHANGED Basic!vars <=> UNCHANGED Kern!vars
BY DEF Basic!Init, Kern!Init, Basic!vars, Kern!vars, Basic!exeVars, Kern!exeVars,
   Basic!mutexVars, Kern!mutexVars, Basic!cpuVars, Kern!cpuVars, Basic!Prio, Kern!Prio,
   Basic!Exe, Kern!Exe, Basic!LockAll, Kern!LockAll

-----------------------------------------------------------------------------
(* What is known of the kernel                                             *)

LEMMA KernelTypes ==
  ASSUME Kern!KernelInv
  PROVE  /\ queue \in [Prio -> Seq(Exe)] /\ frames \in Seq(FrameType) /\ Me \in Exe
         /\ jb \in [Exe -> Nat] /\ mutexlist \in [Exe -> Mutex \union {None}]
         /\ KernelNact \in [Exe -> Int] /\ panic = "none" /\ FrameInv
         /\ Idle \in Exe /\ None \notin Exe /\ Extended \subseteq Exe \ {Idle}
<1>1. PICK r : Kern!IndInv(r)
  BY DEF Kern!KernelInv, Kern!QueuesInv, Kern!Inv
<1>2. Kern!FrameType = FrameType
  BY SameConstants DEF Kern!FrameType, FrameType
<1>3. /\ queue \in [Prio -> Seq(Exe)] /\ frames \in Seq(FrameType) /\ currentexe \in Exe
      /\ jb \in [Exe -> Nat] /\ mutexlist \in [Exe -> Mutex \union {None}]
      /\ KernelNact \in [Exe -> Int] /\ Kern!FrameInv
  BY <1>1, <1>2, SameConstants DEF Kern!IndInv, Kern!TypeOK
<1> QED
  BY <1>3, SameFrames, ExeAssumption, ExtendedAssumption
     DEF Kern!KernelInv, Kern!QueuesInv, Me, Exe

LEMMA OnTop ==
  ASSUME Kern!KernelInv, pc \in {"app", "chained", "exit"}
  PROVE  /\ \A i \in 1 .. Len(frames) : frames[i].exe # Me
         /\ frames = <<>> => Me = Idle
         /\ frames # <<>> => /\ Me = Top.e /\ jb[Me] = Len(frames) /\ Me # Idle
                             /\ Top.e = frames[Len(frames)].e
<1>1. PICK r : Kern!IndInv(r)
  BY DEF Kern!KernelInv, Kern!QueuesInv, Kern!Inv
<1> QED
  BY <1>1, Kern!MeOnTop, SameSizes, SameConstants, SameFrames, ExeAssumption,
     PrioAssumption, RunPrioAssumption, MaxActAssumption, MutexAssumption,
     LibertiesAssumption DEF Top

LEMMA AllLive ==
  ASSUME Kern!KernelInv
  PROVE  /\ \A i \in 1 .. Len(frames) : frames[i].exe \in Exe /\ Live(frames[i].exe)
         /\ pc # "sched" => Live(Me)
<1>1. PICK r : Kern!IndInv(r)
  BY DEF Kern!KernelInv, Kern!QueuesInv, Kern!Inv
<1> QED
  BY <1>1, Kern!CallersLive, SameSizes, SameConstants, SameFrames, ExeAssumption,
     PrioAssumption, RunPrioAssumption, MaxActAssumption, MutexAssumption,
     LibertiesAssumption

\* The first of a queue has not started, or has an activation there.
LEMMA QueuedCounts ==
  ASSUME Kern!KernelInv, NEW e \in Exe,
         \/ Live(e)
         \/ \E p \in Prio : queue[p] # <<>> /\ e = Head(queue[p])
  PROVE  KernelNact[e] \in Nat \ {0}
<1>1. PICK r : Kern!IndInv(r)
  BY DEF Kern!KernelInv, Kern!QueuesInv, Kern!Inv
<1>2. Kern!QueueInv
  BY DEF Kern!KernelInv, Kern!QueuesInv
<1> USE SameSizes, SameConstants, SameFrames, ExeAssumption, PrioAssumption,
        RunPrioAssumption, MaxActAssumption, MutexAssumption, LibertiesAssumption
<1>3. CASE Live(e)
  BY <1>1, <1>2, <1>3, Kern!LiveCounts
<1>4. ASSUME ~Live(e), NEW p \in Prio, queue[p] # <<>>, e = Head(queue[p])
      PROVE  KernelNact[e] \in Nat \ {0}
  <2>1. BasePrio[e] = p
    BY <1>1, <1>4, Kern!WaitsAtBase
  <2>2. Kern!IsHead(queue, BasePrio[e], e)
    BY <1>4, <2>1 DEF Kern!IsHead
  <2> QED
    BY <1>1, <1>2, <2>2, Kern!HeadCounts
<1> QED
  BY <1>3, <1>4

LEMMA KernelStates ==
  ASSUME Kern!KernelInv, NEW e \in Exe
  PROVE  /\ (KernelState[e] = "running") <=> (e = Me /\ (pc = "sched" => Me = Top.exe))
         /\ (KernelState[e] = "suspended") <=> (KernelNact[e] = 0)
BY SameConstants, SameFrames DEF Kern!KernelInv, Kern!StateInv

\* An extended task that runs has its one activation.
LEMMA OneActivation ==
  ASSUME Kern!KernelInv, pc = "app", Me \in Extended
  PROVE  KernelNact[Me] = 1
<1>1. PICK r : Kern!IndInv(r)
  BY DEF Kern!KernelInv, Kern!QueuesInv, Kern!Inv
<1>2. Me \in Exe /\ MaxAct[Me] = 1
  BY KernelTypes, ExtendedAssumption
<1>3. ~Chaining(Me)
  BY <1>1, Kern!NotYetChaining, SameSizes, SameConstants, SameFrames, ExeAssumption,
     PrioAssumption, RunPrioAssumption, MaxActAssumption, MutexAssumption,
     LibertiesAssumption
<1>4. KernelNact[Me] <= MaxAct[Me] + (IF Chaining(Me) THEN 1 ELSE 0)
  BY <1>2, SameConstants, SameFrames DEF Kern!KernelInv, Kern!QueuesInv, Kern!QueueInv,
     Kern!WithinLimits
<1>5. KernelNact[Me] \in Nat \ {0}
  BY <1>2, AllLive, QueuedCounts
<1> QED
  BY <1>2, <1>3, <1>4, <1>5

LEMMA KernelKept ==
  ASSUME Disciplined, Kern!KernelInv, Kern!Next \/ UNCHANGED Kern!vars
  PROVE  Kern!KernelInv'
BY Kern!KernelStep, SameSizes, SameConstants, ExeAssumption, PrioAssumption,
   RunPrioAssumption, MaxActAssumption, MutexAssumption, LibertiesAssumption

-----------------------------------------------------------------------------
(* The invariant of the contexts, and what the scheduler sees of a step    *)

ContextTypes ==
  /\ nact \in [Exe -> Int]
  /\ state \in [Exe -> {"suspended", "ready", "running", "waiting"}]
  /\ events \in [Extended -> SUBSET Event]
  /\ awaited \in [Extended -> SUBSET Event]

\* A task whose context is saved has left the stack, or is about to wait; only such a
\* task waits.
Parked ==
  /\ saved \subseteq Extended
  /\ \A t \in saved : /\ nact[t] = 1
                      /\ IF Leaving(t) THEN state[t] = "waiting" ELSE jb[t] = 0
  /\ \A e \in Exe : state[e] = "waiting" => e \in saved

ExtInv == Kern!KernelInv /\ ContextTypes /\ Parked

LEMMA LiveNotSaved ==
  ASSUME Kern!KernelInv, Parked, NEW e, Live(e), ~Leaving(e)
  PROVE  e \notin saved
BY KernelTypes DEF Parked, Live

LEMMA SeenNotSaved ==
  ASSUME Parked, NEW e \in Exe, e \notin saved
  PROVE  ~Away(e) /\ KernelNact[e] = nact[e] /\ KernelState[e] = state[e]
         /\ state[e] # "waiting"
BY DEF Parked, Away, KernelNact, KernelState

\* The code that runs is not parked.
LEMMA MeNotSaved ==
  ASSUME Kern!KernelInv, Parked, pc \notin {"exit", "sched"}
  PROVE  Me \in Exe /\ Me \notin saved
BY KernelTypes, AllLive, LiveNotSaved DEF Leaving

LEMMA SeenSame ==
  ASSUME UNCHANGED <<saved, state, nact>>,
         \A e \in saved : Leaving(e)' <=> Leaving(e)
  PROVE  UNCHANGED <<KernelNact, KernelState>>
<1>1. \A e : Away(e)' <=> Away(e)
  BY DEF Away
<1> QED
  BY <1>1 DEF KernelNact, KernelState

\* A step that neither ends an executable nor goes on after its end
LEMMA SeenInside ==
  ASSUME UNCHANGED <<saved, state, nact>>, pc # "exit", pc' # "exit"
  PROVE  UNCHANGED <<KernelNact, KernelState>>
BY SeenSame DEF Leaving

LEMMA SeenPanic ==
  ASSUME NEW reason, Panic(reason), UNCHANGED saved
  PROVE  Kern!Panic(reason)
<1>1. UNCHANGED <<saved, state, nact, pc, frames>>
  BY DEF Panic, exeVars, cpuVars
<1>2. UNCHANGED <<KernelNact, KernelState>>
  BY <1>1, SeenSame DEF Leaving, Top
<1> QED
  BY <1>2 DEF Panic, Kern!Panic, exeVars, cpuVars, mutexVars, Kern!exeVars, Kern!cpuVars,
     Kern!mutexVars

LEMMA SameQueues ==
  /\ \A q, p : Kern!Full(q, p) <=> Full(q, p)
  /\ \A q, p, e : Kern!Enqueue(q, p, e) = Enqueue(q, p, e)
  /\ \A q, p, e : Kern!IsHead(q, p, e) <=> IsHead(q, p, e)
  /\ \A q, p : Kern!Dequeue(q, p) = Dequeue(q, p)
  /\ \A p : Kern!Level(p) = Level(p)
BY SameSizes DEF Kern!Full, Full, Kern!NSlots, NSlots, Kern!Activations, Activations,
   Kern!Exe, Exe, Kern!Enqueue, Enqueue, Kern!IsHead, IsHead, Kern!Dequeue, Dequeue,
   Kern!Level, Level

LEMMA SameCalls ==
  ASSUME NEW high, NEW low, NEW ret
  PROVE  Kern!RunQueued(high, low, ret) <=> RunQueued(high, low, ret)
BY DEF Kern!RunQueued, RunQueued, Kern!Frame, Frame

-----------------------------------------------------------------------------
(* The steps that change neither an activation nor a state                 *)

LEMMA SimTake ==
  ASSUME ExtInv, NEW m \in Mutex, XTakeMutex(m)
  PROVE  Kern!TakeMutex(m)
<1> USE DEF exeVars, cpuVars, mutexVars, Kern!exeVars, Kern!cpuVars, Kern!mutexVars
<1>1. TakeMutex(m) /\ UNCHANGED saved
  BY DEF XTakeMutex, eventVars
<1>2. pc = "app" /\ pc' = "app" /\ UNCHANGED <<saved, state, nact>>
  BY <1>1 DEF TakeMutex, TakeAgain, TakeFree, Panic
<1>3. UNCHANGED <<KernelNact, KernelState>>
  BY <1>2, SeenInside
<1>4. \A reason : Panic(reason) => Kern!Panic(reason)
  BY <1>2, SeenPanic
<1>5. TakeAgain(m) => Kern!TakeAgain(m)
  BY <1>3 DEF TakeAgain, Kern!TakeAgain
<1>6. TakeFree(m) => Kern!TakeFree(m)
  BY <1>3, <1>4, SameFrames, SameQueues DEF TakeFree, Kern!TakeFree
<1> QED
  BY <1>1, <1>4, <1>5, <1>6, SameFrames DEF TakeMutex, Kern!TakeMutex

LEMMA SimDrop ==
  ASSUME ExtInv, NEW m \in Mutex, XDropMutex(m)
  PROVE  Kern!DropMutex(m)
<1> USE DEF exeVars, cpuVars, mutexVars, Kern!exeVars, Kern!cpuVars, Kern!mutexVars
<1>1. DropMutex(m) /\ UNCHANGED saved
  BY DEF XDropMutex, eventVars
<1>2. pc = "app" /\ pc' # "exit" /\ UNCHANGED <<saved, state, nact>>
  BY <1>1 DEF DropMutex, DropOnce, DropLast, RunQueued, Panic
<1>3. UNCHANGED <<KernelNact, KernelState>>
  BY <1>2, SeenInside
<1>4. \A reason : Panic(reason) => Kern!Panic(reason)
  BY <1>2, SeenPanic
<1>5. DropOnce(m) => Kern!DropOnce(m)
  BY <1>3 DEF DropOnce, Kern!DropOnce
<1>6. DropLast(m) => Kern!DropLast(m)
  BY <1>3, <1>4, SameFrames, SameQueues, SameConstants, SameCalls DEF DropLast, Kern!DropLast
<1> QED
  BY <1>1, <1>5, <1>6, SameFrames DEF DropMutex, Kern!DropMutex

LEMMA SimRaise ==
  ASSUME ExtInv, XRaisePrio
  PROVE  Kern!RaisePrio
<1> USE DEF exeVars, cpuVars, mutexVars, Kern!exeVars, Kern!cpuVars, Kern!mutexVars
<1>1. RaisePrio /\ UNCHANGED saved
  BY DEF XRaisePrio, eventVars
<1>2. pc = "app" /\ pc' # "exit" /\ UNCHANGED <<saved, state, nact>>
  BY <1>1 DEF RaisePrio, Panic
<1>3. UNCHANGED <<KernelNact, KernelState>>
  BY <1>2, SeenInside
<1>4. \A reason : Panic(reason) => Kern!Panic(reason)
  BY <1>2, SeenPanic
<1> QED
  BY <1>1, <1>3, <1>4, SameFrames, SameQueues DEF RaisePrio, Kern!RaisePrio, Frame, Kern!Frame

LEMMA SimLower ==
  ASSUME ExtInv, XLowerPrio
  PROVE  Kern!LowerPrio
<1> USE DEF exeVars, cpuVars, mutexVars, Kern!exeVars, Kern!cpuVars, Kern!mutexVars
<1>1. LowerPrio /\ UNCHANGED saved
  BY DEF XLowerPrio, eventVars
<1>2. pc = "raised" /\ pc' # "exit" /\ UNCHANGED <<saved, state, nact>>
  BY <1>1 DEF LowerPrio, Panic
<1>3. UNCHANGED <<KernelNact, KernelState>>
  BY <1>2, SeenInside
<1>4. \A reason : Panic(reason) => Kern!Panic(reason)
  BY <1>2, SeenPanic
<1> QED
  BY <1>1, <1>3, <1>4, SameFrames, SameQueues DEF LowerPrio, Kern!LowerPrio

LEMMA SimCatch ==
  ASSUME ExtInv, XCatchIrq
  PROVE  Kern!CatchIrq
<1> USE DEF exeVars, cpuVars, mutexVars, Kern!exeVars, Kern!cpuVars, Kern!mutexVars
<1>1. CatchIrq /\ UNCHANGED saved
  BY DEF XCatchIrq, eventVars
<1>2. pc # "exit" /\ pc' # "exit" /\ UNCHANGED <<saved, state, nact>>
  BY <1>1 DEF CatchIrq
<1>3. UNCHANGED <<KernelNact, KernelState>>
  BY <1>2, SeenInside
<1>4. \A i : Kern!Enabled(i) <=> Enabled(i)
  BY SameQueues DEF Kern!Enabled, Enabled
<1>5. {i \in Isr : Kern!Enabled(i)} = {i \in Isr : Enabled(i)}
  BY <1>4
<1> QED
  BY <1>1, <1>3, <1>5, SameFrames DEF CatchIrq, Kern!CatchIrq, Frame, Kern!Frame

LEMMA SimIrqDone ==
  ASSUME ExtInv, XIrqDone
  PROVE  Kern!IrqDone
<1> USE DEF exeVars, cpuVars, mutexVars, Kern!exeVars, Kern!cpuVars, Kern!mutexVars
<1>1. IrqDone /\ UNCHANGED saved
  BY DEF XIrqDone, eventVars
<1>2. pc = "irq" /\ pc' # "exit" /\ UNCHANGED <<saved, state, nact>>
  BY <1>1 DEF IrqDone, Panic
<1>3. UNCHANGED <<KernelNact, KernelState>>
  BY <1>2, SeenInside
<1>4. \A reason : Panic(reason) => Kern!Panic(reason)
  BY <1>2, SeenPanic
<1> QED
  BY <1>1, <1>3, <1>4, SameFrames DEF IrqDone, Kern!IrqDone

-----------------------------------------------------------------------------
(* Ends and activations                                                    *)

\* A termination lands in the newest frame.
LEMMA LandsOnTop ==
  ASSUME Kern!KernelInv, pc \in {"app", "chained"}, Me # Idle
  PROVE  /\ frames # <<>> /\ jb[Me] = Len(frames) /\ jb[Me] # 0 /\ Top.e = Me
         /\ LongjmpToExit => frames' = frames
<1>1. frames # <<>> /\ jb[Me] = Len(frames) /\ Top.e = Me
  BY OnTop
<1>2. frames \in Seq(FrameType)
  BY KernelTypes
<1>3. Len(frames) # 0 /\ SubSeq(frames, 1, Len(frames)) = frames
  BY <1>1, <1>2
<1> QED
  BY <1>1, <1>3 DEF LongjmpToExit

\* The end of a task that does not wait
LEMMA SeenAtEnd ==
  ASSUME ExtInv, pc \in {"app", "chained"}, Me # Idle, frames' = frames, pc' = "exit",
         UNCHANGED <<saved, state, nact>>
  PROVE  UNCHANGED <<KernelNact, KernelState>>
<1>1. Top.e = Me /\ Me \notin saved
  BY LandsOnTop, MeNotSaved DEF ExtInv
<1>2. \A e \in saved : Leaving(e)' <=> Leaving(e)
  BY <1>1 DEF Leaving, Top
<1> QED
  BY <1>2, SeenSame

LEMMA SimEnd ==
  ASSUME ExtInv, XEnd
  PROVE  Kern!End
<1> USE DEF exeVars, cpuVars, mutexVars, Kern!exeVars, Kern!cpuVars, Kern!mutexVars
<1>1. UNCHANGED saved /\ (TerminateTask \/ ReturnFromMain)
  BY DEF XEnd, eventVars
<1>2. pc = "app" /\ Me # Idle
  BY <1>1 DEF TerminateTask, ReturnFromMain, MayExit
<1>3. jb[Me] # 0 /\ (LongjmpToExit => frames' = frames)
  BY <1>2, LandsOnTop DEF ExtInv
<1>4. frames' = frames /\ pc' = "exit" /\ UNCHANGED <<saved, state, nact>>
  BY <1>1, <1>3 DEF TerminateTask, ReturnFromMain, LongjmpToExit
<1>5. UNCHANGED <<KernelNact, KernelState>>
  BY <1>2, <1>4, SeenAtEnd
<1>6. Kern!MayExit <=> MayExit
  BY SameFrames, SameConstants DEF Kern!MayExit, MayExit
<1>7. Kern!LongjmpToExit <=> LongjmpToExit
  BY SameFrames DEF Kern!LongjmpToExit, LongjmpToExit
<1>8. TerminateTask => Kern!TerminateTask
  BY <1>3, <1>5, <1>6, <1>7, SameFrames DEF TerminateTask, Kern!TerminateTask
<1>9. ReturnFromMain => Kern!ReturnFromMain
  BY <1>5, <1>6 DEF ReturnFromMain, Kern!ReturnFromMain
<1> QED
  BY <1>1, <1>8, <1>9 DEF Kern!End

LEMMA SimChainExit ==
  ASSUME ExtInv, XChainExit
  PROVE  Kern!ChainExit
<1> USE DEF exeVars, cpuVars, mutexVars, Kern!exeVars, Kern!cpuVars, Kern!mutexVars
<1>1. UNCHANGED saved /\ ChainExit
  BY DEF XChainExit, eventVars
<1>2. pc = "chained" /\ Me # Idle
  BY <1>1, KernelTypes DEF ChainExit, ExtInv, FrameInv, Current
<1>3. LongjmpToExit => frames' = frames
  BY <1>2, LandsOnTop DEF ExtInv
<1>4. frames' = frames /\ pc' = "exit" /\ UNCHANGED <<saved, state, nact>>
  BY <1>1, <1>3 DEF ChainExit, LongjmpToExit
<1>5. UNCHANGED <<KernelNact, KernelState>>
  BY <1>2, <1>4, SeenAtEnd
<1>6. Kern!LongjmpToExit <=> LongjmpToExit
  BY SameFrames DEF Kern!LongjmpToExit, LongjmpToExit
<1> QED
  BY <1>1, <1>5, <1>6 DEF ChainExit, Kern!ChainExit

LEMMA SimRelease ==
  ASSUME ExtInv, XReleaseMutex
  PROVE  Kern!ReleaseMutex
<1> USE DEF exeVars, cpuVars, mutexVars, Kern!exeVars, Kern!cpuVars, Kern!mutexVars
<1>1. UNCHANGED saved /\ ReleaseMutex
  BY DEF XReleaseMutex, eventVars
<1>2. UNCHANGED <<saved, state, nact, pc, frames>>
  BY <1>1 DEF ReleaseMutex, Panic
<1>3. UNCHANGED <<KernelNact, KernelState>>
  BY <1>2, SeenSame DEF Leaving, Top
<1>4. \A reason : Panic(reason) => Kern!Panic(reason)
  BY <1>2, SeenPanic
<1> QED
  BY <1>1, <1>3, <1>4, SameFrames, SameQueues DEF ReleaseMutex, Kern!ReleaseMutex

\* Neither a parked task nor one that has its activation can be activated.
LEMMA Admitted ==
  ASSUME ExtInv, NEW t \in Task \union Isr,
         CanActivate(t) \/ (t = Me /\ pc \notin {"exit", "sched"})
  PROVE  t \in Exe /\ t \notin saved /\ (Kern!CanActivate(t) <=> CanActivate(t))
<1>1. t \in Exe
  BY DEF Exe
<1>2. t \notin saved
  <2>1. CASE CanActivate(t)
    <3>1. t \in Extended => MaxAct[t] = 1
      BY ExtendedAssumption
    <3> QED
      BY <2>1, <3>1 DEF CanActivate, ExtInv, Parked
  <2>2. CASE t = Me /\ pc \notin {"exit", "sched"}
    BY <2>2, MeNotSaved DEF ExtInv
  <2> QED
    BY <2>1, <2>2
<1>3. KernelNact[t] = nact[t]
  BY <1>1, <1>2, SeenNotSaved DEF ExtInv
<1> QED
  BY <1>1, <1>2, <1>3 DEF Kern!CanActivate, CanActivate

LEMMA SimActivate ==
  ASSUME ExtInv, NEW t \in Task \union Isr, t \notin saved, NEW ret, Activate(t, ret),
         pc # "exit", ret # "exit", UNCHANGED saved
  PROVE  Kern!Activate(t, ret)
<1>1. t \in Exe
  BY DEF Exe
<1>2. pc' # "exit"
  BY DEF Activate, RunQueued
<1>3. nact \in [Exe -> Int] /\ state \in [Exe -> {"suspended", "ready", "running", "waiting"}]
  BY DEF ExtInv, ContextTypes
<1>4. nact' = [nact EXCEPT ![t] = @ + 1] /\ state' = StateActivated(t)
  BY DEF Activate
<1>5. /\ nact' \in [Exe -> Int] /\ nact'[t] = nact[t] + 1
      /\ \A e \in Exe \ {t} : nact'[e] = nact[e]
  BY <1>1, <1>3, <1>4
<1>6. /\ state'[t] = IF state[t] = "running" THEN "running" ELSE "ready"
      /\ \A e \in Exe \ {t} : state'[e] = state[e]
  BY <1>1, <1>3, <1>4 DEF StateActivated
<1>7. \A e \in Exe \ {t} : Away(e)' <=> Away(e)
  BY <1>2, <1>6 DEF Away, Leaving
<1>8. ~Away(t) /\ ~Away(t)'
  BY DEF Away
<1>9. KernelNact[t] = nact[t] /\ KernelNact'[t] = nact[t] + 1
      /\ \A e \in Exe \ {t} : KernelNact'[e] = KernelNact[e]
  BY <1>1, <1>5, <1>7, <1>8 DEF KernelNact
<1>10. KernelNact' = [KernelNact EXCEPT ![t] = @ + 1]
  BY <1>9 DEF KernelNact
<1>11. KernelState[t] = state[t] /\ KernelState'[t] = state'[t]
      /\ \A e \in Exe \ {t} : KernelState'[e] = KernelState[e]
  BY <1>1, <1>6, <1>7, <1>8, SeenNotSaved DEF KernelState, ExtInv
<1>12. KernelState' = Kern!StateActivated(t)
  <2>1. CASE state[t] = "running"
    <3>1. \A e \in Exe : KernelState'[e] = KernelState[e]
      BY <1>6, <1>11, <2>1
    <3>2. KernelState' = KernelState
      BY <3>1 DEF KernelState
    <3> QED
      BY <1>11, <2>1, <3>2 DEF Kern!StateActivated
  <2>2. CASE state[t] # "running"
    <3>1. KernelState' = [KernelState EXCEPT ![t] = "ready"]
      BY <1>6, <1>11, <2>2 DEF KernelState
    <3> QED
      BY <1>11, <2>2, <3>1 DEF Kern!StateActivated
  <2> QED
    BY <2>1, <2>2
<1> QED
  BY <1>10, <1>12, SameFrames, SameQueues, SameCalls DEF Activate, Kern!Activate, mutexVars,
     Kern!mutexVars

LEMMA SimActivateTask ==
  ASSUME ExtInv, NEW t \in Task, XActivateTask(t)
  PROVE  Kern!ActivateTask(t)
<1>1. ActivateTask(t) /\ UNCHANGED saved
  BY DEF XActivateTask, ClearPending
<1>2. t \notin saved /\ Kern!CanActivate(t)
  BY <1>1, Admitted DEF ActivateTask
<1>3. \A reason : Panic(reason) => Kern!Panic(reason)
  BY <1>1, SeenPanic
<1>4. Activate(t, pc) => Kern!Activate(t, pc)
  BY <1>1, <1>2, SimActivate DEF ActivateTask
<1> QED
  BY <1>1, <1>2, <1>3, <1>4, SameQueues DEF ActivateTask, Kern!ActivateTask

LEMMA SimChainTask ==
  ASSUME ExtInv, NEW t \in Task, XChainTask(t)
  PROVE  Kern!ChainTask(t)
<1>1. ChainTask(t) /\ UNCHANGED saved
  BY DEF XChainTask, ClearPending
<1>2. t \notin saved /\ (Kern!CanActivate(t) <=> CanActivate(t))
  BY <1>1, Admitted DEF ChainTask
<1>3. \A reason : Panic(reason) => Kern!Panic(reason)
  BY <1>1, SeenPanic
<1>4. Activate(t, "chained") => Kern!Activate(t, "chained")
  BY <1>1, <1>2, SimActivate DEF ChainTask
<1>5. Kern!MayExit <=> MayExit
  BY SameFrames, SameConstants DEF Kern!MayExit, MayExit
<1> QED
  BY <1>1, <1>2, <1>3, <1>4, <1>5, SameQueues, SameFrames DEF ChainTask, Kern!ChainTask

LEMMA SimVector ==
  ASSUME ExtInv, NEW i \in Isr, XVectorIrq(i)
  PROVE  Kern!VectorIrq(i)
<1>1. VectorIrq(i) /\ UNCHANGED saved
  BY DEF XVectorIrq, eventVars
<1>2. i \in Exe /\ i \notin saved
  BY ExeAssumption, ExtendedAssumption DEF ExtInv, Parked, Exe
<1>3. Kern!CanActivate(i) <=> CanActivate(i)
  BY <1>2, SeenNotSaved DEF ExtInv, Kern!CanActivate, CanActivate
<1>4. \A reason : Panic(reason) => Kern!Panic(reason)
  BY <1>1, SeenPanic
<1>5. Activate(i, "irq") => Kern!Activate(i, "irq")
  BY <1>1, <1>2, SimActivate DEF VectorIrq
<1>6. CASE ~CanActivate(i)
  <2>1. pc = "irq" /\ UNCHANGED <<saved, state, nact, pc>>
    BY <1>1, <1>6 DEF VectorIrq, exeVars
  <2>2. UNCHANGED <<KernelNact, KernelState>>
    BY <2>1, SeenInside
  <2> QED
    BY <1>1, <1>3, <1>6, <2>2 DEF VectorIrq, Kern!VectorIrq, exeVars, mutexVars,
       Kern!exeVars, Kern!mutexVars
<1>7. CASE CanActivate(i)
  BY <1>1, <1>3, <1>4, <1>5, <1>7, SameQueues DEF VectorIrq, Kern!VectorIrq
<1> QED
  BY <1>6, <1>7

-----------------------------------------------------------------------------
(* The scheduler                                                           *)

LEMMA FirstQueued ==
  ASSUME Kern!KernelInv, pc = "sched", Waiting # {}
  PROVE  Max(Waiting) \in Waiting
<1>1. PICK r : Kern!IndInv(r)
  BY DEF Kern!KernelInv, Kern!QueuesInv, Kern!Inv
<1>2. Kern!Waiting = Waiting /\ Kern!Max(Waiting) = Max(Waiting)
  BY SameFrames DEF Kern!Waiting, Waiting, Kern!Max, Max
<1>3. Kern!Max(Kern!Waiting) \in Kern!Waiting
  BY <1>1, <1>2, Kern!WaitingMax, SameSizes, SameConstants, ExeAssumption, PrioAssumption,
     RunPrioAssumption, MaxActAssumption, MutexAssumption, LibertiesAssumption
<1> QED
  BY <1>2, <1>3

\* Only what waits for the scheduler is started: no parked task.
LEMMA StartsQueued ==
  ASSUME ExtInv, pc = "sched", Waiting # {}, NEW e, e = Head(queue[Max(Waiting)])
  PROVE  e \in Exe /\ ~Away(e) /\ state[e] # "waiting"
<1>1. PICK p \in Prio : p = Max(Waiting) /\ queue[p] # <<>>
  <2>1. frames # <<>> /\ frames \in Seq(FrameType)
    BY KernelTypes DEF ExtInv, FrameInv, Current
  <2>2. Top \in FrameType
    BY <2>1 DEF Top
  <2>3. Top.low \in Nat /\ Top.p \in 0 .. MaxPrio /\ MaxPrio \in Nat
    BY <2>2, PrioAssumption DEF FrameType
  <2>4. Waiting \subseteq {p \in Prio : queue[p] # <<>>}
    BY <2>3 DEF Waiting, Prio
  <2> QED
    BY <2>4, FirstQueued DEF ExtInv
<1>2. PICK q \in Seq(Exe) : q = queue[p] /\ q # <<>>
  BY <1>1, KernelTypes DEF ExtInv
<1>3. e \in Exe
  BY <1>1, <1>2
<1>4. KernelNact[e] \in Nat \ {0}
  BY <1>1, <1>3, QueuedCounts DEF ExtInv
<1>5. ~Away(e)
  <2>1. SUFFICES ASSUME Away(e) PROVE FALSE
    OBVIOUS
  <2>2. nact[e] = 1 /\ KernelNact[e] = nact[e] - 1
    BY <1>3, <2>1 DEF Away, KernelNact, ExtInv, Parked
  <2> QED
    BY <1>4, <2>2
<1> QED
  BY <1>3, <1>5 DEF Away, ExtInv, Parked, Leaving

\* What the scheduler sees of a start
LEMMA SeenStart ==
  ASSUME ExtInv, pc = "sched", Waiting # {}, NEW e, e = Head(queue[Max(Waiting)]),
         state' = StateStarted(e), nact' = nact, pc' = "app",
         \A x : x # e => (x \in saved' <=> x \in saved)
  PROVE  KernelNact' = KernelNact /\ KernelState' = Kern!StateStarted(e)
<1>1. e \in Exe /\ ~Away(e) /\ state[e] # "waiting"
  BY StartsQueued
<1>2. state \in [Exe -> {"suspended", "ready", "running", "waiting"}]
  BY DEF ExtInv, ContextTypes
<1>3. /\ state'[e] = "running"
      /\ \A x \in Exe \ {e} :
           state'[x] = IF x = Top.exe /\ state[x] = "running" THEN "ready" ELSE state[x]
  BY <1>1, <1>2 DEF StateStarted
<1>4. \A x \in Exe : Away(x)' <=> Away(x)
  <2>1. ~Away(e)'
    BY <1>3 DEF Away
  <2>2. \A x \in Exe \ {e} : Away(x)' <=> Away(x)
    BY <1>3 DEF Away, Leaving
  <2> QED
    BY <1>1, <2>1, <2>2
<1>5. KernelNact' = KernelNact
  BY <1>4 DEF KernelNact
<1>6. /\ KernelState'[e] = "running"
      /\ \A x \in Exe \ {e} : KernelState'[x] =
           IF x = Top.exe /\ KernelState[x] = "running" THEN "ready" ELSE KernelState[x]
  <2>1. KernelState'[e] = "running"
    BY <1>1, <1>3, <1>4 DEF KernelState
  <2>2. ASSUME NEW x \in Exe \ {e}
        PROVE  KernelState'[x] =
           IF x = Top.exe /\ KernelState[x] = "running" THEN "ready" ELSE KernelState[x]
    <3>1. CASE Away(x)
      BY <1>4, <2>2, <3>1 DEF KernelState
    <3>2. CASE ~Away(x)
      <4>1. state[x] # "waiting"
        BY <3>2 DEF Away, ExtInv, Parked, Leaving
      <4> QED
        BY <1>3, <1>4, <2>2, <3>2, <4>1 DEF KernelState
    <3> QED
      BY <3>1, <3>2
  <2> QED
    BY <2>1, <2>2
<1>7. KernelState' = [x \in Exe |-> KernelState'[x]]
  BY DEF KernelState
<1>8. KernelState' =
        [KernelState EXCEPT ![Top.exe] = IF @ = "running" THEN "ready" ELSE @,
                            ![e] = "running"]
  <2>1. KernelState = [x \in Exe |-> KernelState[x]]
    BY DEF KernelState
  <2> QED
    BY <1>1, <1>6, <1>7, <2>1
<1> QED
  BY <1>5, <1>8, SameFrames DEF Kern!StateStarted

LEMMA SimDispatch ==
  ASSUME ExtInv, XDispatch
  PROVE  Kern!Dispatch
<1>1. Dispatch /\ pc = "sched" /\ Waiting # {}
  BY DEF XDispatch, Dispatch
<1>2. Kern!Waiting = Waiting /\ Kern!Max(Waiting) = Max(Waiting)
  BY SameFrames DEF Kern!Waiting, Waiting, Kern!Max, Max
<1>3. PICK p : p = Max(Waiting)
  OBVIOUS
<1>4. PICK e : e = Head(queue[p])
  OBVIOUS
<1>5. Kern!Dispatch <=> IF e = Idle THEN Kern!Panic("QueueCorrupt") ELSE Kern!Start(p, e)
  BY <1>1, <1>2, <1>3, <1>4 DEF Kern!Dispatch
<1>6. IF e = Idle THEN Panic("QueueCorrupt") ELSE Start(p, e)
  BY <1>1, <1>3, <1>4 DEF Dispatch
<1>7. CASE panic' # "none"
  <2>1. UNCHANGED saved
    BY <1>7 DEF XDispatch
  <2>2. \A reason : Panic(reason) => Kern!Panic(reason)
    BY <2>1, SeenPanic
  <2>3. e # Idle => /\ BasePrio[e] < RunPrio[e] /\ Full(queue, RunPrio[e])
                    /\ Panic("QueueOverflow")
    BY <1>6, <1>7, KernelTypes DEF Start, ExtInv
  <2>4. e # Idle => Kern!Start(p, e)
    BY <2>2, <2>3, SameQueues DEF Kern!Start
  <2> QED
    BY <1>5, <1>6, <2>2, <2>4
<1>8. CASE panic' = "none"
  <2>1. e # Idle /\ Start(p, e) /\ ~(BasePrio[e] < RunPrio[e] /\ Full(queue, RunPrio[e]))
    BY <1>6, <1>8 DEF Start, Panic
  <2>2. state' = StateStarted(e) /\ nact' = nact /\ currentexe' = e /\ pc' = "app"
    BY <2>1 DEF Start
  <2>3. \A x : x # e => (x \in saved' <=> x \in saved)
    BY <1>8, <2>2 DEF XDispatch, RunExtended
  <2>4. KernelNact' = KernelNact /\ KernelState' = Kern!StateStarted(e)
    BY <1>1, <1>3, <1>4, <2>2, <2>3, SeenStart
  <2>5. Kern!QueueStarted(e) = QueueStarted(e)
    BY SameQueues DEF Kern!QueueStarted, QueueStarted
  <2>6. Kern!Start(p, e)
    BY <2>1, <2>4, <2>5, SameQueues DEF Start, Kern!Start, mutexVars, Kern!mutexVars
  <2> QED
    BY <1>5, <2>1, <2>6
<1> QED
  BY <1>7, <1>8

LEMMA SimReturn ==
  ASSUME ExtInv, XReturn
  PROVE  Kern!Return
<1>1. Return /\ UNCHANGED saved /\ pc = "sched" /\ nact' = nact
  BY DEF XReturn, Return, eventVars
<1>2. Kern!Waiting = Waiting
  BY SameFrames DEF Kern!Waiting, Waiting
<1>3. frames # <<>> /\ frames \in Seq(FrameType)
  BY <1>1, KernelTypes DEF ExtInv, FrameInv, Current
<1>4. Len(frames) \in 1 .. Len(frames) /\ Top = frames[Len(frames)] /\ Top \in FrameType
  BY <1>3 DEF Top
<1>5. PICK e \in Exe : e = Top.exe /\ Live(e)
  BY <1>4, AllLive DEF ExtInv
<1>6. pc' # "exit"
  BY <1>1, <1>4 DEF Return, FrameType
<1>7. e \notin saved /\ ~Away(e) /\ ~Away(e)' /\ state[e] # "waiting"
  BY <1>1, <1>5, LiveNotSaved, SeenNotSaved DEF ExtInv, Leaving, Away
<1>8. state \in [Exe -> {"suspended", "ready", "running", "waiting"}]
  BY DEF ExtInv, ContextTypes
<1>9. state' = IF Me # e THEN [state EXCEPT ![e] = "running"] ELSE state
  BY <1>1, <1>5 DEF Return
<1>10. \A x \in Exe : Away(x)' <=> Away(x)
  BY <1>1, <1>6, <1>7, <1>8, <1>9 DEF Away, Leaving
<1>11. KernelNact' = KernelNact
  BY <1>1, <1>10 DEF KernelNact
<1>12. KernelState' = IF Me # e THEN [KernelState EXCEPT ![e] = "running"] ELSE KernelState
  BY <1>7, <1>8, <1>9, <1>10 DEF KernelState
<1> QED
  BY <1>1, <1>2, <1>5, <1>11, <1>12, SameFrames, SameQueues DEF Return, Kern!Return,
     mutexVars, Kern!mutexVars

LEMMA SimFinish ==
  ASSUME ExtInv, XFinishExit
  PROVE  Kern!FinishExit
<1>1. FinishExit /\ UNCHANGED saved /\ pc = "exit" /\ Top.e \notin saved
  BY DEF XFinishExit, FinishExit, eventVars
<1>2. PICK e \in Exe : e = Top.e
  <2>1. Me # Idle
    BY <1>1, KernelTypes DEF ExtInv, FrameInv, Current
  <2> QED
    BY <1>1, <2>1, OnTop, KernelTypes DEF ExtInv
<1>3. Kern!AfterRunPrio(e) = AfterRunPrio(e)
  BY SameFrames, SameQueues DEF Kern!AfterRunPrio, AfterRunPrio
<1>4. \A reason : Panic(reason) => Kern!Panic(reason)
  BY <1>1, SeenPanic
<1>5. PICK corrupt \in BOOLEAN : corrupt <=>
        \/ Top.eprio # BasePrio[e] /\ ~IsHead(queue, Top.eprio, e)
        \/ ~IsHead(AfterRunPrio(e), BasePrio[e], e)
  OBVIOUS
<1>6. CASE corrupt
  BY <1>1, <1>2, <1>3, <1>4, <1>5, <1>6, SameFrames, SameQueues DEF FinishExit,
     Kern!FinishExit
<1>7. CASE ~corrupt
  <2>1. /\ nact' = [nact EXCEPT ![e] = @ - 1] /\ state' = StateEnded(e) /\ pc' = "sched"
    BY <1>1, <1>2, <1>5, <1>7 DEF FinishExit
  <2>2. nact \in [Exe -> Int] /\ state \in [Exe -> {"suspended", "ready", "running", "waiting"}]
    BY DEF ExtInv, ContextTypes
  <2>3. nact'[e] = nact[e] - 1 /\ \A x \in Exe \ {e} : nact'[x] = nact[x]
    BY <2>1, <2>2
  <2>4. /\ state'[e] = IF nact[e] <= 1 THEN "suspended" ELSE "ready"
        /\ \A x \in Exe \ {e} : state'[x] = state[x]
    BY <2>1, <2>2 DEF StateEnded
  <2>5. ~Away(e) /\ ~Away(e)' /\ KernelNact[e] = nact[e]
    BY <1>1, <1>2 DEF Away, KernelNact
  <2>6. \A x \in Exe \ {e} : Away(x)' <=> Away(x)
    BY <1>1, <1>2, <2>1, <2>4 DEF Away, Leaving
  <2>7. KernelNact' = [KernelNact EXCEPT ![e] = @ - 1]
    <3>1. KernelNact'[e] = KernelNact[e] - 1
          /\ \A x \in Exe \ {e} : KernelNact'[x] = KernelNact[x]
      BY <2>3, <2>5, <2>6 DEF KernelNact
    <3> QED
      BY <3>1 DEF KernelNact
  <2>8. KernelState' = Kern!StateEnded(e)
    <3>1. KernelState'[e] = (IF KernelNact[e] <= 1 THEN "suspended" ELSE "ready")
          /\ \A x \in Exe \ {e} : KernelState'[x] = KernelState[x]
      BY <2>4, <2>5, <2>6 DEF KernelState
    <3> QED
      BY <3>1 DEF KernelState, Kern!StateEnded
  <2> QED
    BY <1>1, <1>2, <1>3, <1>5, <1>7, <2>7, <2>8, SameFrames, SameQueues DEF FinishExit,
       Kern!FinishExit, mutexVars, Kern!mutexVars
<1> QED
  BY <1>6, <1>7

-----------------------------------------------------------------------------
(* Waits and events                                                        *)

\* For the scheduler the caller of dv_waitevent() ends.
LEMMA SimWait ==
  ASSUME ExtInv, NEW evts \in Mask, WaitEvent(evts)
  PROVE  Kern!TerminateTask
<1>1. pc = "app" /\ Me \in Extended /\ Me \in Exe /\ Me # Idle /\ Me \notin saved
  BY KernelTypes, MeNotSaved DEF WaitEvent, ExtInv
<1>2. frames' = frames /\ jb[Me] # 0 /\ Top.e = Me
  BY <1>1, LandsOnTop DEF WaitEvent, ExtInv
<1>3. pc' = "exit" /\ saved' = saved \union {Me} /\ nact' = nact
      /\ state' = [state EXCEPT ![Me] = "waiting"]
  BY DEF WaitEvent, LongjmpToExit
<1>4. state \in [Exe -> {"suspended", "ready", "running", "waiting"}]
  BY DEF ExtInv, ContextTypes
<1>5. PICK t : t = Me
  OBVIOUS
<1>6. state'[t] = "waiting" /\ \A x \in Exe \ {t} : state'[x] = state[x]
  BY <1>1, <1>3, <1>4, <1>5
<1>7. ~Away(t) /\ ~Away(t)'
  BY <1>1, <1>2, <1>3, <1>5 DEF Away, Leaving, Top
<1>8. \A x \in Exe \ {t} : Away(x)' <=> Away(x)
  BY <1>1, <1>2, <1>3, <1>5, <1>6 DEF Away, Leaving, Top
<1>9. KernelNact' = KernelNact
  BY <1>3, <1>7, <1>8 DEF KernelNact
<1>10. KernelState[t] = "running"
  BY <1>1, <1>5, KernelStates DEF ExtInv
<1>11. KernelState'[t] = "running" /\ \A x \in Exe \ {t} : KernelState'[x] = KernelState[x]
  BY <1>1, <1>5, <1>6, <1>7, <1>8 DEF KernelState
<1>12. KernelState' = KernelState
  BY <1>1, <1>10, <1>11 DEF KernelState
<1>13. Kern!MayExit
  BY <1>1, SameFrames DEF WaitEvent, Kern!MayExit
<1>14. Kern!LongjmpToExit
  BY SameFrames DEF WaitEvent, Kern!LongjmpToExit, LongjmpToExit
<1> QED
  BY <1>1, <1>2, <1>9, <1>12, <1>13, <1>14, SameFrames DEF WaitEvent, Kern!TerminateTask,
     mutexVars, Kern!mutexVars, Kern!exeVars

\* dv_taskwaiting() takes the task from the queues as an end does.
LEMMA SimFinishWait ==
  ASSUME ExtInv, FinishWait
  PROVE  Kern!FinishExit
<1>1. pc = "exit" /\ Top.e \in saved /\ UNCHANGED saved
  BY DEF FinishWait, eventVars
<1>2. PICK e \in Exe : e = Top.e
  BY <1>1, KernelTypes DEF ExtInv, Parked
<1>3. nact[e] = 1 /\ state[e] = "waiting" /\ ~Away(e) /\ KernelNact[e] = 1
  BY <1>1, <1>2 DEF ExtInv, Parked, Leaving, Away, KernelNact
<1>4. Kern!AfterRunPrio(e) = AfterRunPrio(e)
  BY SameFrames, SameQueues DEF Kern!AfterRunPrio, AfterRunPrio
<1>5. \A reason : Panic(reason) => Kern!Panic(reason)
  BY <1>1, SeenPanic
<1>6. PICK corrupt \in BOOLEAN : corrupt <=>
        \/ Top.eprio # BasePrio[e] /\ ~IsHead(queue, Top.eprio, e)
        \/ ~IsHead(AfterRunPrio(e), BasePrio[e], e)
  OBVIOUS
<1>7. CASE corrupt
  BY <1>1, <1>2, <1>4, <1>5, <1>6, <1>7, SameFrames, SameQueues DEF FinishWait,
     Kern!FinishExit
<1>8. CASE ~corrupt
  <2>1. nact' = nact /\ state' = [state EXCEPT ![e] = "waiting"] /\ pc' = "sched"
    BY <1>1, <1>2, <1>6, <1>8 DEF FinishWait
  <2>2. state' = state
    BY <1>3, <2>1 DEF ExtInv, ContextTypes
  <2>3. Away(e)' /\ \A x \in Exe \ {e} : Away(x)' <=> Away(x)
    BY <1>1, <1>2, <1>3, <2>1, <2>2 DEF Away, Leaving
  <2>4. KernelNact' = [KernelNact EXCEPT ![e] = @ - 1]
    <3>1. KernelNact'[e] = KernelNact[e] - 1
          /\ \A x \in Exe \ {e} : KernelNact'[x] = KernelNact[x]
      BY <1>3, <2>1, <2>3 DEF KernelNact
    <3> QED
      BY <3>1 DEF KernelNact
  <2>5. KernelState' = Kern!StateEnded(e)
    <3>1. KernelState'[e] = (IF KernelNact[e] <= 1 THEN "suspended" ELSE "ready")
          /\ \A x \in Exe \ {e} : KernelState'[x] = KernelState[x]
      BY <1>3, <2>2, <2>3 DEF KernelState
    <3> QED
      BY <3>1 DEF KernelState, Kern!StateEnded
  <2> QED
    BY <1>1, <1>2, <1>4, <1>6, <1>8, <2>4, <2>5, SameFrames, SameQueues DEF FinishWait,
       Kern!FinishExit, mutexVars, Kern!mutexVars
<1> QED
  BY <1>7, <1>8

\* ... and dv_setevent() activates it, if one of the events is what it waits for.
LEMMA SimSet ==
  ASSUME ExtInv, NEW t \in Extended, NEW evts \in Mask, SetEvent(t, evts)
  PROVE  Kern!ActivateTask(t) \/ UNCHANGED Kern!vars
<1> DEFINE pend == events[t] \union evts
<1>1. pc \in {"app", "raised"} /\ t \in Exe
  BY KernelTypes DEF SetEvent, ExtInv
<1>2. CASE Releases(t, pend)
  <2>1. state[t] = "waiting" /\ t \in saved /\ nact[t] = 1 /\ Away(t)
    BY <1>1, <1>2 DEF Releases, ExtInv, Parked, Away, Leaving
  <2>2. KernelNact[t] = 0 /\ KernelState[t] = "suspended"
    BY <1>1, <2>1 DEF KernelNact, KernelState
  <2>3. Kern!CanActivate(t)
    BY <2>2, ExtendedAssumption DEF Kern!CanActivate
  <2>4. CASE Full(queue, BasePrio[t])
    <3>1. Panic("QueueOverflow") /\ UNCHANGED saved
      BY <1>2, <2>4 DEF SetEvent, eventVars
    <3>2. Kern!Panic("QueueOverflow")
      BY <3>1, SeenPanic
    <3> QED
      BY <1>1, <2>3, <2>4, <3>2, SameQueues DEF Kern!ActivateTask
  <2>5. CASE ~Full(queue, BasePrio[t])
    <3>1. /\ state' = [state EXCEPT ![t] = "ready"] /\ UNCHANGED <<nact, saved>>
          /\ queue' = Enqueue(queue, BasePrio[t], t)
          /\ RunQueued(BasePrio[t], currprio[Me], pc)
          /\ UNCHANGED <<currprio, mutexlist, jb, mutexVars, currentexe, irqlevel, panic,
                         pending>>
      BY <1>2, <2>5 DEF SetEvent
    <3>2. pc' # "exit"
      BY <1>1, <3>1 DEF RunQueued
    <3>3. state'[t] = "ready" /\ \A x \in Exe \ {t} : state'[x] = state[x]
      BY <1>1, <3>1 DEF ExtInv, ContextTypes
    <3>4. ~Away(t)' /\ \A x \in Exe \ {t} : Away(x)' <=> Away(x)
      BY <1>1, <3>1, <3>2, <3>3 DEF Away, Leaving
    <3>5. KernelNact' = [KernelNact EXCEPT ![t] = @ + 1]
      <4>1. KernelNact'[t] = KernelNact[t] + 1
            /\ \A x \in Exe \ {t} : KernelNact'[x] = KernelNact[x]
        BY <1>1, <2>1, <2>2, <3>1, <3>4 DEF KernelNact
      <4> QED
        BY <4>1 DEF KernelNact
    <3>6. KernelState' = Kern!StateActivated(t)
      <4>1. KernelState'[t] = "ready"
            /\ \A x \in Exe \ {t} : KernelState'[x] = KernelState[x]
        BY <1>1, <3>3, <3>4 DEF KernelState
      <4>2. KernelState' = [KernelState EXCEPT ![t] = "ready"]
        BY <4>1 DEF KernelState
      <4> QED
        BY <2>2, <4>2 DEF Kern!StateActivated
    <3>7. Kern!Activate(t, pc)
      BY <3>1, <3>5, <3>6, SameFrames, SameQueues, SameCalls DEF Kern!Activate, mutexVars,
         Kern!mutexVars
    <3> QED
      BY <1>1, <2>3, <2>5, <3>1, <3>7, SameQueues DEF Kern!ActivateTask
  <2> QED
    BY <2>4, <2>5
<1>3. CASE ~Releases(t, pend)
  <2>1. UNCHANGED <<state, queue, frames, pc, nact, currprio, mutexlist, jb, mutexVars,
                    currentexe, irqlevel, pending, panic, saved>>
    BY <1>3 DEF SetEvent, stackVars
  <2>2. UNCHANGED <<KernelNact, KernelState>>
    BY <2>1, SeenSame DEF Leaving, Top
  <2> QED
    BY <2>1, <2>2 DEF mutexVars, Kern!vars, Kern!exeVars, Kern!mutexVars, Kern!cpuVars
<1> QED
  BY <1>2, <1>3

LEMMA SimStutter ==
  ASSUME UNCHANGED <<vars, saved>>
  PROVE  UNCHANGED Kern!vars
<1> USE DEF vars, exeVars, cpuVars, mutexVars
<1>1. UNCHANGED <<KernelNact, KernelState>>
  BY SeenSame DEF Leaving, Top
<1> QED
  BY <1>1 DEF Kern!vars, Kern!exeVars, Kern!mutexVars, Kern!cpuVars

LEMMA SimNext ==
  ASSUME ExtInv, [XNext]_allVars
  PROVE  Kern!Next \/ UNCHANGED Kern!vars
<1> USE DEF eventVars, stackVars
<1>1. panic = "none"
  BY KernelTypes DEF ExtInv
<1>2. ASSUME NEW t \in Task, XActivateTask(t) \/ XChainTask(t) PROVE Kern!Call
  BY <1>2, SimActivateTask, SimChainTask DEF Kern!Call
<1>3. ASSUME NEW m \in Mutex, XTakeMutex(m) \/ XDropMutex(m) PROVE Kern!Call
  BY <1>3, SimTake, SimDrop DEF Kern!Call
<1>4. XRaisePrio => Kern!Call
  BY SimRaise DEF Kern!Call
<1>5. ASSUME NEW evts \in Mask, WaitEvent(evts) PROVE Kern!End
  BY <1>5, SimWait DEF Kern!End
<1>6. ASSUME NEW evts \in Mask, ClearEvent(evts) PROVE UNCHANGED Kern!vars
  BY <1>6, SimStutter DEF ClearEvent
<1>7. ASSUME NEW t \in Extended, NEW evts \in Mask, SetEvent(t, evts)
      PROVE  Kern!Call \/ UNCHANGED Kern!vars
  BY <1>7, SimSet, ExtendedAssumption DEF Kern!Call
<1>8. XKernel => Kern!Kernel
  BY SimDispatch, SimReturn, SimRelease, SimFinish, SimFinishWait, SimChainExit, SimLower,
     SimIrqDone, SimVector DEF XKernel, Kern!Kernel
<1>9. IrqWhileLanding \/ UNCHANGED allVars => UNCHANGED Kern!vars
  BY SimStutter DEF IrqWhileLanding, allVars
<1>10. XCall => Kern!Call \/ Kern!End \/ UNCHANGED Kern!vars
  BY <1>2, <1>3, <1>4, <1>5, <1>6, <1>7, SimEnd DEF XCall
<1> QED
  BY <1>1, <1>8, <1>9, <1>10, SimCatch DEF XNext, Kern!Next

-----------------------------------------------------------------------------
(* The invariant of the contexts                                           *)

LEMMA ParkedKept ==
  ASSUME Parked, saved' \subseteq saved,
         \A t \in saved' : /\ nact'[t] = nact[t] /\ (jb'[t] = jb[t] \/ jb'[t] = 0)
                           /\ Leaving(t)' => Leaving(t) /\ state'[t] = state[t]
                           /\ Leaving(t) => Leaving(t)' \/ jb'[t] = 0,
         \A e \in Exe : state'[e] = "waiting" => state[e] = "waiting" /\ e \in saved'
  PROVE  Parked'
BY DEF Parked

\* A call that leaves the activations, the states and the anchors alone
LEMMA ContextInside ==
  ASSUME ExtInv, UNCHANGED <<saved, nact, state, jb, events, awaited>>,
         pc # "exit" /\ pc' # "exit"
  PROVE  ContextTypes' /\ Parked'
<1>1. ContextTypes'
  BY DEF ExtInv, ContextTypes
<1>2. Parked'
  BY ParkedKept DEF ExtInv, Parked, Leaving
<1> QED
  BY <1>1, <1>2

LEMMA ContextCalls ==
  ASSUME ExtInv, panic' = "none",
         \/ \E m \in Mutex : XTakeMutex(m) \/ XDropMutex(m)
         \/ XRaisePrio \/ XLowerPrio \/ XCatchIrq \/ XIrqDone
  PROVE  ContextTypes' /\ Parked'
<1> USE DEF eventVars, exeVars
<1>1. ASSUME NEW m \in Mutex, XTakeMutex(m)
      PROVE  UNCHANGED <<saved, nact, state, jb, events, awaited, pc>> /\ pc = "app"
  BY <1>1 DEF XTakeMutex, TakeMutex, TakeAgain, TakeFree, Panic, cpuVars
<1>2. ASSUME NEW m \in Mutex, XDropMutex(m)
      PROVE  UNCHANGED <<saved, nact, state, jb, events, awaited>> /\ pc = "app" /\ pc' # "exit"
  BY <1>2 DEF XDropMutex, DropMutex, DropOnce, DropLast, RunQueued, Panic, cpuVars
<1>3. XRaisePrio \/ XLowerPrio \/ XCatchIrq \/ XIrqDone =>
        UNCHANGED <<saved, nact, state, jb, events, awaited>> /\ pc # "exit" /\ pc' # "exit"
  BY DEF XRaisePrio, RaisePrio, XLowerPrio, LowerPrio, XCatchIrq, CatchIrq, XIrqDone, IrqDone,
     Panic, cpuVars
<1> QED
  BY <1>1, <1>2, <1>3, ContextInside

LEMMA ContextEnd ==
  ASSUME ExtInv, panic' = "none", XEnd \/ XChainExit
  PROVE  ContextTypes' /\ Parked'
<1> USE DEF eventVars, exeVars
<1>1. /\ pc \in {"app", "chained"} /\ Me # Idle /\ pc' = "exit"
      /\ UNCHANGED <<saved, nact, state, jb, events, awaited>>
      /\ frames' = frames \/ LongjmpToExit
  <2>1. CASE XEnd
    <3>1. panic = "none"
      BY KernelTypes DEF ExtInv
    <3>2. UNCHANGED eventVars /\ (TerminateTask \/ ReturnFromMain)
      BY <2>1 DEF XEnd
    <3> QED
      BY <3>1, <3>2 DEF TerminateTask, ReturnFromMain, MayExit, Panic, LongjmpToExit
  <2>2. CASE XChainExit
    <3>1. UNCHANGED eventVars /\ ChainExit
      BY <2>2 DEF XChainExit
    <3>2. Me # Idle
      BY <3>1, KernelTypes DEF ChainExit, ExtInv, FrameInv, Current
    <3> QED
      BY <3>1, <3>2 DEF ChainExit, LongjmpToExit
  <2> QED
    BY <2>1, <2>2
<1>2. frames' = frames /\ Top.e = Me /\ Me \notin saved
  BY <1>1, LandsOnTop, MeNotSaved DEF ExtInv
<1>3. \A t \in saved : ~Leaving(t) /\ ~Leaving(t)'
  BY <1>1, <1>2 DEF Leaving, Top
<1>4. ContextTypes'
  BY <1>1 DEF ExtInv, ContextTypes
<1>5. Parked'
  BY <1>1, <1>3, ParkedKept DEF ExtInv, Parked
<1> QED
  BY <1>4, <1>5

LEMMA ContextRelease ==
  ASSUME ExtInv, panic' = "none", XReleaseMutex
  PROVE  ContextTypes' /\ Parked'
<1>1. UNCHANGED <<saved, nact, state, jb, events, awaited, pc, frames>>
  BY DEF XReleaseMutex, ReleaseMutex, Panic, eventVars, exeVars, cpuVars
<1>2. ContextTypes'
  BY <1>1 DEF ExtInv, ContextTypes
<1>3. Parked'
  BY <1>1, ParkedKept DEF ExtInv, Parked, Leaving, Top
<1> QED
  BY <1>2, <1>3

LEMMA ContextActivate ==
  ASSUME ExtInv, NEW t \in Task \union Isr, t \notin saved, NEW ret, Activate(t, ret),
         pc # "exit", ret # "exit", UNCHANGED <<saved, awaited>>,
         events' = events \/ (t \in Extended /\ events' = [events EXCEPT ![t] = {}])
  PROVE  ContextTypes' /\ Parked'
<1>1. t \in Exe
  BY DEF Exe
<1>2. pc' # "exit" /\ jb' = jb
  BY DEF Activate, RunQueued
<1>3. /\ nact \in [Exe -> Int] /\ state \in [Exe -> {"suspended", "ready", "running", "waiting"}]
      /\ events \in [Extended -> SUBSET Event] /\ awaited \in [Extended -> SUBSET Event]
  BY DEF ExtInv, ContextTypes
<1>4. nact' = [nact EXCEPT ![t] = @ + 1] /\ state' = StateActivated(t)
  BY DEF Activate
<1>5. nact' \in [Exe -> Int] /\ \A e \in Exe \ {t} : nact'[e] = nact[e]
  BY <1>1, <1>3, <1>4
<1>6. /\ state' \in [Exe -> {"suspended", "ready", "running", "waiting"}]
      /\ state'[t] \in {"ready", "running"} /\ \A e \in Exe \ {t} : state'[e] = state[e]
  BY <1>1, <1>3, <1>4 DEF StateActivated
<1>7. events' \in [Extended -> SUBSET Event]
  BY <1>3
<1>8. ContextTypes'
  BY <1>3, <1>5, <1>6, <1>7 DEF ContextTypes
<1>9. \A x \in saved : x \in Exe \ {t}
  BY KernelTypes DEF ExtInv, Parked
<1>10. Parked'
  BY <1>2, <1>5, <1>6, <1>9, ParkedKept DEF ExtInv, Parked, Leaving
<1> QED
  BY <1>8, <1>10

LEMMA ContextActivations ==
  ASSUME ExtInv, panic' = "none",
         \/ \E t \in Task : XActivateTask(t) \/ XChainTask(t)
         \/ \E i \in Isr : XVectorIrq(i)
  PROVE  ContextTypes' /\ Parked'
<1>0. panic = "none" /\ \A reason : panic' = reason => reason = "none"
  BY KernelTypes DEF ExtInv
<1>1. ASSUME NEW t \in Task, XActivateTask(t) PROVE ContextTypes' /\ Parked'
  <2>1. ActivateTask(t) /\ ClearPending(t)
    BY <1>1 DEF XActivateTask
  <2>2. CanActivate(t) /\ pc \in {"app", "raised"} /\ Activate(t, pc)
    BY <1>0, <2>1 DEF ActivateTask, Panic
  <2>3. t \notin saved
    BY <2>2, Admitted
  <2> QED
    BY <2>1, <2>2, <2>3, ContextActivate DEF ClearPending
<1>2. ASSUME NEW t \in Task, XChainTask(t) PROVE ContextTypes' /\ Parked'
  <2>1. ChainTask(t) /\ ClearPending(t)
    BY <1>2 DEF XChainTask
  <2>2. (t = Me \/ CanActivate(t)) /\ pc = "app" /\ Activate(t, "chained")
    BY <1>0, <2>1 DEF ChainTask, Panic
  <2>3. t \notin saved
    BY <2>2, Admitted
  <2> QED
    BY <2>1, <2>2, <2>3, ContextActivate DEF ClearPending
<1>3. ASSUME NEW i \in Isr, XVectorIrq(i) PROVE ContextTypes' /\ Parked'
  <2>1. VectorIrq(i) /\ UNCHANGED <<saved, events, awaited>>
    BY <1>3 DEF XVectorIrq, eventVars
  <2>2. CASE CanActivate(i)
    <3>1. pc = "irq" /\ Activate(i, "irq")
      BY <1>0, <2>1, <2>2 DEF VectorIrq, Panic
    <3>2. i \notin saved
      BY <2>2, Admitted
    <3> QED
      BY <2>1, <3>1, <3>2, ContextActivate
  <2>3. CASE ~CanActivate(i)
    <3>1. UNCHANGED <<nact, state, jb, pc>> /\ pc = "irq"
      BY <2>1, <2>3 DEF VectorIrq, exeVars
    <3> QED
      BY <2>1, <3>1, ContextInside
  <2> QED
    BY <2>2, <2>3
<1> QED
  BY <1>1, <1>2, <1>3

LEMMA ContextDispatch ==
  ASSUME ExtInv, panic' = "none", XDispatch
  PROVE  ContextTypes' /\ Parked'
<1>1. Dispatch /\ pc = "sched" /\ Waiting # {} /\ panic = "none"
  BY KernelTypes DEF XDispatch, Dispatch, ExtInv
<1>2. PICK e : e = Head(queue[Max(Waiting)])
  OBVIOUS
<1>3. e \in Exe /\ state[e] # "waiting"
  BY <1>1, <1>2, StartsQueued
<1>4. /\ state' = StateStarted(e) /\ nact' = nact /\ currentexe' = e /\ pc' = "app"
      /\ jb' = [jb EXCEPT ![e] = Len(frames)]
  BY <1>1, <1>2 DEF Dispatch, Start, Panic
<1>5. /\ saved' = saved \ {e} /\ events' = events
      /\ awaited' = IF e \in saved THEN [awaited EXCEPT ![e] = {}] ELSE awaited
  <2>1. CASE e \in Extended
    BY <1>4, <2>1 DEF XDispatch, RunExtended
  <2>2. CASE e \notin Extended
    <3>1. e \notin saved
      BY <2>2 DEF ExtInv, Parked
    <3> QED
      BY <1>4, <2>2, <3>1 DEF XDispatch
  <2> QED
    BY <2>1, <2>2
<1>6. state \in [Exe -> {"suspended", "ready", "running", "waiting"}]
  BY DEF ExtInv, ContextTypes
<1>7. /\ state' \in [Exe -> {"suspended", "ready", "running", "waiting"}]
      /\ state'[e] = "running"
      /\ \A x \in Exe \ {e} : state'[x] = "waiting" <=> state[x] = "waiting"
  BY <1>3, <1>4, <1>6 DEF StateStarted
<1>8. ContextTypes'
  BY <1>4, <1>5, <1>7 DEF ExtInv, ContextTypes
<1>9. \A x \in saved' : x \in Exe \ {e} /\ x \in saved
  BY <1>5, KernelTypes DEF ExtInv, Parked
<1>10. jb \in [Exe -> Nat]
  BY KernelTypes DEF ExtInv
<1>11. \A x \in saved' : nact'[x] = nact[x] /\ jb'[x] = jb[x]
  BY <1>4, <1>9, <1>10
<1>12. \A x \in Exe : state'[x] = "waiting" => state[x] = "waiting" /\ x \in saved'
  BY <1>5, <1>7 DEF ExtInv, Parked
<1>13. Parked'
  BY <1>1, <1>4, <1>5, <1>11, <1>12, ParkedKept DEF ExtInv, Leaving
<1> QED
  BY <1>8, <1>13

LEMMA ContextReturn ==
  ASSUME ExtInv, panic' = "none", XReturn
  PROVE  ContextTypes' /\ Parked'
<1>1. Return /\ pc = "sched" /\ UNCHANGED <<saved, nact, jb, events, awaited>>
  BY DEF XReturn, Return, eventVars
<1>2. frames # <<>> /\ frames \in Seq(FrameType)
  BY <1>1, KernelTypes DEF ExtInv, FrameInv, Current
<1>3. Len(frames) \in 1 .. Len(frames) /\ Top = frames[Len(frames)] /\ Top \in FrameType
  BY <1>2 DEF Top
<1>4. PICK e \in Exe : e = Top.exe
  BY <1>3 DEF FrameType
<1>5. pc' # "exit"
  BY <1>1, <1>3 DEF Return, FrameType
<1>6. state' = IF Me # e THEN [state EXCEPT ![e] = "running"] ELSE state
  BY <1>1, <1>4 DEF Return
<1>7. /\ state' \in [Exe -> {"suspended", "ready", "running", "waiting"}]
      /\ \A x \in Exe : state'[x] = "waiting" => state[x] = "waiting"
  BY <1>6 DEF ExtInv, ContextTypes
<1>8. ContextTypes'
  BY <1>1, <1>7 DEF ExtInv, ContextTypes
<1>9. Parked'
  BY <1>1, <1>5, <1>7, ParkedKept DEF ExtInv, Parked, Leaving
<1> QED
  BY <1>8, <1>9

LEMMA ContextFinish ==
  ASSUME ExtInv, panic' = "none", XFinishExit
  PROVE  ContextTypes' /\ Parked'
<1>1. FinishExit /\ Top.e \notin saved /\ UNCHANGED <<saved, events, awaited>> /\ pc = "exit"
  BY DEF XFinishExit, FinishExit, eventVars
<1>2. panic = "none" /\ jb \in [Exe -> Nat]
  BY KernelTypes DEF ExtInv
<1>3. PICK e \in Exe : e = Top.e
  <2>1. Me # Idle
    BY <1>1, KernelTypes DEF ExtInv, FrameInv, Current
  <2> QED
    BY <1>1, <2>1, OnTop, KernelTypes DEF ExtInv
<1>4. /\ nact' = [nact EXCEPT ![e] = @ - 1] /\ state' = StateEnded(e)
      /\ jb' = [jb EXCEPT ![e] = 0] /\ pc' = "sched"
  BY <1>1, <1>2, <1>3 DEF FinishExit, Panic
<1>5. /\ state' \in [Exe -> {"suspended", "ready", "running", "waiting"}]
      /\ \A x \in Exe : state'[x] = "waiting" => state[x] = "waiting"
  BY <1>4 DEF StateEnded, ExtInv, ContextTypes
<1>6. nact' \in [Exe -> Int] /\ \A x \in Exe : x # e => nact'[x] = nact[x]
  BY <1>4 DEF ExtInv, ContextTypes
<1>7. ContextTypes'
  BY <1>1, <1>5, <1>6 DEF ExtInv, ContextTypes
<1>8. \A x \in saved : x \in Exe /\ x # e /\ ~Leaving(x)
  BY <1>1, <1>3, KernelTypes DEF ExtInv, Parked, Leaving
<1>9. \A x \in saved' : nact'[x] = nact[x] /\ jb'[x] = jb[x]
  BY <1>1, <1>2, <1>4, <1>6, <1>8
<1>10. Parked'
  BY <1>1, <1>4, <1>5, <1>8, <1>9, ParkedKept DEF ExtInv, Parked, Leaving
<1> QED
  BY <1>7, <1>10

LEMMA ContextWait ==
  ASSUME ExtInv, NEW evts \in Mask, WaitEvent(evts)
  PROVE  ContextTypes' /\ Parked'
<1>1. pc = "app" /\ Me \in Extended /\ Me \in Exe /\ Me # Idle /\ Me \notin saved
  BY KernelTypes, MeNotSaved DEF WaitEvent, ExtInv
<1>2. frames' = frames /\ Top.e = Me
  BY <1>1, LandsOnTop DEF WaitEvent, ExtInv
<1>3. PICK t : t = Me
  OBVIOUS
<1>4. /\ pc' = "exit" /\ saved' = saved \union {t} /\ nact' = nact /\ jb' = jb
      /\ state' = [state EXCEPT ![t] = "waiting"]
      /\ awaited' = [awaited EXCEPT ![t] = evts] /\ events' = events
  BY <1>3 DEF WaitEvent, LongjmpToExit
<1>5. evts \in SUBSET Event
  BY DEF Mask
<1>6. /\ state' \in [Exe -> {"suspended", "ready", "running", "waiting"}]
      /\ state'[t] = "waiting" /\ \A x \in Exe \ {t} : state'[x] = state[x]
  BY <1>1, <1>3, <1>4 DEF ExtInv, ContextTypes
<1>7. ContextTypes'
  BY <1>1, <1>3, <1>4, <1>5, <1>6 DEF ExtInv, ContextTypes
<1>8. nact[t] = 1
  BY <1>1, <1>3, OneActivation, SeenNotSaved DEF ExtInv
<1>9. \A x \in saved : x # t /\ ~Leaving(x) /\ ~Leaving(x)'
  BY <1>1, <1>2, <1>3, <1>4 DEF Leaving, Top
<1>10. Leaving(t)'
  BY <1>2, <1>3, <1>4 DEF Leaving, Top
<1>11. saved' \subseteq Extended
  BY <1>1, <1>3, <1>4 DEF ExtInv, Parked
<1>12. \A x \in saved' : /\ nact'[x] = 1
                         /\ IF Leaving(x)' THEN state'[x] = "waiting" ELSE jb'[x] = 0
  BY <1>4, <1>6, <1>8, <1>9, <1>10 DEF ExtInv, Parked
<1>13. \A x \in Exe : state'[x] = "waiting" => x \in saved'
  BY <1>4, <1>6 DEF ExtInv, Parked
<1>14. Parked'
  BY <1>11, <1>12, <1>13 DEF Parked
<1> QED
  BY <1>7, <1>14

LEMMA ContextFinishWait ==
  ASSUME ExtInv, panic' = "none", FinishWait
  PROVE  ContextTypes' /\ Parked'
<1>1. pc = "exit" /\ Top.e \in saved /\ UNCHANGED <<saved, events, awaited>>
  BY DEF FinishWait, eventVars
<1>2. panic = "none" /\ jb \in [Exe -> Nat]
  BY KernelTypes DEF ExtInv
<1>3. PICK e \in Exe : e = Top.e
  BY <1>1, KernelTypes DEF ExtInv, Parked
<1>4. /\ nact' = nact /\ state' = [state EXCEPT ![e] = "waiting"]
      /\ jb' = [jb EXCEPT ![e] = 0] /\ pc' = "sched"
  BY <1>2, <1>3 DEF FinishWait, Panic
<1>5. state[e] = "waiting"
  BY <1>1, <1>3 DEF ExtInv, Parked, Leaving
<1>6. state' = state
  BY <1>4, <1>5 DEF ExtInv, ContextTypes
<1>7. ContextTypes'
  BY <1>1, <1>4, <1>6 DEF ExtInv, ContextTypes
<1>8. \A x \in saved : x \in Exe
  BY KernelTypes DEF ExtInv, Parked
<1>9. \A x \in saved : ~Leaving(x)' /\ (Leaving(x) => jb'[x] = 0)
                       /\ (jb'[x] = jb[x] \/ jb'[x] = 0)
  BY <1>1, <1>2, <1>3, <1>4, <1>8 DEF Leaving
<1>10. Parked'
  BY <1>1, <1>4, <1>6, <1>9, ParkedKept DEF ExtInv, Parked
<1> QED
  BY <1>7, <1>10

LEMMA ContextEvents ==
  ASSUME ExtInv, panic' = "none",
         \/ \E evts \in Mask : ClearEvent(evts)
         \/ \E t \in Extended, evts \in Mask : SetEvent(t, evts)
  PROVE  ContextTypes' /\ Parked'
<1>1. ASSUME NEW evts \in Mask, ClearEvent(evts) PROVE ContextTypes' /\ Parked'
  <2>1. UNCHANGED <<saved, nact, state, jb, awaited, pc, frames>>
        /\ events' = [events EXCEPT ![Me] = @ \ evts]
    BY <1>1 DEF ClearEvent, vars, exeVars, cpuVars
  <2>2. ContextTypes'
    BY <2>1 DEF ExtInv, ContextTypes
  <2>3. Parked'
    BY <2>1, ParkedKept DEF ExtInv, Parked, Leaving, Top
  <2> QED
    BY <2>2, <2>3
<1>2. ASSUME NEW t \in Extended, NEW evts \in Mask, SetEvent(t, evts)
      PROVE  ContextTypes' /\ Parked'
  <2>1. t \in Exe /\ panic = "none" /\ pc \in {"app", "raised"}
    BY <1>2, KernelTypes DEF ExtInv, SetEvent
  <2>2. /\ events' = [events EXCEPT ![t] = events[t] \union evts]
        /\ state' = state \/ state' = [state EXCEPT ![t] = "ready"]
        /\ UNCHANGED <<nact, jb, awaited, saved>> /\ pc' # "exit"
    BY <1>2, <2>1 DEF SetEvent, Panic, RunQueued
  <2>3. evts \subseteq Event
    BY DEF Mask
  <2>4. /\ state' \in [Exe -> {"suspended", "ready", "running", "waiting"}]
        /\ \A x \in Exe : state'[x] = "waiting" => state[x] = "waiting"
    BY <2>1, <2>2 DEF ExtInv, ContextTypes
  <2>5. ContextTypes'
    BY <2>2, <2>3, <2>4 DEF ExtInv, ContextTypes
  <2>6. Parked'
    BY <2>1, <2>2, <2>4, ParkedKept DEF ExtInv, Parked, Leaving
  <2> QED
    BY <2>5, <2>6
<1> QED
  BY <1>1, <1>2

LEMMA SimInit ==
  ASSUME XInit
  PROVE  Kern!Init
<1>1. /\ nact = [e \in Exe |-> IF e = Idle THEN 1 ELSE 0]
      /\ state = [e \in Exe |-> IF e = Idle THEN "running" ELSE "suspended"]
      /\ saved = {}
  BY DEF XInit, Init
<1>2. KernelNact = nact /\ KernelState = state
  BY <1>1 DEF KernelNact, KernelState, Away
<1> QED
  BY <1>2, SameConstants DEF XInit, Init, Kern!Init, LockAll, Kern!LockAll

LEMMA ExtStart == XInit => ExtInv
<1> SUFFICES ASSUME XInit PROVE ExtInv
  OBVIOUS
<1>1. Kern!KernelInv
  BY SimInit, Kern!KernelStart, SameSizes, SameConstants, ExeAssumption, PrioAssumption,
     RunPrioAssumption, MaxActAssumption, MutexAssumption, LibertiesAssumption
<1>2. ContextTypes /\ Parked
  BY DEF XInit, Init, ContextTypes, Parked
<1> QED
  BY <1>1, <1>2 DEF ExtInv

LEMMA ExtStep ==
  ASSUME Disciplined
  PROVE  ExtInv /\ [XNext]_allVars => ExtInv'
<1> SUFFICES ASSUME ExtInv, [XNext]_allVars PROVE ExtInv'
  OBVIOUS
<1>1. Kern!KernelInv'
  BY SimNext, KernelKept DEF ExtInv
<1>2. panic' = "none"
  BY <1>1 DEF Kern!KernelInv, Kern!QueuesInv
<1>3. ContextTypes' /\ Parked'
  <2>1. CASE UNCHANGED allVars \/ IrqWhileLanding
    <3>1. UNCHANGED <<saved, nact, state, jb, events, awaited, pc, frames>>
      BY <2>1 DEF allVars, IrqWhileLanding, vars, exeVars, cpuVars, eventVars
    <3>2. ContextTypes'
      BY <3>1 DEF ExtInv, ContextTypes
    <3>3. Parked'
      BY <3>1, ParkedKept DEF ExtInv, Parked, Leaving, Top
    <3> QED
      BY <3>2, <3>3
  <2>2. CASE XCall
    BY <1>2, <2>2, ContextActivations, ContextCalls, ContextEnd, ContextWait, ContextEvents
       DEF XCall
  <2>3. CASE XKernel
    BY <1>2, <2>3, ContextDispatch, ContextReturn, ContextRelease, ContextFinish,
       ContextFinishWait, ContextEnd, ContextCalls, ContextActivations DEF XKernel
  <2>4. CASE XCatchIrq
    BY <1>2, <2>4, ContextCalls
  <2> QED
    BY <2>1, <2>2, <2>3, <2>4 DEF XNext
<1> QED
  BY <1>1, <1>3 DEF ExtInv

\* With extended tasks the kernel still behaves like the kernel without them: a wait
\* is the end of an activation, the event that ends it a new activation
\* (dv_waitevent(), dv_taskwaiting(), dv_setevent()), and a jump back to the kernel stack
\* is not seen.
THEOREM RefinesDavroska ==
  ASSUME Disciplined
  PROVE  XSpec => ImplementsDavroska
<1>1. ExtInv /\ [XNext]_allVars => [Basic!Next]_(Basic!vars)
  <2>1. UNCHANGED Kern!vars => UNCHANGED Basic!vars
    BY SameSpec
  <2> QED
    BY <2>1, SimNext, SameStep
<1>2. XInit => Basic!Init
  BY SimInit, SameSpec
<1> QED
  BY <1>1, <1>2, ExtStart, ExtStep, PTL DEF XSpec, ImplementsDavroska, Basic!Spec

-----------------------------------------------------------------------------
(* Events                                                                  *)

\* A task awaits something exactly while its context is saved.
Awaiting == saved = {t \in Extended : awaited[t] # {}}

EventInv == NoLostWakeup /\ Awaiting

LEMMA EventsKept ==
  ASSUME EventInv, UNCHANGED <<saved, awaited>>,
         \A t \in Extended : /\ state'[t] = "waiting" => state[t] = "waiting"
                             /\ events'[t] \subseteq events[t]
  PROVE  EventInv'
BY DEF EventInv, NoLostWakeup, Awaiting

\* Only dv_waitevent() and dv_setevent() can leave a task waiting for what it has.
LEMMA EventsQuiet ==
  ASSUME ExtInv, ExtInv', EventInv, panic' = "none",
         XNext, ~XDispatch, \A evts \in Mask : ~WaitEvent(evts),
         \A t \in Extended, evts \in Mask : ~SetEvent(t, evts)
  PROVE  EventInv'
<1> USE DEF eventVars, exeVars, cpuVars, vars
<1>0. /\ panic = "none" /\ Me \in Exe /\ Extended \subseteq Exe
      /\ state \in [Exe -> {"suspended", "ready", "running", "waiting"}]
      /\ events \in [Extended -> SUBSET Event]
  BY KernelTypes DEF ExtInv, ContextTypes
<1>1. ASSUME NEW t \in Task \union Isr, NEW ret, Activate(t, ret) \/ UNCHANGED state,
             ClearPending(t) \/ UNCHANGED eventVars
      PROVE  EventInv'
  <2>1. \A x \in Exe : state'[x] = "waiting" => state[x] = "waiting"
    BY <1>0, <1>1 DEF Activate, StateActivated
  <2>2. UNCHANGED <<saved, awaited>> /\ \A x \in Extended : events'[x] \subseteq events[x]
    BY <1>0, <1>1 DEF ClearPending
  <2> QED
    BY <1>0, <2>1, <2>2, EventsKept
<1>2. ASSUME NEW t \in Task, XActivateTask(t) PROVE EventInv'
  <2>1. Activate(t, pc) /\ ClearPending(t)
    BY <1>0, <1>2 DEF XActivateTask, ActivateTask, Panic
  <2> QED
    BY <1>1, <2>1
<1>3. ASSUME NEW t \in Task, XChainTask(t) PROVE EventInv'
  <2>1. Activate(t, "chained") /\ ClearPending(t)
    BY <1>0, <1>3 DEF XChainTask, ChainTask, Panic
  <2> QED
    BY <1>1, <2>1
<1>4. ASSUME NEW i \in Isr, XVectorIrq(i) PROVE EventInv'
  <2>1. (Activate(i, "irq") \/ UNCHANGED state) /\ UNCHANGED eventVars
    BY <1>0, <1>4 DEF XVectorIrq, VectorIrq, Panic
  <2> QED
    BY <1>1, <2>1
<1>5. ASSUME UNCHANGED <<saved, awaited, events, state>> PROVE EventInv'
  BY <1>5, EventsKept
<1>6. ASSUME NEW m \in Mutex, XTakeMutex(m) \/ XDropMutex(m) PROVE EventInv'
  <2>1. UNCHANGED <<saved, awaited, events, state>>
    BY <1>6 DEF XTakeMutex, TakeMutex, TakeAgain, TakeFree, XDropMutex, DropMutex, DropOnce,
       DropLast, Panic
  <2> QED
    BY <1>5, <2>1
<1>7. XRaisePrio \/ XLowerPrio \/ XCatchIrq \/ XIrqDone \/ XReleaseMutex =>
        UNCHANGED <<saved, awaited, events, state>>
  BY DEF XRaisePrio, RaisePrio, XLowerPrio, LowerPrio, XCatchIrq, CatchIrq, XIrqDone, IrqDone,
     XReleaseMutex, ReleaseMutex, Panic
<1>8. XEnd \/ XChainExit => UNCHANGED <<saved, awaited, events, state>>
  BY DEF XEnd, TerminateTask, ReturnFromMain, XChainExit, ChainExit, Panic
<1>9. ASSUME NEW evts \in Mask, ClearEvent(evts) PROVE EventInv'
  <2>1. UNCHANGED <<saved, awaited, state>> /\ \A x \in Extended : events'[x] \subseteq events[x]
    BY <1>0, <1>9 DEF ClearEvent
  <2> QED
    BY <2>1, EventsKept
<1>10. ASSUME XReturn \/ XFinishExit PROVE EventInv'
  <2>1. \A x \in Exe : state'[x] = "waiting" => state[x] = "waiting"
    BY <1>0, <1>10 DEF XReturn, Return, XFinishExit, FinishExit, StateEnded, Panic
  <2>2. UNCHANGED <<saved, awaited, events>>
    BY <1>10 DEF XReturn, XFinishExit
  <2> QED
    BY <1>0, <2>1, <2>2, EventsKept
<1>11. ASSUME FinishWait PROVE EventInv'
  <2>1. PICK e : e = Top.e
    OBVIOUS
  <2>2. pc = "exit" /\ e \in saved /\ UNCHANGED <<saved, awaited, events>>
    BY <1>11, <2>1 DEF FinishWait
  <2>3. state[e] = "waiting"
    BY <2>1, <2>2 DEF ExtInv, Parked, Leaving
  <2>4. state' = [state EXCEPT ![e] = "waiting"]
    BY <1>0, <1>11, <2>1 DEF FinishWait, Panic
  <2>5. \A x \in Exe : state'[x] = state[x]
    BY <1>0, <2>3, <2>4
  <2> QED
    BY <1>0, <2>2, <2>5, EventsKept
<1>12. IrqWhileLanding => UNCHANGED <<saved, awaited, events, state>>
  BY DEF IrqWhileLanding
<1>13. XCall => EventInv'
  BY <1>2, <1>3, <1>5, <1>6, <1>7, <1>8, <1>9 DEF XCall
<1>14. XKernel => EventInv'
  BY <1>4, <1>5, <1>7, <1>8, <1>10, <1>11 DEF XKernel
<1> QED
  BY <1>5, <1>7, <1>12, <1>13, <1>14 DEF XNext

LEMMA EventsNext ==
  ASSUME ExtInv, ExtInv', EventInv, [XNext]_allVars
  PROVE  EventInv'
<1>0. panic = "none" /\ panic' = "none" /\ Extended \subseteq Exe /\ Me \in Exe
  BY KernelTypes DEF ExtInv, Kern!KernelInv, Kern!QueuesInv
<1>t. /\ state \in [Exe -> {"suspended", "ready", "running", "waiting"}]
      /\ events \in [Extended -> SUBSET Event] /\ awaited \in [Extended -> SUBSET Event]
  BY DEF ExtInv, ContextTypes
<1>1. ASSUME NEW evts \in Mask, WaitEvent(evts) PROVE EventInv'
  <2>1. PICK t \in Extended : t = Me
    BY <1>1 DEF WaitEvent
  <2>2. /\ evts \cap events[t] = {} /\ events' = events /\ saved' = saved \union {t}
        /\ awaited' = [awaited EXCEPT ![t] = evts] /\ state' = [state EXCEPT ![t] = "waiting"]
    BY <1>1, <2>1 DEF WaitEvent, MustWait
  <2>3. evts \subseteq Event /\ evts # {}
    BY DEF Mask
  <2>4. NoLostWakeup'
    BY <1>0, <1>t, <2>1, <2>2, <2>3 DEF EventInv, NoLostWakeup
  <2>5. Awaiting'
    BY <1>t, <2>1, <2>2, <2>3 DEF EventInv, Awaiting
  <2> QED
    BY <2>4, <2>5 DEF EventInv
<1>2. ASSUME NEW t \in Extended, NEW evts \in Mask, SetEvent(t, evts) PROVE EventInv'
  <2>1. PICK pend : pend = events[t] \union evts
    OBVIOUS
  <2>2. /\ events' = [events EXCEPT ![t] = pend] /\ UNCHANGED <<saved, awaited>>
        /\ IF Releases(t, pend) THEN state' = [state EXCEPT ![t] = "ready"]
                                ELSE state' = state
    BY <1>0, <1>2, <2>1 DEF SetEvent, Panic
  <2>3. NoLostWakeup'
    <3>1. CASE Releases(t, pend)
      BY <1>0, <1>t, <2>2, <3>1 DEF EventInv, NoLostWakeup
    <3>2. CASE ~Releases(t, pend)
      BY <1>0, <1>t, <2>2, <3>2 DEF EventInv, NoLostWakeup, Releases
    <3> QED
      BY <3>1, <3>2
  <2>4. Awaiting'
    BY <2>2 DEF EventInv, Awaiting
  <2> QED
    BY <2>3, <2>4 DEF EventInv
<1>3. ASSUME XDispatch PROVE EventInv'
  <2>1. PICK e : e = Head(queue[Max(Waiting)])
    OBVIOUS
  <2>2. e \in Exe
    BY <1>3, <2>1, StartsQueued DEF XDispatch, Dispatch
  <2>3. /\ state' = StateStarted(e) /\ currentexe' = e
    BY <1>0, <1>3, <2>1 DEF XDispatch, Dispatch, Start, Panic
  <2>4. state'[e] = "running" /\ \A x \in Exe : state'[x] = "waiting" => state[x] = "waiting"
    BY <1>t, <2>2, <2>3 DEF StateStarted
  <2>5. /\ saved' = saved \ {e} /\ events' = events
        /\ awaited' = IF e \in saved THEN [awaited EXCEPT ![e] = {}] ELSE awaited
    <3>1. CASE e \in Extended
      BY <1>0, <1>3, <2>3, <3>1 DEF XDispatch, RunExtended
    <3>2. CASE e \notin Extended
      <4>1. e \notin saved
        BY <3>2 DEF ExtInv, Parked
      <4> QED
        BY <1>3, <2>3, <3>2, <4>1 DEF XDispatch
    <3> QED
      BY <3>1, <3>2
  <2>6. NoLostWakeup'
    BY <1>0, <1>t, <2>4, <2>5 DEF EventInv, NoLostWakeup
  <2>7. Awaiting'
    BY <1>t, <2>5 DEF EventInv, Awaiting
  <2> QED
    BY <2>6, <2>7 DEF EventInv
<1>4. CASE UNCHANGED allVars
  <2>1. UNCHANGED <<saved, awaited, events, state>>
    BY <1>4 DEF allVars, eventVars, vars, exeVars
  <2> QED
    BY <2>1, EventsKept
<1> QED
  BY <1>0, <1>1, <1>2, <1>3, <1>4, EventsQuiet

\* A task does not wait for an event that it has: however dv_waitevent() and
\* dv_setevent() follow each other, the task is released once for it.
THEOREM NoWakeupLost ==
  ASSUME Disciplined
  PROVE  XSpec => []NoLostWakeup
<1>1. XInit => EventInv
  BY DEF XInit, Init, EventInv, NoLostWakeup, Awaiting
<1>2. EventInv => NoLostWakeup
  BY DEF EventInv
<1> QED
  BY <1>1, <1>2, EventsNext, ExtStart, ExtStep, PTL DEF XSpec


-----------------------------------------------------------------------------
(* The two stacks                                                          *)

\* The extended tasks do not preempt each other.  With different priorities the anchor
\* does get out of place: dv_runextended() sets it for each task that it starts, and
\* nobody sets it again for the one that was preempted.
OnePriority == \A s, t \in Extended : BasePrio[s] = BasePrio[t]

\* The flag belongs to the code that runs, and the anchor to whoever could use it.
Flagged == IF pc \in {"sched", "exit"} THEN onkernelstack = TRUE
                                       ELSE onkernelstack = (Me \notin Extended)

StackInv == /\ AnchorInPlace
            /\ Flagged
            /\ \A t \in Extended : jb[t] # 0 => kjmpbuf = jb[t]

\* A request of the code that runs finds its anchor.
LEMMA AnchorFound ==
  ASSUME ExtInv, StackInv, pc \notin {"sched", "exit"}
  PROVE  WildAnchor = wild
<1>1. CASE onkernelstack
  BY <1>1 DEF WildAnchor
<1>2. CASE ~onkernelstack
  <2>1. Me \in Extended
    BY <1>2 DEF StackInv, Flagged
  <2>2. Me # Idle /\ Live(Me)
    BY <2>1, KernelTypes, AllLive DEF ExtInv
  <2>3. jb[Me] # 0
    BY <2>2 DEF Live
  <2>4. kjmpbuf = jb[Me]
    BY <2>1, <2>3 DEF StackInv
  <2> QED
    BY <2>4 DEF WildAnchor
<1> QED
  BY <1>1, <1>2

\* A call that returns to its caller or goes on in the scheduler, on the kernel stack
LEMMA StacksOnCall ==
  ASSUME ExtInv, StackInv, pc \notin {"sched", "exit"}, pc' # "exit",
         currentexe' = currentexe, jb' = jb,
         Hop \/ (UNCHANGED stackVars /\ pc' # "sched")
  PROVE  StackInv'
<1>1. wild' = wild /\ kjmpbuf' = kjmpbuf
  BY AnchorFound DEF Hop, stackVars
<1>2. onkernelstack' = (onkernelstack \/ pc' = "sched")
  BY DEF Hop, stackVars, StackInv, Flagged
<1>3. Flagged'
  <2>1. CASE pc' = "sched"
    BY <1>2, <2>1 DEF Flagged
  <2>2. CASE pc' # "sched"
    BY <1>2, <2>2 DEF Flagged, StackInv, Me
  <2> QED
    BY <2>1, <2>2
<1> QED
  BY <1>1, <1>3 DEF StackInv, AnchorInPlace

\* A jump to the frame that has started the caller
LEMMA StacksOnLanding ==
  ASSUME StackInv, Land, pc' = "exit", jb' = jb
  PROVE  StackInv'
BY DEF StackInv, AnchorInPlace, Flagged, Land

\* The scheduler between the end of an executable and the next one
LEMMA StacksInKernel ==
  ASSUME StackInv, UNCHANGED stackVars, pc = "exit", pc' \in {"sched", "exit"},
         \A t \in Extended : jb'[t] = jb[t] \/ jb'[t] = 0
  PROVE  StackInv'
BY DEF StackInv, AnchorInPlace, Flagged, stackVars

LEMMA StacksOnCalls ==
  ASSUME ExtInv, StackInv, panic' = "none",
         \/ \E t \in Task : XActivateTask(t) \/ XChainTask(t)
         \/ \E m \in Mutex : XTakeMutex(m) \/ XDropMutex(m)
         \/ \E i \in Isr : XVectorIrq(i)
         \/ XRaisePrio \/ XLowerPrio \/ XCatchIrq \/ XIrqDone
  PROVE  StackInv'
<1> USE DEF exeVars, cpuVars, mutexVars
<1>0. panic = "none" /\ \A reason : panic' = reason => reason = "none"
  BY KernelTypes DEF ExtInv
<1>1. ASSUME NEW t \in Task, XActivateTask(t) PROVE StackInv'
  <2>1. Activate(t, pc) /\ Hop /\ pc \in {"app", "raised"}
    BY <1>0, <1>1 DEF XActivateTask, ActivateTask, Panic, HopUnlessPanic
  <2>2. pc' # "exit" /\ currentexe' = currentexe /\ jb' = jb
    BY <2>1 DEF Activate, RunQueued
  <2> QED
    BY <2>1, <2>2, StacksOnCall
<1>2. ASSUME NEW t \in Task, XChainTask(t) PROVE StackInv'
  <2>1. Activate(t, "chained") /\ Hop /\ pc = "app"
    BY <1>0, <1>2 DEF XChainTask, ChainTask, Panic, HopUnlessPanic
  <2>2. pc' # "exit" /\ currentexe' = currentexe /\ jb' = jb
    BY <2>1 DEF Activate, RunQueued
  <2> QED
    BY <2>1, <2>2, StacksOnCall
<1>3. ASSUME NEW m \in Mutex, XTakeMutex(m) PROVE StackInv'
  <2>1. pc = "app" /\ UNCHANGED <<stackVars, pc, currentexe, jb>>
    BY <1>0, <1>3 DEF XTakeMutex, TakeMutex, TakeAgain, TakeFree, Panic
  <2> QED
    BY <2>1, StacksOnCall
<1>4. ASSUME NEW m \in Mutex, XDropMutex(m) PROVE StackInv'
  <2>1. pc = "app" /\ pc' \in {"app", "sched"} /\ UNCHANGED <<currentexe, jb>>
    BY <1>0, <1>4 DEF XDropMutex, DropMutex, DropOnce, DropLast, RunQueued, Panic
  <2>2. Hop \/ (UNCHANGED stackVars /\ pc' # "sched")
    BY <1>4 DEF XDropMutex
  <2> QED
    BY <2>1, <2>2, StacksOnCall
<1>5. ASSUME NEW i \in Isr, XVectorIrq(i) PROVE StackInv'
  <2>1. pc = "irq" /\ pc' \in {"irq", "sched"} /\ UNCHANGED <<currentexe, jb>>
    BY <1>0, <1>5 DEF XVectorIrq, VectorIrq, Activate, RunQueued, Panic
  <2>2. CASE nact' # nact
    BY <1>5, <2>1, <2>2, StacksOnCall DEF XVectorIrq
  <2>3. CASE nact' = nact
    <3>1. i \in Exe /\ nact \in [Exe -> Int]
      BY DEF Exe, ExtInv, ContextTypes
    <3>2. ~Activate(i, "irq")
      BY <2>3, <3>1 DEF Activate
    <3>3. pc' = pc
      BY <1>0, <1>5, <3>2 DEF XVectorIrq, VectorIrq, Panic
    <3> QED
      BY <1>5, <2>1, <2>3, <3>3, StacksOnCall DEF XVectorIrq
  <2> QED
    BY <2>2, <2>3
<1>6. ASSUME XRaisePrio \/ XCatchIrq PROVE StackInv'
  <2>1. /\ pc \in {"app", "chained"} /\ pc' \in {"raised", "irq"}
        /\ UNCHANGED <<stackVars, currentexe, jb>>
    BY <1>0, <1>6 DEF XRaisePrio, RaisePrio, XCatchIrq, CatchIrq, Panic
  <2> QED
    BY <2>1, StacksOnCall
<1>7. ASSUME XLowerPrio \/ XIrqDone PROVE StackInv'
  <2>1. pc \in {"raised", "irq"} /\ pc' = "sched" /\ UNCHANGED <<currentexe, jb>> /\ Hop
    BY <1>0, <1>7 DEF XLowerPrio, LowerPrio, XIrqDone, IrqDone, Panic, HopUnlessPanic
  <2> QED
    BY <2>1, StacksOnCall
<1> QED
  BY <1>1, <1>2, <1>3, <1>4, <1>5, <1>6, <1>7

LEMMA StacksOnEvents ==
  ASSUME ExtInv, StackInv, panic' = "none",
         \/ \E evts \in Mask : WaitEvent(evts) \/ ClearEvent(evts)
         \/ \E t \in Extended, evts \in Mask : SetEvent(t, evts)
  PROVE  StackInv'
<1>0. panic = "none"
  BY KernelTypes DEF ExtInv
<1>1. ASSUME NEW evts \in Mask, WaitEvent(evts) PROVE StackInv'
  BY <1>1, StacksOnLanding DEF WaitEvent, LongjmpToExit
<1>2. ASSUME NEW evts \in Mask, ClearEvent(evts) PROVE StackInv'
  BY <1>2, StacksOnCall DEF ClearEvent, vars, exeVars, cpuVars
<1>3. ASSUME NEW t \in Extended, NEW evts \in Mask, SetEvent(t, evts) PROVE StackInv'
  <2>1. /\ pc \in {"app", "raised"} /\ pc' \in {pc, "sched"}
        /\ UNCHANGED <<currentexe, jb>>
        /\ Hop \/ (UNCHANGED stackVars /\ pc' = pc)
    BY <1>0, <1>3 DEF SetEvent, RunQueued, Panic
  <2> QED
    BY <2>1, StacksOnCall
<1> QED
  BY <1>1, <1>2, <1>3

LEMMA StacksOnEnd ==
  ASSUME ExtInv, StackInv, panic' = "none",
         XEnd \/ XChainExit \/ XReleaseMutex \/ XFinishExit \/ FinishWait
  PROVE  StackInv'
<1> USE DEF exeVars, cpuVars
<1>0. panic = "none" /\ jb \in [Exe -> Nat] /\ Extended \subseteq Exe
  BY KernelTypes DEF ExtInv
<1>1. ASSUME XEnd \/ XChainExit PROVE StackInv'
  <2>1. Land /\ pc' = "exit" /\ jb' = jb
    BY <1>0, <1>1 DEF XEnd, TerminateTask, ReturnFromMain, XChainExit, ChainExit,
       LongjmpToExit, Panic
  <2> QED
    BY <2>1, StacksOnLanding
<1>2. ASSUME XReleaseMutex PROVE StackInv'
  <2>1. UNCHANGED <<stackVars, pc, jb>> /\ pc = "exit"
    BY <1>0, <1>2 DEF XReleaseMutex, ReleaseMutex, Panic
  <2> QED
    BY <2>1, StacksInKernel
<1>3. ASSUME XFinishExit \/ FinishWait PROVE StackInv'
  <2>1. PICK e : e = Top.e
    OBVIOUS
  <2>2. /\ UNCHANGED stackVars /\ pc = "exit" /\ pc' = "sched"
        /\ jb' = [jb EXCEPT ![e] = 0]
    BY <1>0, <1>3, <2>1 DEF XFinishExit, FinishExit, FinishWait, Panic
  <2>3. \A t \in Extended : jb'[t] = jb[t] \/ jb'[t] = 0
    BY <1>0, <2>2
  <2> QED
    BY <2>2, <2>3, StacksInKernel
<1> QED
  BY <1>1, <1>2, <1>3

\* What dv_runqueued() starts is more urgent than each task on its stack.
LEMMA StartsAbove ==
  ASSUME ExtInv, pc = "sched", Waiting # {}, NEW e, e = Head(queue[Max(Waiting)]),
         NEW t \in Extended, jb[t] # 0
  PROVE  BasePrio[e] > BasePrio[t]
<1> USE SameSizes, SameConstants, SameFrames, ExeAssumption, PrioAssumption,
        RunPrioAssumption, MaxActAssumption, MutexAssumption, LibertiesAssumption
<1>1. PICK r \in [Mutex -> Nat] : Kern!IndInv(r)
  BY DEF ExtInv, Kern!KernelInv, Kern!QueuesInv, Kern!Inv
<1>2. PICK p : p = Max(Waiting)
  OBVIOUS
<1>3. p \in Kern!Waiting
  BY <1>2, FirstQueued DEF ExtInv, Kern!Waiting, Waiting
<1>4. p > Top.low /\ BasePrio[e] = p /\ p \in Int
  <2>1. p \in 1 .. MaxPrio - 1 /\ p > Top.low /\ BasePrio[e] = p
    BY <1>1, <1>2, <1>3, Kern!StartedFresh
  <2> QED
    BY <2>1
<1>5. t \in Exe /\ Live(t) /\ t # Idle /\ jb \in [Exe -> Nat] /\ frames \in Seq(FrameType)
      /\ FrameInv
  BY KernelTypes DEF Live, ExtInv
<1>6. PICK n \in Nat : n = Len(frames)
  BY <1>5
<1>7. PICK i \in Nat : i = jb[t] + 1
  BY <1>5
<1>8. jb[t] \in 1 .. n - 1 /\ frames[jb[t]].e = t
  BY <1>5, <1>6 DEF FrameInv, Anchors, Occupied
<1>9. i \in 2 .. n /\ i - 1 = jb[t]
  BY <1>5, <1>7, <1>8
<1>10. frames[i].exe = t
  BY <1>5, <1>6, <1>8, <1>9 DEF FrameInv, Chain
<1>11. frames[i].low = OwnPrio(t)
  BY <1>5, <1>6, <1>9, <1>10 DEF FrameInv, Lows
<1>12. frames[i].low <= Top.low
  <2>1. frames[i] \in FrameType /\ frames[n] \in FrameType
    BY <1>5, <1>6, <1>9
  <2>2. frames[i].low \in Int /\ frames[n].low \in Int
    BY <2>1 DEF FrameType
  <2>3. i = n \/ frames[i].low < frames[n].low
    BY <1>5, <1>6, <1>9 DEF FrameInv, Lows
  <2> QED
    BY <1>6, <2>2, <2>3 DEF Top
<1>13. Kern!OwnPrio(t) = OwnPrio(t)
  BY DEF Kern!OwnPrio, OwnPrio
<1>14. OwnPrio(t) >= BasePrio[t] /\ OwnPrio(t) \in Int
  <2>1. Kern!OwnPrio(t) \in RunPrio[t] .. MaxPrio - 1 /\ Kern!OwnPrio(t) >= BasePrio[t]
    BY <1>1, <1>5, Kern!OwnPrioBounds
  <2> QED
    BY <1>13, <2>1
<1>15. BasePrio[t] \in Int /\ Top.low \in Int
  <2>1. frames[n] \in FrameType
    BY <1>5, <1>6, <1>9
  <2> QED
    BY <1>5, <1>6, <2>1 DEF FrameType, Top
<1>16. PICK low \in Int : low = Top.low
  BY <1>15
<1>17. OwnPrio(t) <= low
  BY <1>11, <1>12, <1>16
<1>18. BasePrio[t] <= low
  BY <1>14, <1>15, <1>16, <1>17
<1> QED
  BY <1>4, <1>15, <1>16, <1>18

LEMMA StacksOnDispatch ==
  ASSUME OnePriority, ExtInv, StackInv, panic' = "none", XDispatch
  PROVE  StackInv'
<1>1. PICK e : e = Head(queue[Max(Waiting)])
  OBVIOUS
<1>2. pc = "sched" /\ Waiting # {} /\ panic = "none" /\ Extended \subseteq Exe
      /\ jb \in [Exe -> Nat]
  BY KernelTypes DEF ExtInv, XDispatch, Dispatch
<1>3. e \in Exe
  BY <1>1, <1>2, StartsQueued
<1>4. pc' = "app" /\ currentexe' = e /\ jb' = [jb EXCEPT ![e] = Len(frames)]
  BY <1>1, <1>2 DEF XDispatch, Dispatch, Start, Panic
<1>5. CASE e \in Extended
  <2>1. onkernelstack' = FALSE /\ kjmpbuf' = Len(frames) /\ wild' = wild
    BY <1>4, <1>5 DEF XDispatch, RunExtended
  <2>2. \A t \in Extended : jb[t] = 0
    <3> SUFFICES ASSUME NEW t \in Extended, jb[t] # 0 PROVE FALSE
      OBVIOUS
    <3>1. BasePrio[e] > BasePrio[t] /\ BasePrio[e] = BasePrio[t]
      BY <1>1, <1>2, <1>5, StartsAbove DEF OnePriority
    <3>2. BasePrio[e] \in Int
      BY <1>3, PrioAssumption
    <3> QED
      BY <3>1, <3>2
  <2>3. \A t \in Extended : jb'[t] # 0 => kjmpbuf' = jb'[t]
    BY <1>2, <1>4, <2>1, <2>2
  <2>4. Flagged'
    BY <1>4, <1>5, <2>1 DEF Flagged, Me
  <2> QED
    BY <2>1, <2>3, <2>4 DEF StackInv, AnchorInPlace
<1>6. CASE e \notin Extended
  <2>1. UNCHANGED stackVars
    BY <1>4, <1>6 DEF XDispatch
  <2>2. onkernelstack = TRUE
    BY <1>2 DEF StackInv, Flagged
  <2>3. \A t \in Extended : jb'[t] = jb[t]
    BY <1>2, <1>4, <1>6
  <2>4. Flagged'
    BY <1>4, <1>6, <2>1, <2>2 DEF Flagged, Me, stackVars
  <2> QED
    BY <2>1, <2>3, <2>4 DEF StackInv, AnchorInPlace, stackVars
<1> QED
  BY <1>5, <1>6

LEMMA StacksNext ==
  ASSUME OnePriority, ExtInv, ExtInv', StackInv, [XNext]_allVars
  PROVE  StackInv'
<1>0. panic' = "none"
  BY DEF ExtInv, Kern!KernelInv, Kern!QueuesInv
<1>1. CASE XReturn
  <2>1. /\ onkernelstack' = (Top.exe \notin Extended) /\ UNCHANGED <<kjmpbuf, wild, jb>>
        /\ currentexe' = Top.exe /\ pc' = Top.ret /\ pc = "sched"
    BY <1>1 DEF XReturn, Return
  <2>2. frames # <<>> /\ frames \in Seq(FrameType)
    BY <2>1, KernelTypes DEF ExtInv, FrameInv, Current
  <2>3. Top \in FrameType
    BY <2>2 DEF Top
  <2>4. pc' \in {"app", "chained"}
    BY <2>1, <2>3 DEF FrameType
  <2>5. Flagged'
    BY <2>1, <2>4 DEF Flagged, Me
  <2> QED
    BY <2>1, <2>5 DEF StackInv, AnchorInPlace
<1>2. CASE UNCHANGED allVars
  BY <1>2 DEF allVars, vars, cpuVars, exeVars, stackVars, StackInv, AnchorInPlace, Flagged, Me
<1>3. CASE IrqWhileLanding
  BY <1>3 DEF IrqWhileLanding, vars, cpuVars, exeVars, StackInv, AnchorInPlace, Flagged, Me
<1>4. CASE XCall
  BY <1>0, <1>4, StacksOnCalls, StacksOnEvents, StacksOnEnd DEF XCall
<1>5. CASE XKernel
  BY <1>0, <1>1, <1>5, StacksOnCalls, StacksOnDispatch, StacksOnEnd DEF XKernel
<1>6. CASE XCatchIrq
  BY <1>0, <1>6, StacksOnCalls
<1> QED
  BY <1>2, <1>3, <1>4, <1>5, <1>6 DEF XNext

LEMMA StacksWhole ==
  ASSUME ExtInv, StackInv
  PROVE  StacksInPlace
<1>1. OnRightStack
  BY DEF StackInv, Flagged, OnRightStack, Running
<1>2. ContextOnce
  <2>1. FrameInv /\ jb \in [Exe -> Nat] /\ Extended \subseteq Exe /\ Idle \notin Extended
        /\ frames \in Seq(FrameType)
    BY KernelTypes DEF ExtInv
  <2>2. ASSUME NEW t \in Extended, t \in saved
        PROVE  nact[t] > 0
    BY <2>2 DEF ExtInv, Parked
  <2>3. ASSUME NEW t \in Extended, t \in saved, jb[t] # 0,
               NEW i \in 1 .. Len(frames), frames[i].e = t
        PROVE  i = Len(frames) /\ pc = "exit"
    <3>1. Leaving(t)
      BY <2>3 DEF ExtInv, Parked
    <3>2. pc = "exit" /\ Top.e = t
      BY <3>1 DEF Leaving
    <3>3. Occupied(i) /\ Occupied(Len(frames))
      BY <2>1, <2>3, <3>2 DEF Occupied
    <3>4. jb[t] = i /\ jb[t] = Len(frames)
      <4>1. Len(frames) \in 1 .. Len(frames)
        BY <3>3 DEF Occupied
      <4> QED
        BY <2>1, <2>3, <3>2, <3>3, <4>1 DEF FrameInv, Started, Top
    <3> QED
      BY <3>2, <3>4
  <2>4. \A t \in Extended : state[t] = "waiting" => t \in saved
    BY <2>1 DEF ExtInv, Parked
  <2> QED
    BY <2>2, <2>3, <2>4 DEF ContextOnce
<1> QED
  BY <1>1, <1>2 DEF StacksInPlace, StackInv

\* When the extended tasks have one priority: each piece of code runs on its own stack, a
\* request from a private stack finds the anchor of the dv_runextended() that has started
\* the caller, and a context that waits is there once (dv_runextended(),
\* dv_runqueued_onkernelstack(), dv_waitevent()).
THEOREM StacksKept ==
  ASSUME Disciplined, OnePriority
  PROVE  XSpec => []StacksInPlace
<1>1. XInit => StackInv
  <2> SUFFICES ASSUME XInit PROVE StackInv
    OBVIOUS
  <2>1. /\ onkernelstack = TRUE /\ wild = "no" /\ pc = "raised" /\ currentexe = Idle
        /\ jb = [e \in Exe |-> 0]
    BY DEF XInit, Init
  <2>2. Idle \notin Extended /\ Extended \subseteq Exe
    BY ExeAssumption, ExtendedAssumption DEF Exe
  <2>3. \A t \in Extended : jb[t] = 0
    BY <2>1, <2>2
  <2> QED
    BY <2>1, <2>2, <2>3 DEF StackInv, AnchorInPlace, Flagged, Me
<1> QED
  BY <1>1, ExtStart, ExtStep, StacksNext, StacksWhole, PTL DEF XSpec

-----------------------------------------------------------------------------
(* What carries over from the kernel                                       *)

LEMMA AsKernel ==
  ASSUME Disciplined
  PROVE  XSpec => Kern!Spec
<1>1. ExtInv /\ [XNext]_allVars => [Kern!Next]_(Kern!vars)
  BY SimNext
<1>2. XInit => Kern!Init
  BY SimInit
<1> QED
  BY <1>1, <1>2, ExtStart, ExtStep, PTL DEF XSpec, Kern!Spec

\* What the kernel promises its callers, with extended tasks too: no internal check
\* fails, strict priority order, mutual exclusion under the ceilings, and a sound
\* nesting of dv_runqueued(), although waits and releases empty and refill the queues.
KernelSound == NoPanic /\ StrictPriority /\ MutualExclusion /\ FramesSound

LEMMA SamePromises ==
  Kern!NoPanic /\ Kern!StrictPriority /\ Kern!MutualExclusion /\ Kern!FramesSound
    => KernelSound
<1>1. Kern!NoPanic => NoPanic
  BY DEF Kern!NoPanic, NoPanic
<1>2. Kern!StrictPriority => StrictPriority
  BY SameFrames, SameConstants DEF Kern!StrictPriority, StrictPriority, Kern!Running, Running
<1>3. Kern!MutualExclusion => MutualExclusion
  BY SameFrames DEF Kern!MutualExclusion, MutualExclusion
<1>4. Kern!FramesSound => FramesSound
  BY SameFrames, SameConstants, SameQueues
     DEF Kern!FramesSound, FramesSound, Kern!JumpTarget, JumpTarget, Kern!NestingBound,
         NestingBound, Kern!LevelMatches, LevelMatches, Kern!Running, Running
<1> QED
  BY <1>1, <1>2, <1>3, <1>4 DEF KernelSound

\* The promises of dv_runqueued(), dv_takemutex() and dv_activateexe() in the build with
\* extended tasks
THEOREM ExtendedKernelSound ==
  ASSUME Disciplined
  PROVE  XSpec => []KernelSound
<1> USE SameSizes, SameConstants, ExeAssumption, PrioAssumption, RunPrioAssumption,
        MaxActAssumption, MutexAssumption, LibertiesAssumption
<1>1. Kern!Lifo
  BY DEF Disciplined, Kern!Lifo
<1>2. Kern!Spec => []Kern!NoPanic
  BY Kern!KernelNeverPanics
<1>3. Kern!Spec => []Kern!StrictPriority
  BY Kern!PriorityOrder
<1>4. Kern!Spec => []Kern!MutualExclusion
  BY <1>1, Kern!Exclusion
<1>5. Kern!Spec => []Kern!FramesSound
  BY <1>1, Kern!SoundFrames
<1> QED
  BY <1>2, <1>3, <1>4, <1>5, AsKernel, SamePromises, PTL

-----------------------------------------------------------------------------
(* Types                                                                   *)

StackTypes == /\ onkernelstack \in BOOLEAN
              /\ kjmpbuf \in 0 .. MaxPrio
              /\ wild \in {"no", "anchor", "landing"}

LEMMA StackTypesKept ==
  ASSUME StackTypes, Hop \/ Land \/ UNCHANGED stackVars
  PROVE  StackTypes'
BY DEF StackTypes, Hop, Land, WildAnchor, stackVars

LEMMA NestedWithinPrios ==
  ASSUME Kern!KernelInv
  PROVE  Len(frames) \in 0 .. MaxPrio
<1>1. frames \in Seq(FrameType) /\ FrameInv
  BY KernelTypes
<1>2. PICK n \in Nat : n = Len(frames)
  BY <1>1
<1>3. CASE n = 0
  BY <1>2, <1>3, PrioAssumption
<1>4. CASE n # 0
  <2>1. frames[n] \in FrameType /\ frames[n].low >= n - 1
    BY <1>1, <1>2, <1>4 DEF FrameInv, Lows
  <2>2. frames[n].low \in 0 .. MaxPrio - 1
    BY <2>1 DEF FrameType
  <2> QED
    BY <1>2, <2>1, <2>2, PrioAssumption
<1> QED
  BY <1>3, <1>4

LEMMA StackTypesNext ==
  ASSUME ExtInv, StackTypes, [XNext]_allVars
  PROVE  StackTypes'
<1>1. CASE XReturn
  <2>1. onkernelstack' \in BOOLEAN /\ UNCHANGED <<kjmpbuf, wild>>
    BY <1>1 DEF XReturn
  <2> QED
    BY <2>1 DEF StackTypes
<1>2. CASE XDispatch
  <2>1. \/ UNCHANGED stackVars
        \/ onkernelstack' = FALSE /\ kjmpbuf' = Len(frames) /\ wild' = wild
    BY <1>2 DEF XDispatch, RunExtended
  <2>2. Len(frames) \in 0 .. MaxPrio
    BY NestedWithinPrios DEF ExtInv
  <2> QED
    BY <2>1, <2>2 DEF StackTypes, stackVars
<1>3. CASE IrqWhileLanding
  BY <1>3 DEF IrqWhileLanding, StackTypes
<1>4. CASE XCall
  <2>1. Hop \/ Land \/ UNCHANGED stackVars
    BY <1>4 DEF XCall, XActivateTask, XChainTask, HopUnlessPanic, XTakeMutex, XDropMutex,
       XRaisePrio, XEnd, WaitEvent, ClearEvent, SetEvent
  <2> QED
    BY <2>1, StackTypesKept
<1>5. CASE XKernel
  <2>1. XReturn \/ XDispatch \/ Hop \/ Land \/ UNCHANGED stackVars
    BY <1>5 DEF XKernel, XReleaseMutex, XFinishExit, FinishWait, XChainExit, XLowerPrio,
       XIrqDone, XVectorIrq, HopUnlessPanic
  <2> QED
    BY <1>1, <1>2, <2>1, StackTypesKept
<1>6. CASE XCatchIrq \/ UNCHANGED allVars
  BY <1>6, StackTypesKept DEF XCatchIrq, allVars
<1> QED
  BY <1>3, <1>4, <1>5, <1>6 DEF XNext

\* The variables of davroska-extended.c keep their types: dv_kjmpbuf is the anchor of
\* one of the nested calls of dv_runqueued(), and there is no context without events
\* to wait for.
THEOREM ExtendedTypes ==
  ASSUME Disciplined
  PROVE  XSpec => []ExtendedTypeOK
<1>1. XInit => StackTypes /\ EventInv
  BY PrioAssumption DEF XInit, Init, StackTypes, EventInv, NoLostWakeup, Awaiting
<1>2. ExtInv /\ StackTypes /\ EventInv => ExtendedTypeOK
  BY DEF ExtInv, ContextTypes, StackTypes, EventInv, Awaiting, ExtendedTypeOK
<1> QED
  BY <1>1, <1>2, ExtStart, ExtStep, EventsNext, StackTypesNext, PTL DEF XSpec

\* Tasks that wait and are released are still started by priority and, within one
\* priority, in the order of their activations and releases (dv_runqueued(),
\* dv_setevent()).
THEOREM ReleasesInOrder ==
  ASSUME Disciplined
  PROVE  XSpec => Kern!ImplementsPriorityFifo
<1>1. Kern!Spec => Kern!ImplementsPriorityFifo
  BY Kern!RefinesPriorityFifo, SameSizes, SameConstants, ExeAssumption, PrioAssumption,
     RunPrioAssumption, MaxActAssumption, MutexAssumption, LibertiesAssumption
<1> QED
  BY <1>1, AsKernel, PTL
=============================================================================
