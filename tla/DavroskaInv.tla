----------------------------- MODULE DavroskaInv -----------------------------
(***************************************************************************)
(* The inductive invariant behind the safety properties of Davroska, for   *)
(* an application that drops its mutexes in LIFO order.  DavroskaProofs    *)
(* proves it; a run of MCDavroska checks it.                               *)
(***************************************************************************)
EXTENDS Davroska

Lifo == OutOfOrderDrop \notin Liberties

\* An executable that has been started and has not ended.
Live(e) == e = Idle \/ jb[e] # 0

\* The priority of e as its own code sees it: while the kernel has pushed the
\* priority of currentexe out of the way, the newest frame keeps it.
OwnPrio(e) == IF pc \in {"irq", "raised"} /\ e = Me THEN Top.low ELSE currprio[e]

\* In pc = "sched" the newest frame may still name the executable that ended.
Occupied(i) == i \in 1 .. Len(frames)
               /\ (i < Len(frames) \/ pc \in {"app", "chained", "exit"})

(***************************************************************************)
(* The stack of dv_runqueued() frames is a chain of preemptions.           *)
(***************************************************************************)
\* Each frame was called by the executable that the frame below it started.
Chain == \A i \in 1 .. Len(frames) :
           /\ i = 1 => frames[i].exe = Idle
           /\ i > 1 => frames[i].exe = frames[i-1].e
           /\ frames[i].ret = "chained" => frames[i].exe # Idle

\* The bounds rise, by at least one for each frame, and are the callers' priorities.
Lows == \A i \in 1 .. Len(frames) :
          /\ frames[i].low = OwnPrio(frames[i].exe)
          /\ frames[i].low >= i - 1
          /\ \A j \in 1 .. Len(frames) : i < j => frames[i].low < frames[j].low

\* What a frame knows of the executable it has started.
Started == \A i \in 1 .. Len(frames) : Occupied(i) =>
             /\ frames[i].e \in Exe
             /\ frames[i].p = BasePrio[frames[i].e]
             /\ frames[i].p > frames[i].low
             /\ frames[i].eprio = RunPrio[frames[i].e]
             /\ jb[frames[i].e] = i

\* A termination anchor is a frame that is occupied by its executable.
Anchors == \A e \in Exe : jb[e] # 0 => Occupied(jb[e]) /\ frames[jb[e]].e = e

\* Which executable is currentexe.
Current ==
  /\ pc \in {"app", "chained", "exit"} =>
       Me = IF frames = <<>> THEN Idle ELSE Top.e
  /\ pc \in {"chained", "exit"} => Me # Idle
  /\ pc \in {"irq", "raised"} => /\ frames # <<>> /\ Me = Top.exe /\ Top.e = None
                                /\ currprio[Me] >= MaxPrio
  /\ pc = "sched" => /\ frames # <<>>
                     /\ \/ Me = Top.exe
                        \/ ~Live(Me)
  /\ pc = "irq" => Top.p = MaxPrio
  /\ pc = "raised" => Top.p = MaxPrio - 1

FrameInv == Chain /\ Lows /\ Started /\ Anchors /\ Current

(***************************************************************************)
(* The mutexes of an executable form a list in the order of their taking;  *)
(* r ranks them by that order.                                             *)
(***************************************************************************)
\* The priority of the owner from taking m until it takes another mutex.
TakenPrio(m) == IF saveprio[m] < Ceiling[m] THEN Ceiling[m] ELSE saveprio[m]

ListHead(r) == \A e \in Exe :
  IF mutexlist[e] = None
  THEN \A m \in Mutex : owner[m] # e
  ELSE /\ owner[mutexlist[e]] = e
       /\ \A m \in Mutex : owner[m] = e /\ m # mutexlist[e] => r[m] < r[mutexlist[e]]

ListNext(r) == \A m \in Mutex : owner[m] # None =>
  IF next[m] = None
  THEN /\ saveprio[m] = RunPrio[owner[m]]
       /\ \A k \in Mutex : owner[k] = owner[m] /\ k # m => r[m] < r[k]
  ELSE /\ owner[next[m]] = owner[m]
       /\ r[next[m]] < r[m]
       /\ saveprio[m] = TakenPrio(next[m])
       /\ \A k \in Mutex : owner[k] = owner[m] /\ k # m /\ k # next[m] =>
            r[k] < r[next[m]] \/ r[m] < r[k]

ListPrios(r) == \A m \in Mutex : owner[m] # None =>
  /\ saveprio[m] >= RunPrio[owner[m]]
  /\ \A k \in Mutex : owner[k] = owner[m] /\ r[k] < r[m] => TakenPrio(k) <= saveprio[m]

ListInv(r) == ListHead(r) /\ ListNext(r) /\ ListPrios(r)

\* The priority that an executable's mutexes give it.
Prios == \A e \in Exe :
  /\ ~Live(e) => mutexlist[e] = None /\ currprio[e] = BasePrio[e]
  /\ Live(e) => OwnPrio(e) = IF mutexlist[e] = None THEN RunPrio[e]
                             ELSE TakenPrio(mutexlist[e])

(***************************************************************************)
(* The queues: every entry that is not in the queue of its base priority   *)
(* is there once, for a reason.                                            *)
(***************************************************************************)
Reason(e, p) ==
  /\ Live(e)
  /\ \/ p = RunPrio[e]
     \/ \E m \in Mutex : owner[m] = e /\ saveprio[m] < Ceiling[m] /\ Ceiling[m] = p
     \/ p = MaxPrio /\ pc = "raised" /\ e = Me

Entries == \A p \in Prio : \A i \in 1 .. Len(queue[p]) :
  BasePrio[queue[p][i]] # p =>
    /\ Reason(queue[p][i], p)
    /\ \A j \in 1 .. Len(queue[p]) : queue[p][j] = queue[p][i] => j = i

\* The whole; r is a ranking of the mutexes.
IndInv(r) == TypeOK /\ FrameInv /\ ListInv(r) /\ Prios /\ Entries

(***************************************************************************)
(* For an application that also ends its executables without mutexes and   *)
(* configures no groups: nothing urgent waits in a queue.                  *)
(***************************************************************************)
Disciplined == Liberties = {} /\ \A e \in Exe : RunPrio[e] = BasePrio[e]

EmptyAbove(n) == \A p \in Prio : p > n => queue[p] = <<>>

\* Nothing is queued above the executable that runs, or, while the kernel scans,
\* above the newest frame's position.
Settled ==
  /\ pc \in {"app", "chained", "exit"} => EmptyAbove(currprio[Me])
  /\ pc = "sched" => EmptyAbove(IF Top.p > Top.low THEN Top.p ELSE Top.low)

\* An executable that is about to end holds no mutex, also while it is preempted
\* in dv_chaintask().
ChainedFree ==
  /\ pc \in {"chained", "exit"} => mutexlist[Me] = None
  /\ \A i \in 1 .. Len(frames) :
       frames[i].ret = "chained" => mutexlist[frames[i].exe] = None

Urgent == Settled /\ ChainedFree

(***************************************************************************)
(* The queues entry by entry, for the same applications.                   *)
(***************************************************************************)
\* Only the first entry of a queue can be one that is raised to its priority: nothing
\* was queued there when it was raised.
RaisedFirst == \A p \in Prio : \A i \in 1 .. Len(queue[p]) :
  BasePrio[queue[p][i]] # p => i = 1

\* An executable has the first place in its queue from its start to its end, ...
LiveFirst == \A e \in Exe : Live(e) => IsHead(queue, BasePrio[e], e)

\* ... and in each queue it is raised to until it drops the mutex, or until the alarms
\* have expired.
RaisedHead ==
  /\ \A m \in Mutex : owner[m] # None /\ saveprio[m] < Ceiling[m] =>
       IsHead(queue, Ceiling[m], owner[m])
  /\ pc = "raised" => IsHead(queue, MaxPrio, Me)

\* Between the activation and the end of dv_chaintask() the caller may have one
\* activation more than it is allowed.
Chaining(e) == \/ pc \in {"chained", "exit"} /\ Me = e
               \/ \E i \in 1 .. Len(frames) : frames[i].ret = "chained" /\ frames[i].exe = e

WithinLimits == \A e \in Exe : nact[e] <= MaxAct[e] + (IF Chaining(e) THEN 1 ELSE 0)

QueueInv == RaisedFirst /\ LiveFirst /\ RaisedHead /\ NoLostActivation /\ WithinLimits

\* The states: between the end of an executable and what comes next nothing is running.
StateInv ==
  /\ \A e \in Exe : (state[e] = "running") <=> (e = Me /\ (pc = "sched" => Me = Top.exe))
  /\ \A e \in Exe : (state[e] = "suspended") <=> (nact[e] = 0)

(***************************************************************************)
(* The interrupt lock level, for every application that keeps LIFO order.  *)
(***************************************************************************)
\* A call that has not set the level on its own account finds it unchanged.
Levels ==
  /\ Running => irqlevel = Level(currprio[Me])
  /\ pc \in {"irq", "raised", "sched"} /\ Me = Top.exe /\ ~Top.relevel =>
       irqlevel = Level(Top.low)
=============================================================================
