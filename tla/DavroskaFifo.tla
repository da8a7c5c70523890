---------------------------- MODULE DavroskaFifo ----------------------------
(***************************************************************************)
(* The scheduler of Davroska implements PriorityFifo.                      *)
(***************************************************************************)
EXTENDS DavroskaInv

\* The entries of a queue without the first if that has started: it keeps its place until
\* its end, or is raised there.
NotStarted(p) == IF queue[p] # <<>> /\ Live(Head(queue[p])) THEN Tail(queue[p]) ELSE queue[p]

\* The executables on the stack are the idle loop and those that the frames have started.
Depth      == IF pc \in {"app", "chained", "exit"} THEN Len(frames) ELSE Len(frames) - 1
OnStack(e) == [exe |-> e, prio |-> OwnPrio(e)]
Stack      == [i \in 1 .. Depth + 1 |-> OnStack(IF i = 1 THEN Idle ELSE frames[i - 1].e)]

Abstract == INSTANCE PriorityFifo WITH
              waiting <- [p \in 1 .. MaxPrio - 1 |-> NotStarted(p)],
              stack   <- Stack

\* Executables run strictly by priority, those of equal priority in the order of
\* their activations, and a preempted one goes on where it was: every step of the
\* kernel is a step of the abstract scheduler or leaves it as it is.
ImplementsPriorityFifo == Abstract!Spec
=============================================================================
