---------------------------- MODULE PriorityFifo ----------------------------
(***************************************************************************)
(* What the README of davroska promises of its scheduling, without saying  *)
(* how: "executables run strictly according to priority", "queued          *)
(* executables of the same priority run in FIFO order", and an executable  *)
(* that is preempted goes on when those that preempt it have ended.        *)
(***************************************************************************)
EXTENDS Integers, Sequences, FiniteSetsExt

CONSTANTS Exe, Idle, MaxPrio, BasePrio, RunPrio

VARIABLES
  waiting,  \* for each priority the activations not started, oldest first
  stack     \* the executables started and not ended, the newest last: a
            \* sequence of records [exe, prio]

Newest == stack[Len(stack)]

Urgent == {p \in DOMAIN waiting : p > Newest.prio /\ waiting[p] # <<>>}

Init == /\ waiting = [p \in 1 .. MaxPrio - 1 |-> <<>>]
        /\ stack   = <<[exe |-> Idle, prio |-> RunPrio[Idle]]>>

\* An activation is queued behind those of its priority.
Arrive(e) == /\ waiting' = [waiting EXCEPT ![BasePrio[e]] = Append(@, e)]
             /\ UNCHANGED stack

\* The oldest of the most urgent preempts the newest.
Begin == /\ Urgent # {}
         /\ LET p == Max(Urgent)
                e == Head(waiting[p])
            IN  /\ waiting' = [waiting EXCEPT ![p] = Tail(@)]
                /\ stack'   = Append(stack, [exe |-> e, prio |-> RunPrio[e]])

\* An executable changes its priority, or ends, only when nothing is urgent.
Change(n) == /\ Urgent = {}
             /\ n >= RunPrio[Newest.exe]
             /\ stack' = [stack EXCEPT ![Len(stack)].prio = n]
             /\ UNCHANGED waiting

Finish == /\ Urgent = {}
          /\ Len(stack) > 1
          /\ stack' = SubSeq(stack, 1, Len(stack) - 1)
          /\ UNCHANGED waiting

Next == \/ \E e \in Exe \ {Idle} : Arrive(e)
        \/ Begin
        \/ \E n \in 0 .. MaxPrio - 1 : Change(n)
        \/ Finish

Spec == Init /\ [][Next]_<<waiting, stack>>
=============================================================================
