----------------------------- MODULE MCDavroska -----------------------------
(***************************************************************************)
(* Small instances of Davroska: executables and their priorities for TLC.  *)
(***************************************************************************)
EXTENDS DavroskaFifo, DavroskaLive, TLC

CONSTANTS t1, t2, t3, i1, i2, m1, m2

\* Two tasks share priority 1, a third preempts them; one of the low tasks may
\* be activated twice.
BasePrio1 == Idle :> 0 @@ t1 :> 1 @@ t2 :> 1 @@ t3 :> 2 @@ i1 :> 3
MaxAct1   == Idle :> 1 @@ t1 :> 2 @@ t2 :> 1 @@ t3 :> 1 @@ i1 :> 1
\* m1 is shared by the tasks, m2 with the ISR.
Ceiling1  == m1 :> 2 @@ m2 :> 3
MaxTake1  == m1 :> 1 @@ m2 :> 2
\* t1 and t2 form a group with t3: they run at its priority.
RunPrio2  == Idle :> 0 @@ t1 :> 2 @@ t2 :> 2 @@ t3 :> 2 @@ i1 :> 3

\* Two tasks of one priority and an ISR, for the progress properties.
BasePrio3 == Idle :> 0 @@ t1 :> 1 @@ t2 :> 1 @@ i1 :> 2
MaxAct3   == Idle :> 1 @@ t1 :> 1 @@ t2 :> 1 @@ i1 :> 1
Ceiling3  == m1 :> 2
MaxTake3  == m1 :> 1

\* The inductive invariant of the proofs, with as many ranks as there are mutexes, and
\* its strengthening for StrictPriority in an application that keeps the rules.
Ranked    == \E r \in [Mutex -> 1 .. Cardinality(Mutex)] : ListInv(r)
Inductive == panic = "none" => /\ FrameInv /\ Ranked /\ Prios /\ Entries /\ Levels
                               /\ StateInv
                               /\ Disciplined => Urgent /\ QueueInv
=============================================================================
