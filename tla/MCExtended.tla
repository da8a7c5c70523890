----------------------------- MODULE MCExtended -----------------------------
(***************************************************************************)
(* DavroskaExtended on small instances, and as an implementation of the    *)
(* kernel without extended tasks.                                          *)
(***************************************************************************)
EXTENDS DavroskaExtended, TLC

CONSTANTS t1, t2, t3, i1, m1, v1, v2

\* Two extended tasks of one priority, above a basic task and below an ISR.
EqualPrio   == Idle :> 0 @@ t1 :> 2 @@ t2 :> 2 @@ t3 :> 1 @@ i1 :> 3
\* t2 preempts t1.
UnequalPrio == Idle :> 0 @@ t1 :> 1 @@ t2 :> 2 @@ t3 :> 2 @@ i1 :> 3
OneEach     == Idle :> 1 @@ t1 :> 1 @@ t2 :> 1 @@ t3 :> 1 @@ i1 :> 1
AtTop       == m1 :> 3
Once        == m1 :> 1
=============================================================================
