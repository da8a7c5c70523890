--------------------------------- MODULE MCDv3 ---------------------------------
(***************************************************************************)
(* Instances of Dv3Kernel: the idle loop, two executables of priority 1    *)
(* that do not block, and two above them that do.  In dv3_restart.cfg two  *)
(* executables that block share a thread.                                  *)
(***************************************************************************)
EXTENDS Dv3Kernel

CONSTANTS e0, e1, e2, e3, e4

MCExe      == {e0, e1, e2, e3, e4}
MCBasePrio == (e0 :> 0) @@ (e1 :> 1) @@ (e2 :> 1) @@ (e3 :> 2) @@ (e4 :> 3)
MCBlocking == {e3, e4}

Symmetry == Permutations(Sem)

SharedExe      == {e0, e1, e2}
SharedBasePrio == (e0 :> 0) @@ (e1 :> 1) @@ (e2 :> 1)
SharedBlocking == {e1, e2}
================================================================================
