----------------------------- MODULE MCDvAlarm ------------------------------
(***************************************************************************)
(* DvAlarm on small instances.                                             *)
(***************************************************************************)
EXTENDS DvAlarm

CONSTANTS a1, a2, a3, c1, c2
=============================================================================
