------------------------------- MODULE MCTusbOs -------------------------------
(***************************************************************************)
(* A queue of two events in three slots, delays of up to two ticks.        *)
(***************************************************************************)
EXTENDS TusbOs
=============================================================================
