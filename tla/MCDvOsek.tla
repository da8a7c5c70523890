------------------------------- MODULE MCDvOsek -------------------------------
(***************************************************************************)
(* Two counters, one of which the alarms of the other can drive; an OSEK   *)
(* counter on each, or two on one; two OSEK alarms and a plain one.        *)
(***************************************************************************)
EXTENDS DvOsek
=============================================================================
