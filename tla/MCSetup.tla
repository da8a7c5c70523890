------------------------------ MODULE MCSetup -------------------------------
(***************************************************************************)
(* How the two kernels come by their executables, one or the other in a    *)
(* behaviour: davroska from its configuration calls, once at start-up      *)
(* (DvConfig, with one argument that is refused on either side of what is  *)
(* accepted); davros-3 at any time (Dv3Create, with executables that run   *)
(* to their end, destroy themselves, block, and have events).              *)
(***************************************************************************)
EXTENDS DvConfig, Dv3Create

VARIABLES kernel

MCAsked == [prio |-> 0 .. 4, act |-> {0, 2}, bytes |-> {0, 1, 3}]

MCSize == [exe |-> 7, thr |-> 4, reg |-> 7, evs |-> 2, dll |-> 2, rb |-> 4, page |-> 7,
           words |-> 20]
MCConfigs == {[prio |-> 1, flags |-> {}], [prio |-> 1, flags |-> {"autodestroy"}],
              [prio |-> 1, flags |-> {"blocking", "events"}],
              [prio |-> 1, flags |-> {"events"}], [prio |-> 2, flags |-> {"autodestroy"}]}

SetupInit == ConfigInit /\ CreateInit /\ kernel \in {"davroska", "davros-3"}
SetupNext ==
  \/ kernel = "davroska" /\ ConfigNext /\ UNCHANGED <<kernel, createVars>>
  \/ kernel = "davros-3" /\ CreateNext /\ UNCHANGED <<kernel, configVars>>
SetupSpec == SetupInit /\ [][SetupNext]_<<kernel, configVars, createVars>>
=============================================================================
