----------------------------- MODULE MCDv3Programs -----------------------------
(***************************************************************************)
(* Instances of Dv3Programs.  The priorities are those of the sources, one *)
(* higher: 0 is the idle loop, 5 stands for DV_MAX_PRIORITY.               *)
(***************************************************************************)
EXTENDS Dv3Programs

MCPrio ==
  [e \in {"idle"} |-> 0]
  @@ [e \in {"control", "task_foo", "task_fot"} |-> 1]
  @@ [e \in {"foo_2", "foo_3", "bar_3", "foo1", "foo2", "foo3", "Foo", "task_bar"} |-> 2]
  @@ [e \in {"bar_2", "Bar", "task_qxx"} |-> 3]
  @@ [e \in {"Quxx"} |-> 4]
  @@ [e \in {"init"} |-> 5]

MCExe      == DOMAIN MCPrio
MCBlocking == {"foo1", "foo2", "foo3", "Bar", "Quxx", "task_bar", "task_qxx"}
================================================================================
