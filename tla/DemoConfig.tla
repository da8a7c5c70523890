------------------------------ MODULE DemoConfig ------------------------------
(***************************************************************************)
(* What the callouts of davroska's demonstrations configure:               *)
(*   dvska   demos/dvska-demo         davroska's own interface             *)
(*   osek    demos/osek-demo          the same tasks through OSEK          *)
(*   hid     demos/tusb-osek-demo     ... and a USB keyboard               *)
(*   midi    demos/tusb-dvska-demo    a USB organ                          *)
(*   serial  demos/tusb-dvska-demo2   two USB serial ports back to back    *)
(*                                                                         *)
(* The programs share one instance of the kernel.  Each has tasks and      *)
(* priorities of tasks of its own, so that its queues are as long as its   *)
(* tables make them.  The ISRs are above all tasks; those of one name and  *)
(* one rank are shared.                                                    *)
(*                                                                         *)
(* tusb_Mutex, which only TinyUSB uses, and the counters are left out.     *)
(***************************************************************************)
EXTENDS Integers, FiniteSets, FiniteSetsExt, TLC

Programs == {"dvska", "osek", "hid", "midi", "serial"}
Band     == [dvska |-> 0, osek |-> 4, hid |-> 8, midi |-> 12, serial |-> 16]
TopPrio  == 24

-----------------------------------------------------------------------------
(* callout_addtasks(), callout_addisrs(), callout_addgroups(),             *)
(* callout_addmutexes()                                                    *)

DvskaTasks == [Init |-> 4, Led |-> 1, Bit0 |-> 2, Bit1 |-> 2, Bit2 |-> 2, Bit3 |-> 3]
DvskaIsrs  == [Uart |-> 5, Timer |-> 6]
DvskaGroups == {[nopreempt |-> TRUE,  members |-> {"Init", "Bit0"}],
                [nopreempt |-> FALSE, members |-> {"Bit0", "Bit1", "Bit3"}],
                [nopreempt |-> FALSE, members |-> {"Init", "Uart"}]}
DvskaMutexUsers == {"Led", "Bit0", "Bit1", "Bit2"}

OsekTasks == DvskaTasks
OsekIsrs  == [Uart |-> 7, Timer |-> 8]
OsekMutexUsers == {"Led", "Bit0", "Bit1", "Bit2"}

HidTasks == [Init |-> 4, Led |-> 1, Bit0 |-> 2, Bit1 |-> 2, Bit2 |-> 2, Bit3 |-> 3,
             tusb_DeviceTask |-> 3]
HidIsrs  == [Uart |-> 7, Timer |-> 8, tusb_Isr1 |-> 8]
HidMutexUsers == {"Led", "Bit0", "Bit1", "Bit2"}

MidiTasks == [Init |-> 4, Led |-> 1, UsbWrite |-> 2, UsbRead |-> 2, tusb_DeviceTask |-> 3]
MidiIsrs  == [Uart |-> 5, Timer |-> 6, tusb_Isr1 |-> 8]

SerialTasks == [Init |-> 4, Led |-> 1, UsbRead0 |-> 2, UsbRead1 |-> 2, tusb_DeviceTask |-> 3]
SerialIsrs  == [Uart |-> 5, Timer |-> 6, tusb_Isr1 |-> 8]

\* Which of them are added by dv_addextendedtask()
ExtendedTasks == {"Led", "Bit3", "UsbWrite", "tusb_DeviceTask"}
IsExtended(p, t) == t \in ExtendedTasks /\ (t = "Led" => p \notin {"midi", "serial"})

-----------------------------------------------------------------------------
(* The tables as the kernel sees them                                      *)

Tasks == [dvska |-> DvskaTasks, osek |-> OsekTasks, hid |-> HidTasks,
          midi |-> MidiTasks, serial |-> SerialTasks]
Isrs  == [dvska |-> DvskaIsrs, osek |-> OsekIsrs, hid |-> HidIsrs,
          midi |-> MidiIsrs, serial |-> SerialIsrs]
Groups == [p \in Programs |-> IF p = "dvska" THEN DvskaGroups ELSE {}]
GpioUsers == [dvska |-> DvskaMutexUsers, osek |-> OsekMutexUsers, hid |-> HidMutexUsers,
              midi |-> {"Led"}, serial |-> {"Led"}]

\* A priority of a program is a task's, 1 .. 4, or that of an ISR, which is ranked.
PlaceOf(p, prio) ==
  IF prio <= 4 THEN Band[p] + prio
  ELSE 20 + Cardinality({Isrs[p][i] : i \in DOMAIN Isrs[p]} \cap 0 .. prio)

TaskOf(p, t) == <<p, t>>
IsrOf(p, i)  == <<i, PlaceOf(p, Isrs[p][i])>>

IdleLoop    == <<"idle-loop", 0>>
TaskSet     == UNION {{TaskOf(p, t) : t \in DOMAIN Tasks[p]} : p \in Programs}
IsrSet      == UNION {{IsrOf(p, i) : i \in DOMAIN Isrs[p]} : p \in Programs}
ExtendedSet == {t \in TaskSet : IsExtended(t[1], t[2])}
ExeSet      == {IdleLoop} \union TaskSet \union IsrSet

\* dv_finishgroup(): all tasks for a group without preemption, or else the members
GroupPrio(p, g) ==
  LET All == Tasks[p] @@ Isrs[p]
      who == IF g.nopreempt THEN DOMAIN Tasks[p] ELSE g.members
  IN Max({All[e] : e \in who})

BasePrioOf(e) == IF e \in TaskSet THEN PlaceOf(e[1], Tasks[e[1]][e[2]]) ELSE e[2]
GroupPriosOf(e) ==
  IF e \in TaskSet
  THEN {PlaceOf(e[1], GroupPrio(e[1], g)) : g \in {g \in Groups[e[1]] : e[2] \in g.members}}
  ELSE {}

BaseTable   == [e \in ExeSet |-> BasePrioOf(e)]
RunTable    == [e \in ExeSet |-> Max({BasePrioOf(e)} \union GroupPriosOf(e))]
MaxActTable == [e \in ExeSet |-> 1]

\* dv_addmutexuser(): the highest of the users
MutexSet     == {<<p, "mx_Gpio">> : p \in Programs}
CeilingTable == [m \in MutexSet |->
                   Max({BasePrioOf(TaskOf(m[1], u)) : u \in GpioUsers[m[1]]})]
MaxTakeTable == [m \in MutexSet |-> 1]
=============================================================================
