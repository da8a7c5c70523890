----------------------------- MODULE MCHardware -----------------------------
(***************************************************************************)
(* What stands between the hardware and the kernels, one part or the other *)
(* in a behaviour: the controllers (IrqLock: three sources in two          *)
(* registers, and one of the BCM2836), davroska's dispatcher on a Cortex-M *)
(* (CortexM: two tasks and two ISRs, a mutex of the tasks and one of the   *)
(* lower ISR), the start of davros-3 and of davroska's boards (Dv3Start,   *)
(* Boards), and the boards' clocks (Clocks).                               *)
(***************************************************************************)
EXTENDS IrqLock, CortexM, Clocks, TLC

VARIABLE part
VARIABLES cpu, layout, todo, el, mem, soft, stacks, fate \* Dv3Start
VARIABLES board, usb, steps, held, bss, table, els, mmu, hw, end \* Boards

CONSTANTS t1, t2, i3, i4
MCBase == Idle :> 0 @@ t1 :> 1 @@ t2 :> 2 @@ i3 :> 3 @@ i4 :> 4

MCRegister == 0 :> 0 @@ 1 :> 0 @@ 2 :> 2
\* Two levels of ISRs beside that of the tasks; the GIC's priorities.
MCLevels == [bcm2835 |-> 0 .. 2, nvic7 |-> 0 .. 2, nvic6 |-> 0 .. 2,
             dv3 |-> {}, gic |-> 0 .. 2]
\* All three levels of the RP2040.
AllLevels == [nvic6 |-> 0 .. 3]

\* A table maps six pages, four tables are in a page.  The pool begins anywhere in a slot,
\* so that a start needs one page of tables or two.
St == INSTANCE Dv3Start WITH SlotPages <- 6, Slots <- 7, TablesPerPage <- 4, TextPages <- 1 .. 3,
        DataPages <- 1 .. 14, PoolPages <- 12, MaxStacks <- 6,
        Liberties <- Liberties \cap {"stacks beyond the tables of the start", "started by u-boot"}
ASSUME St!StartAssumption

Bd == INSTANCE Boards WITH Cores <- 1 .. 3, todo <- steps, el <- els, fate <- end,
        Liberties <- Liberties \cap {"cores released at any time", "clocks still running",
                                     "started in EL1"}
ASSUME Bd!BoardsAssumption

startVars == <<cpu, layout, todo, el, mem, soft, stacks, fate>>
boardVars == <<board, usb, steps, held, bss, table, els, mmu, hw, end>>

\* A part that is not looked at has one state or none.
HardwareInit ==
  /\ part \in {"controller", "dispatcher", "start", "board", "clock"}
  /\ Init /\ (part = "controller" \/ kind = CHOOSE c \in Controllers : TRUE)
  /\ CortexInit /\ (part = "dispatcher" \/ machine = "v7")
  /\ IF part = "start" THEN St!Init ELSE
       /\ cpu = None /\ layout = None /\ todo = None /\ el = None
       /\ mem = None /\ soft = None /\ stacks = None /\ fate = None
  /\ IF part = "board" THEN Bd!Init ELSE
       /\ board = None /\ usb = None /\ steps = None /\ held = None /\ bss = None
       /\ table = None /\ els = None /\ mmu = None /\ hw = None /\ end = None
  /\ ClockInit /\ (part = "clock" \/ clock = "reload")
HardwareNext ==
  \/ part = "controller" /\ Next
     /\ UNCHANGED <<part, cortexVars, startVars, boardVars, clockVars>>
  \/ part = "dispatcher" /\ CortexNext
     /\ UNCHANGED <<part, vars, startVars, boardVars, clockVars>>
  \/ part = "start" /\ St!Next
     /\ UNCHANGED <<part, vars, cortexVars, boardVars, clockVars>>
  \/ part = "board" /\ Bd!Next
     /\ UNCHANGED <<part, vars, cortexVars, startVars, clockVars>>
  \/ part = "clock" /\ ClockNext
     /\ UNCHANGED <<part, vars, cortexVars, startVars, boardVars>>
HardwareSpec ==
  HardwareInit /\ [][HardwareNext]_<<part, vars, cortexVars, startVars, boardVars, clockVars>>

\* The properties of Dv3Start and of Boards, see there.
Starts      == part = "start" => St!Starts
BoardsReady == part = "board" => Bd!BoardsReady
=============================================================================
