------------------------------- MODULE Boards -------------------------------
(***************************************************************************)
(* How the boards of davroska's demos start: from the reset vector to      *)
(* main() on the Pi Zero, the Pi 3 (where the demo also has something to   *)
(* do for the cores 1 to 3), the Pi Pico and the Blue Pill.  The steps of  *)
(* a board depend on one another through what they leave in the memory and *)
(* in the hardware: a write to a peripheral that is in reset or without a  *)
(* clock is lost, a rate is only right if the clock is, a call through     *)
(* the console's driver needs the driver, and .bss is cleared by whoever   *)
(* starts.                                                                 *)
(***************************************************************************)
EXTENDS Integers, Sequences

CONSTANTS
  Cores,     \* the cores of the Pi 3 beside core 0 that somebody releases
  Liberties  \* what the platform does not keep to

Anytime == "cores released at any time"
Warm    == "clocks still running"      \* a reset of the processor alone (pico)
LowEL   == "started in EL1"

BoardsAssumption == Cores \subseteq 1 .. 3 /\ Liberties \subseteq {Anytime, Warm, LowEL}

VARIABLES
  board,   \* "pi-zero", "pi3", "pico" or "blue-pill"
  usb,     \* USE_USB of the demo
  todo,    \* the steps that a core still has to do; <<>> when it runs
  held,    \* the cores that nobody has released
  bss,     \* variables: the console's driver, tables_ready, the kernel's
  table,   \* the page tables, which are not in .bss
  el, mmu, \* of every core: its exception level, its MMU
  hw,      \* the peripherals and the clocks
  fate     \* "alive", or how the program died

vars == <<board, usb, todo, held, bss, table, el, mmu, hw, fate>>

All == {0} \cup Cores

-----------------------------------------------------------------------------
(* The hardware.  off: what is in reset or has no clock; pin: what a pin   *)
(* does; rate: what the divisors of the UART are right for.                *)

Peripherals == {"io_bank0", "uart", "timer", "usb"}
Unset == [pin \in {"led", "tx", "rx"} |-> "none"]

\* What the boot loader leaves.  That of a Pi uses the same UART; the chips start from
\* their own oscillator with everything off, unless only the processor was reset.
Fresh(b, warm) ==
  [sys |-> IF warm THEN "pll" ELSE "internal", peri |-> "none", pll |-> warm, usbpll |-> warm,
   usbclock |-> IF warm THEN "usbpll" ELSE "none",
   off |-> IF b \in {"pico", "blue-pill"} THEN Peripherals ELSE {},
   pin |-> Unset, rate |-> IF b = "pi3" THEN "core clock" ELSE "none",
   vectors |-> FALSE, priorities |-> FALSE, nvic |-> FALSE, caches |-> FALSE, psp |-> FALSE]

\* dv_rp2040_release(): waits until the peripheral is out of reset
Release(h, p) == [h EXCEPT !.off = @ \ {p}]

\* The pico's pins belong to io_bank0.
PicoPin(h, p, does) == IF "io_bank0" \in h.off THEN h ELSE [h EXCEPT !.pin[p] = does]
PicoLed(h) == PicoPin(h, "led", "output")
PicoUartPins(h) == PicoPin(PicoPin(h, "tx", "uart"), "rx", "uart")

\* dv_stm32_gpio_pinmode() first gives the port its clock.
StmPin(h, p, does) == [h EXCEPT !.pin[p] = does]
StmUartPins(h) == StmPin(StmPin(h, "tx", "uart"), "rx", "uart")

\* dv_arm_bcm2835_gpio_pinconfig(); the four LEDs are alike
BcmPin(h, p, does) == [h EXCEPT !.pin[p] = does]
BcmLeds(h) == BcmPin(h, "led", "output")

\* dv_arm_bcm2835_uart_init()
BcmUart(h) == BcmPin(BcmPin([h EXCEPT !.rate = "core clock"], "tx", "uart"), "rx", "uart")

\* dv_rp2040_uart_init(): the table of divisors is for a clock of 12 MHz
PicoUart(h) == [Release(h, "uart") EXCEPT !.rate = "xosc"]

\* dv_stm32_uart_init(): the divisors are for 72 MHz
StmUart(h) == [h EXCEPT !.off = @ \ {"uart"}, !.rate = "pll"]

\* dv_clock_init(): the processor runs from the reference
ClockInit(h) == [h EXCEPT !.sys = "xosc", !.peri = "xosc"]

\* dv_pll_init(): nothing to do when the PLL is as it should be
PllInit(h) == IF h.pll THEN h ELSE [h EXCEPT !.pll = TRUE, !.sys = "pll"]

\* dv_usbpll_init()
UsbPllInit(h) == IF h.usbpll THEN h ELSE [h EXCEPT !.usbpll = TRUE, !.usbclock = "usbpll"]

\* dv_rp2040_usb_init()
PicoUsb(h) == Release(h, "usb")

\* dv_rcc_init(): both buses get their clock from the PLL
RccInit(h) == [h EXCEPT !.pll = TRUE, !.sys = "pll", !.peri = "pll"]

\* dv_stm32_usb_init(): 48 MHz are two thirds of the PLL
StmUsb(h) == [h EXCEPT !.off = @ \ {"usb"}, !.usbclock = IF h.pll THEN "usbpll" ELSE "none"]

\* dv_nvic_init(), the registers; all interrupts are disabled and none is pending
NvicInit(h) == [h EXCEPT !.nvic = TRUE]

\* The exception priorities that the dispatcher relies on: PendSV at the lowest
Priorities(h) == [h EXCEPT !.priorities = TRUE]

-----------------------------------------------------------------------------
(* The steps                                                               *)

\* dv_board_start() of the Pi Zero
ZeroSteps == <<"bss", "uart", "console", "say", "vectors", "tables", "mmu", "caches", "leds", "main">>

\* Mutation: the other cores are told before the tables are made.
Pi3StepsReadyFirst == <<"bss", "uart", "console", "say", "core", "vectors", "ready", "tables",
                        "mmu", "leds", "main">>

\* dv_board_start() of the Pi 3, and dv_armv8_mmu_setup(1)
Pi3Steps == <<"bss", "uart", "console", "say", "core", "vectors", "tables", "ready", "mmu",
              "leds", "main">>

\* dv_core1_start(), dv_core2_start(), dv_core3_start(), and dv_armv8_mmu_setup(0)
CoreSteps == <<"bss", "console", "say", "core", "wait", "mmu", "run_core">>

If(c, s) == IF c THEN s ELSE <<>>

\* dv_reset() and dv_reset2() of the Pi Pico
PicoSteps(u) ==
  <<"vectors", "clock", "pll">> \o If(u, <<"usbpll">>) \o
  <<"bss", "priorities", "iobank", "leds", "uart", "uart pins", "console", "say", "timer", "nvic">>
  \o If(u, <<"usb">>) \o <<"say", "psp", "say", "main">>

\* dv_reset() and dv_reset2() of the Blue Pill; its vectors are where the processor looks
BluePillSteps(u) ==
  <<"rcc">> \o If(u, <<"usb">>) \o
  <<"bss", "priorities", "nvic", "uart pins", "uart", "console", "leds", "say", "psp", "say", "main">>

StepsOf(b, u, c) == CASE c # 0           -> CoreSteps
                      [] b = "pi-zero"   -> ZeroSteps
                      [] b = "pi3"       -> Pi3Steps
                      [] b = "pico"      -> PicoSteps(u)
                      [] b = "blue-pill" -> BluePillSteps(u)

\* A step of a core, one after the other
Do(c, step) == /\ fate = "alive" /\ c \notin held
               /\ todo[c] # <<>> /\ Head(todo[c]) = step
               /\ todo' = [todo EXCEPT ![c] = Tail(@)]
               /\ UNCHANGED <<board, usb, held>>
Chip == board \in {"pico", "blue-pill"}

\* dv_memset32() of the .bss, dv_init_data(): what the kernel had in its variables is lost
Clear(c) ==
  /\ Do(c, "bss")
  /\ bss' = [console |-> FALSE, ready |-> FALSE,
             kernel |-> IF bss.kernel = "live" THEN "lost" ELSE bss.kernel]
  /\ UNCHANGED <<table, el, mmu, hw, fate>>

\* dv_consoledriver gets its functions.
Console(c) == /\ Do(c, "console") /\ bss' = [bss EXCEPT !.console = TRUE]
              /\ UNCHANGED <<table, el, mmu, hw, fate>>

\* dv_printf(): a character goes through the driver, and waits for room in the UART.
Transmits == hw.rate # "none" /\ "uart" \notin hw.off
Say(c) == /\ Do(c, "say")
          /\ bss.console => Transmits
          /\ fate' = IF bss.console THEN fate ELSE "call of address 0"
          /\ UNCHANGED <<bss, table, el, mmu, hw>>

\* dv_init_core(): down to EL1 from wherever the core is; tlbi alle1 is not for EL1
InitCore(c) ==
  /\ Do(c, "core")
  /\ IF el[c] = 1 THEN fate' = "undefined instruction" /\ UNCHANGED el
                  ELSE el' = [el EXCEPT ![c] = 1] /\ UNCHANGED fate
  /\ UNCHANGED <<bss, table, mmu, hw>>

\* The tables of dv_armv8_mmu_setup(1): memory up to the peripherals, and these
MakeTables == /\ board = "pi3" /\ Do(0, "tables") /\ table' = "made"
              /\ UNCHANGED <<bss, el, mmu, hw, fate>>

\* Those of dv_armv6_mmu_setup()
MakeSections == /\ board = "pi-zero" /\ Do(0, "tables") /\ table' = "made"
                /\ UNCHANGED <<bss, el, mmu, hw, fate>>

\* dv_armv8_mmu_setup(): core 0 says that the tables are made, the others wait for it
TablesReady(c) ==
  /\ \/ Do(c, "ready") /\ bss' = [bss EXCEPT !.ready = TRUE]
     \/ bss.ready /\ Do(c, "wait") /\ UNCHANGED bss
  /\ UNCHANGED <<table, el, mmu, hw, fate>>

\* dv_setMMUregisters(), dv_write_cp15_control(): the core uses the tables from now on
MmuOn(c) == /\ Do(c, "mmu")
            /\ mmu' = [mmu EXCEPT ![c] = TRUE]
            /\ fate' = IF table = "made" THEN fate ELSE "translation fault"
            /\ UNCHANGED <<bss, table, el, hw>>

\* Everything that sets up the hardware.  The Pi Zero copies its vectors to where the
\* processor looks, the others tell it where they are.
Setup ==
  /\ \/ Do(0, "vectors") /\ hw' = [hw EXCEPT !.vectors = TRUE]
     \/ Do(0, "caches") /\ hw' = [hw EXCEPT !.caches = mmu[0]]
     \/ Do(0, "clock") /\ hw' = ClockInit(hw)
     \/ Do(0, "pll") /\ hw' = PllInit(hw)
     \/ Do(0, "usbpll") /\ hw' = UsbPllInit(hw)
     \/ Do(0, "rcc") /\ hw' = RccInit(hw)
     \/ Do(0, "priorities") /\ hw' = Priorities(hw)
     \/ Do(0, "iobank") /\ hw' = Release(hw, "io_bank0")
     \/ Do(0, "timer") /\ hw' = Release(hw, "timer")
     \/ Do(0, "nvic") /\ hw' = NvicInit(hw)
     \/ Do(0, "usb") /\ hw' = IF board = "pico" THEN PicoUsb(hw) ELSE StmUsb(hw)
     \/ Do(0, "uart") /\ hw' = CASE board = "pico"      -> PicoUart(hw)
                                 [] board = "blue-pill" -> StmUart(hw)
                                 [] OTHER               -> BcmUart(hw)
     \/ Do(0, "uart pins") /\ hw' = IF board = "pico" THEN PicoUartPins(hw) ELSE StmUartPins(hw)
     \/ Do(0, "leds") /\ hw' = CASE board = "pico"      -> PicoLed(hw)
                                 [] board = "blue-pill" -> StmPin(hw, "led", "output")
                                 [] OTHER               -> BcmLeds(hw)
     \/ Do(0, "psp") /\ hw' = [hw EXCEPT !.psp = TRUE]
  /\ UNCHANGED <<bss, table, el, mmu, fate>>

\* main() and the kernel that it starts, with all that they have in variables
Main == /\ Do(0, "main") /\ bss' = [bss EXCEPT !.kernel = "live"]
        /\ UNCHANGED <<table, el, mmu, hw, fate>>

\* run_core() says once that it has been reached.
RunCore(c) == /\ Do(c, "run_core")
              /\ fate' = IF bss.console THEN fate ELSE "call of address 0"
              /\ UNCHANGED <<bss, table, el, mmu, hw>>

\* The program, which prints
Runs(c) == c \notin held /\ todo[c] = <<>>
Go == /\ fate = "alive" /\ Runs(0)
      /\ fate' = IF bss.console THEN fate ELSE "call of address 0"
      /\ UNCHANGED <<board, usb, todo, held, bss, table, el, mmu, hw>>

\* The monitor lets a core go; core 0, in which it runs itself, as the last one, and the
\* next one only when the last one waits for the tables.
Waits(c) == c \notin held /\ todo[c] # <<>> /\ Head(todo[c]) = "wait"
LetGo(c) ==
  /\ fate = "alive" /\ board = "pi3" /\ c \in held
  /\ Anytime \in Liberties \/ (0 \in held /\ \A d \in All \ held : Waits(d))
  /\ held' = held \ {c}
  /\ UNCHANGED <<board, usb, todo, bss, table, el, mmu, hw, fate>>

-----------------------------------------------------------------------------

Init ==
  /\ board \in {"pi-zero", "pi3", "pico", "blue-pill"}
  /\ usb \in IF board \in {"pico", "blue-pill"} THEN BOOLEAN ELSE {FALSE}
  /\ todo = [c \in All |-> StepsOf(board, usb, c)]
  /\ held = IF board = "pi3" THEN All ELSE Cores
  /\ bss = [console |-> FALSE, ready |-> FALSE, kernel |-> "none"]
  /\ table = "unknown"
  /\ el \in IF board = "pi3" THEN [All -> IF LowEL \in Liberties THEN 1 .. 3 ELSE 2 .. 3]
                             ELSE {[c \in All |-> 1]}
  /\ mmu = [c \in All |-> FALSE]
  /\ \E warm \in IF board = "pico" /\ Warm \in Liberties THEN BOOLEAN ELSE {FALSE} :
       hw = Fresh(board, warm)
  /\ fate = "alive"

Next == \/ \E c \in All : \/ Clear(c) \/ Console(c) \/ Say(c) \/ InitCore(c) \/ TablesReady(c)
                          \/ MmuOn(c) \/ RunCore(c) \/ LetGo(c)
        \/ MakeTables \/ MakeSections \/ Setup \/ Main \/ Go
Spec == Init /\ [][Next]_vars

-----------------------------------------------------------------------------
(* Properties                                                              *)

\* What a board promises to main(): the UART has its pins and the rate that its clock
\* makes right; the processor runs as fast as the comment says; the USB controller has
\* its 48 MHz; interrupts find their vectors, PendSV its priority and the tasks their
\* stack; the memory is mapped.
UartReady == /\ "uart" \notin hw.off /\ hw.pin["tx"] = "uart" /\ hw.pin["rx"] = "uart"
             /\ hw.rate = IF Chip THEN hw.peri ELSE "core clock"
UsbReady == usb => "usb" \notin hw.off /\ hw.usbclock = "usbpll"
InterruptsReady == /\ hw.vectors \/ board = "blue-pill"
                   /\ Chip => hw.priorities /\ hw.nvic /\ hw.psp
                   /\ board = "pico" => "timer" \notin hw.off
FullSpeed == IF Chip THEN hw.sys = "pll" ELSE hw.caches \/ board = "pi3"
MemoryReady(c) == ~Chip => table = "made" /\ mmu[c] /\ (board = "pi3" => el[c] = 1)

\* The start of one core does not spoil that of another, nor a step that of an earlier
\* one: nobody calls through a driver that is not there (any more), the kernel's
\* variables outlive the start of the other cores, each of these gets to run with the
\* tables of core 0 and does not wait for tables that are already made, and main() finds
\* what its board promises.
BoardsReady ==
  /\ fate = "alive"
  /\ bss.kernel # "lost"
  /\ \A c \in All : Runs(c) => MemoryReady(c)
  /\ \A c \in Cores : Waits(c) /\ mmu[0] => bss.ready
  /\ Runs(0) => /\ UartReady /\ UsbReady /\ InterruptsReady /\ FullSpeed
                /\ hw.pin["led"] = "output"
=============================================================================
