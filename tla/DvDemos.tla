-------------------------------- MODULE DvDemos --------------------------------
(***************************************************************************)
(* The demonstrations of davroska (module DemoConfig has their tables),    *)
(* composed with the kernel of DavroskaExtended: each executable has its   *)
(* main function, and the hardware its interrupts.                         *)
(*                                                                         *)
(* A main function is a sequence of instructions.  Between two of them any *)
(* interrupt that is enabled may come.  One program runs in a behaviour.   *)
(*                                                                         *)
(* Time is not counted: an alarm expires at any tick after it was set, and *)
(* ticks at which none expires are left out.  Printing is left out.        *)
(*                                                                         *)
(* A call that is refused gets to callout_reporterror(), which loops for   *)
(* ever; OSEK's ErrorHook() returns.                                       *)
(***************************************************************************)
EXTENDS DavroskaExtended, DemoConfig

Cyclic == {"BitDriver", "FlickerDriver"}

CONSTANTS
  Built,     \* the programs that are run
  Keys,      \* the characters that the UART may receive
  NoteOf,    \* for each the note it plays, 0 for none
  RingLen,   \* UART1_RX_RBLEN
  MaxInputs, \* for each program bounds on what comes from the UART and from the USB host
  MaxBeats,  \* ... and on how often each cyclic alarm expires
  Crowding   \* what comes closer together than a program expects

\* What real time keeps apart, unless it is in Crowding: a tick comes while a bit task of
\* dvska runs, and the host sends to a serial port that is still being read.
TickInBit    == "ticks while a bit task runs"
SendWhenRead == "sends while it is read"

ASSUME DemoAssumption ==
  /\ Built \subseteq Programs
  /\ NoteOf \in [Keys -> Nat]
  /\ RingLen \in Nat /\ RingLen > 1
  /\ MaxInputs \in [Programs -> SUBSET [uart : Nat, usb : Nat]]
  /\ MaxBeats \in [Programs -> [Cyclic -> Nat]]
  /\ Crowding \subseteq {TickInBit, SendWhenRead}

VARIABLES
  program,   \* which program has been built
  todo,      \* what each executable has still to do in its main function
  halted,    \* the executable that loops in callout_reporterror(), None before
  armed,     \* the alarms that are set
  led,       \* ledstate
  shown,     \* the LEDs themselves
  flips,     \* history: how often main_Bit0() has run, modulo 8
  uart,      \* what the UART has received
  ring,      \* uart1_rx_ringbuf, the oldest character first
  char,      \* c of main_UsbWrite()
  note,      \* its note_on[1], which is not initialised
  sounding,  \* the notes that the host plays
  wire,      \* what the USB controller interrupts for
  usbq,      \* the queue of the device task
  usbon,     \* TinyUSB has been initialised and its interrupts are enabled
  rx,        \* the packets received and not yet read, for each interface
  timer,     \* timer of the keyboard's Bit3
  report,    \* its report to the host: None, "down" or "up", "sent" when it was fetched
  pressed,   \* a key is down, for the host
  host,      \* "absent", "up" or "suspended"
  inputs,    \* the inputs still to come
  beats      \* the expiries of the cyclic alarms still to come

ledVars  == <<led, shown, flips>>
midiVars == <<uart, ring, char, note, sounding>>
usbVars  == <<wire, usbq, usbon, rx, timer, report, pressed, host>>
demoVars == <<program, todo, halted, armed, ledVars, midiVars, usbVars, inputs, beats>>
every    == <<allVars, demoVars>>

X(name) == IF name \in DOMAIN Isrs[program] THEN IsrOf(program, name) ELSE TaskOf(program, name)
Gpio    == <<program, "mx_Gpio">>

-----------------------------------------------------------------------------
(* Instructions                                                            *)

Do(call, x)         == <<[do |-> call, arg |-> x]>>
If(cond, good, bad) == <<[do |-> "if", arg |-> cond, good |-> good, bad |-> bad]>>
While(cond, body)   == <<[do |-> "while", arg |-> cond, body |-> body]>>
Send(task, event)   == <<[do |-> "set", arg |-> task, event |-> event]>>
For(body)           == <<[do |-> "for", body |-> body]>>
Await(event)        == Do("wait", event) \o Do("clear", event)

-----------------------------------------------------------------------------
(* demos/dvska-demo                                                        *)

\* Mutation: the LEDs are set without the mutex.
MainLedFree == For(Await("Update")
                   \o Do("show", 0) \o Do("show", 1) \o Do("show", 2) \o Do("show", 3)
                   \o Do("drop", Gpio))

\* The events that dv_getevent() returns have Update, and no other is ever sent.
MainLed == For(Await("Update")
               \o Do("take", Gpio)
               \o Do("show", 0) \o Do("show", 1) \o Do("show", 2) \o Do("show", 3)
               \o Do("drop", Gpio))

MainBit0 == Do("flip", 0)
            \o If("bit 0", Send("Led", "Update") \o Do("terminate", ""), Do("chain", "Bit1"))
MainBit1 == Do("flip", 1)
            \o If("bit 1", Send("Led", "Update") \o Do("terminate", ""), Do("chain", "Bit2"))
\* It ends with the mutex.
MainBit2 == Do("flip", 2) \o Send("Led", "Update") \o Do("take", Gpio) \o Do("terminate", "")

\* The shift register is any sequence of bits.
MainBit3 == For(Await("Flicker") \o Do("shift", ""))

MainUart  == While("uart", Do("getc", "print"))
MainTimer == Do("advance", "")

Autostart == Do("activate", "Init") \o Do("activate", "Led") \o Do("activate", "Bit3")
             \o Do("alarm", "BitDriver") \o Do("alarm", "FlickerDriver")

\* af_BitDriver(), af_FlickerDriver(): cyclic
AfBitDriver     == Do("activate", "Bit0")
AfFlickerDriver == Send("Bit3", "Flicker")

-----------------------------------------------------------------------------
(* demos/osek-demo: OSEK's calls end in the same calls of the kernel.      *)

OsekTask == [Init |-> <<>>, Led |-> MainLed, Bit0 |-> MainBit0, Bit1 |-> MainBit1,
             Bit2 |-> MainBit2, Bit3 |-> MainBit3]
OsekIsr  == [Uart |-> MainUart, Timer |-> MainTimer]
OsekAutostart == Autostart

\* dv_addosekalarm_task(): an alarm activates a task, or sets its event.
OsekAlarm == [BitDriver |-> AfBitDriver, FlickerDriver |-> AfFlickerDriver]

-----------------------------------------------------------------------------
(* TinyUSB's device task (module TusbOs has the details), and its ISR      *)

\* osal_queue_receive(): the event may be left over from what was received without a
\* wait; then the queue is still empty, tud_task() returns, and the task is delayed.
ReceiveUsb ==
  If("queue", <<>>,
     Await("Notify")
     \o If("queue", <<>>, Do("alarm", "tusb_DeviceAlarm") \o Await("Timeout")))
  \o If("queue", Do("usb", ""), <<>>)

MainDeviceTask == Do("tud_init", "") \o For(ReceiveUsb)
MainUsbIsr     == While("wire", Do("queue", "") \o Send("tusb_DeviceTask", "Notify"))
TusbExpiry     == Send("tusb_DeviceTask", "Timeout")

-----------------------------------------------------------------------------
(* demos/tusb-osek-demo                                                    *)

HidBits   == [Led |-> MainLed, Bit0 |-> MainBit0, Bit1 |-> MainBit1, Bit2 |-> MainBit2]
HidBit3   == For(Await("Flicker") \o Do("shift", "") \o Do("key", ""))
HidInit   == Do("tud_init", "")
HidDevice == For(ReceiveUsb)
HidIsr    == [Uart |-> MainUart, Timer |-> MainTimer, tusb_Isr1 |-> MainUsbIsr]
HidAutostart == Do("activate", "Init") \o Do("activate", "Led") \o Do("activate", "Bit3")
                \o Do("activate", "tusb_DeviceTask")
                \o Do("alarm", "BitDriver") \o Do("alarm", "FlickerDriver")

-----------------------------------------------------------------------------
(* demos/tusb-dvska-demo                                                   *)

MidiLed  == Do("flip", 3) \o Do("show", 3) \o Do("alarm", "LedDriver")
MidiInit == Do("activate", "tusb_DeviceTask") \o Do("tud_init", "")
UsbRead  == While("rx 0", Do("read", 0))

\* Mutation: the event is cleared when the characters have been taken.
UsbWriteLate == For(Do("wait", "Uart")
                    \o While("ring", Do("pop", "") \o If("note", Do("off", ""), <<>>)
                                     \o Do("name", "") \o If("note", Do("on", ""), <<>>))
                    \o Do("clear", "Uart"))

UsbWrite == For(Await("Uart")
                \o While("ring", Do("pop", "")
                                 \o If("note", Do("off", ""), <<>>)
                                 \o Do("name", "")
                                 \o If("note", Do("on", ""), <<>>)))

MidiUart == While("uart", Do("getc", "keep")) \o If("ring", Send("UsbWrite", "Uart"), <<>>)
MidiTimer == MainTimer
AfLedDriver == Do("activate", "Led")
MidiAutostart == Do("activate", "Init") \o Do("activate", "UsbWrite")
                 \o Do("alarm", "LedDriver")
-----------------------------------------------------------------------------
(* demos/tusb-dvska-demo2                                                  *)

SerialLed  == Do("flip", 3) \o Do("show", 3) \o Do("alarm", "LedDriver")
SerialInit == Do("activate", "tusb_DeviceTask")
UsbRead0   == While("rx 0", Do("read", 0))
UsbRead1   == While("rx 1", Do("read", 1))
\* Nothing takes the characters out of the ring.
SerialUart == While("uart", Do("getc", "keep"))
SerialTimer == MainTimer
AfSerialLedDriver == Do("activate", "Led")
SerialAutostart == Do("activate", "Init") \o Do("alarm", "LedDriver")

-----------------------------------------------------------------------------
(* What is built into each program                                         *)

DvskaMain == [Init |-> <<>>, Led |-> MainLed, Bit0 |-> MainBit0, Bit1 |-> MainBit1,
              Bit2 |-> MainBit2, Bit3 |-> MainBit3, Uart |-> MainUart, Timer |-> MainTimer]
OsekMain  == OsekTask @@ OsekIsr
HidMain   == HidBits @@ HidIsr
             @@ [Init |-> HidInit, Bit3 |-> HidBit3, tusb_DeviceTask |-> HidDevice]
MidiMain  == [Init |-> MidiInit, Led |-> MidiLed, UsbWrite |-> UsbWrite, UsbRead |-> UsbRead,
              tusb_DeviceTask |-> MainDeviceTask,
              Uart |-> MidiUart, Timer |-> MidiTimer, tusb_Isr1 |-> MainUsbIsr]
SerialMain == [Init |-> SerialInit, Led |-> SerialLed,
               UsbRead0 |-> UsbRead0, UsbRead1 |-> UsbRead1,
               tusb_DeviceTask |-> MainDeviceTask,
               Uart |-> SerialUart, Timer |-> SerialTimer, tusb_Isr1 |-> MainUsbIsr]

Main(e) ==
  LET name == IF e \in Task THEN e[2] ELSE e[1] IN
  CASE program = "dvska" -> DvskaMain[name]
    [] program = "osek"  -> OsekMain[name]
    [] program = "hid"   -> HidMain[name]
    [] program = "midi"  -> MidiMain[name]
    [] OTHER             -> SerialMain[name]

\* The expiry functions, and which alarms they leave set
Expiry(a) ==
  CASE a = "tusb_DeviceAlarm" -> TusbExpiry
    [] a = "LedDriver"        -> IF program = "midi" THEN AfLedDriver ELSE AfSerialLedDriver
    [] OTHER -> IF program = "dvska"
                THEN IF a = "BitDriver" THEN AfBitDriver ELSE AfFlickerDriver
                ELSE OsekAlarm[a]

\* The interface that has data for this task, and the task that reads an interface
Reader(i) == CASE program = "midi" -> "UsbRead"
               [] i = 0            -> "UsbRead0"
               [] OTHER            -> "UsbRead1"

-----------------------------------------------------------------------------
(* Executing                                                               *)

Executing == pc \in {"app", "raised"} /\ halted # Me /\ todo[Me] # <<>>
This      == Head(todo[Me])

\* This instruction is done, and those of `more' come before the rest.
Goes(more) == todo' = [todo EXCEPT ![Me] = more \o Tail(@)]

Holds(cond) ==
  CASE cond = "bit 0" -> led[0]
    [] cond = "bit 1" -> led[1]
    [] cond = "uart"  -> uart # <<>>
    [] cond = "ring"  -> ring # <<>>
    [] cond = "note"  -> note # 0
    [] cond = "wire"  -> wire # <<>>
    [] cond = "queue" -> usbq # <<>>
    [] cond = "rx 0"  -> rx[0] > 0
    [] cond = "rx 1"  -> rx[1] > 0

Control ==
  /\ Executing
  /\ \/ /\ This.do = "if"
        /\ Goes(IF Holds(This.arg) THEN This.good ELSE This.bad)
     \/ /\ This.do = "while"
        /\ Goes(IF Holds(This.arg) THEN This.body \o <<This>> ELSE <<>>)
     \/ /\ This.do = "for"
        /\ Goes(This.body \o <<This>>)
  /\ UNCHANGED <<allVars, program, halted, armed, ledVars, midiVars, usbVars, inputs, beats>>

-----------------------------------------------------------------------------
(* Calls of the kernel                                                     *)

\* callout_reporterror() loops; ErrorHook() returns to a caller that goes on.
Refused == /\ halted' = IF program \in {"osek", "hid"} THEN halted ELSE Me
           /\ UNCHANGED allVars

Activates(t) == IF CanActivate(t) THEN XActivateTask(t) /\ UNCHANGED halted ELSE Refused
Sets(t, ev)  == IF state[t] # "suspended" THEN SetEvent(t, {ev}) /\ UNCHANGED halted
                                          ELSE Refused

Waits(ev) == IF MustWait({ev}) THEN WaitEvent({ev}) ELSE UNCHANGED allVars

Calls ==
  /\ Executing
  /\ \/ This.do = "activate"  /\ Activates(X(This.arg))
     \/ This.do = "set"       /\ Sets(X(This.arg), This.event)
     \/ /\ \/ This.do = "chain"     /\ XChainTask(X(This.arg))
           \/ This.do = "terminate" /\ XEnd
           \/ This.do = "take"      /\ XTakeMutex(This.arg)
           \/ This.do = "drop"      /\ XDropMutex(This.arg)
           \/ This.do = "wait"      /\ Waits(This.arg)
           \/ This.do = "clear"     /\ ClearEvent({This.arg})
           \/ This.do = "lower"     /\ XLowerPrio
        /\ UNCHANGED halted
  /\ Goes(<<>>)
  /\ UNCHANGED <<program, armed, ledVars, midiVars, usbVars, inputs, beats>>

\* A main function returns.
Returns ==
  /\ pc = "app" /\ Me # Idle /\ todo[Me] = <<>>
  /\ XEnd
  /\ UNCHANGED demoVars

BitTask == {X(t) : t \in {"Bit0", "Bit1", "Bit2"} \cap DOMAIN Tasks[program]}

\* A second is longer than the bit tasks take, 20 ms longer than the LED's, and
\* 89 ms longer than the host takes to fetch a report.
InTime(a) ==
  LET quiet == \A t \in BitTask : nact[t] = 0 IN
  CASE a = "BitDriver"     -> quiet
    [] a = "FlickerDriver" -> /\ program = "hid" => report = None \/ host # "up"
                              /\ program = "dvska" => quiet \/ TickInBit \in Crowding
    [] a = "LedDriver"     -> nact[X("Led")] = 0
    [] OTHER               -> TRUE

MayExpire == {a \in armed : (a \in Cyclic => beats[a] > 0) /\ InTime(a)}

\* dv_setalarm_rel(), SetRelAlarm()
SetAlarm ==
  /\ Executing
  /\ This.do = "alarm"
  /\ armed' = armed \union {This.arg}
  /\ Goes(<<>>)
  /\ UNCHANGED <<allVars, program, halted, ledVars, midiVars, usbVars, inputs, beats>>

\* dv_advancecounter(): the expiry functions of the alarms that expire at this tick
Advance ==
  /\ Executing
  /\ This.do = "advance"
  /\ XRaisePrio
  /\ \E s \in SetToAllKPermutations(MayExpire) :
       /\ s # <<>>
       /\ Goes(FlattenSeq([i \in 1 .. Len(s) |-> Expiry(s[i])]) \o Do("lower", ""))
       /\ armed' = armed \ (Range(s) \ Cyclic)
       /\ beats' = [a \in Cyclic |-> IF a \in Range(s) THEN beats[a] - 1 ELSE beats[a]]
  /\ UNCHANGED <<program, halted, ledVars, midiVars, usbVars, inputs>>

-----------------------------------------------------------------------------
(* The application's own steps                                             *)

\* hw_SetLed(); ledstate[i] = !ledstate[i]; the flickering of ledstate[3]
LedStep ==
  /\ Executing
  /\ \/ /\ This.do = "show"
        /\ shown' = [shown EXCEPT ![This.arg] = led[This.arg]]
        /\ Goes(<<>>)
        /\ UNCHANGED <<led, flips>>
     \/ /\ This.do = "flip"
        /\ led' = [led EXCEPT ![This.arg] = ~@]
        /\ flips' = IF This.arg = 0 THEN (flips + 1) % 8 ELSE flips
        /\ Goes(<<>>)
        /\ UNCHANGED shown
     \/ /\ This.do = "shift"
        /\ \E b \in BOOLEAN :
             /\ led' = [led EXCEPT ![3] = b]
             /\ Goes(IF led[3] # b THEN Send("Led", "Update") ELSE <<>>)
        /\ UNCHANGED <<shown, flips>>
  /\ UNCHANGED <<allVars, program, halted, armed, midiVars, usbVars, inputs, beats>>

\* dv_rb_full()
RingFull == Len(ring) + 1 >= RingLen

\* dv_consoledriver.getc(); a character is dropped when the ring is full.
MidiStep ==
  /\ Executing
  /\ \/ /\ This.do = "getc"
        /\ uart' = Tail(uart)
        /\ ring' = IF This.arg = "keep" /\ ~RingFull THEN Append(ring, Head(uart)) ELSE ring
        /\ UNCHANGED <<note, sounding, char>>
     \/ /\ This.do = "pop"
        /\ char' = Head(ring)
        /\ ring' = Tail(ring)
        /\ UNCHANGED <<uart, note, sounding>>
     \/ /\ This.do = "off"
        /\ sounding' = sounding \ {note}
        /\ UNCHANGED <<uart, ring, note, char>>
     \/ /\ This.do = "name"
        /\ note' = NoteOf[char]
        /\ UNCHANGED <<uart, ring, sounding, char>>
     \/ /\ This.do = "on"
        /\ sounding' = sounding \union {note}
        /\ UNCHANGED <<uart, ring, note, char>>
  /\ Goes(<<>>)
  /\ UNCHANGED <<allVars, program, halted, armed, ledVars, usbVars, inputs, beats>>

\* Rate of the key presses, in flickers
Rate == 2

\* main_Bit3(): what it sends for the keyboard
NextReport == CASE timer - 1 = 1 -> "down" [] timer - 1 = 0 -> "up" [] OTHER -> None

\* send_hid_report(): lost when the endpoint is not ready
SendReport == IF host = "up" /\ report = None /\ NextReport # None
              THEN report' = NextReport ELSE UNCHANGED report

\* TinyUSB (external) in its ISR and in its task, and what the tasks call of it
UsbStep ==
  /\ Executing
  /\ \/ /\ This.do = "tud_init"
        /\ usbon' = TRUE
        /\ Goes(<<>>)
        /\ UNCHANGED <<wire, usbq, rx, timer, report>>
     \/ /\ This.do = "queue"
        /\ usbq' = Append(usbq, Head(wire))
        /\ wire' = Tail(wire)
        /\ Goes(<<>>)
        /\ UNCHANGED <<usbon, rx, timer, report>>
     \/ /\ This.do = "usb"
        /\ usbq' = Tail(usbq)
        /\ IF Head(usbq) \in DOMAIN rx
           THEN /\ rx' = [rx EXCEPT ![Head(usbq)] = @ + 1]
                /\ Goes(Do("activate", Reader(Head(usbq))))
                /\ UNCHANGED report
           ELSE /\ report' = None
                /\ Goes(<<>>)
                /\ UNCHANGED rx
        /\ UNCHANGED <<wire, usbon, timer>>
     \/ /\ This.do = "read"
        /\ rx' = [rx EXCEPT ![This.arg] = @ - 1]
        /\ Goes(<<>>)
        /\ UNCHANGED <<wire, usbq, usbon, timer, report>>
     \/ /\ This.do = "key"
        /\ IF host = "suspended" THEN UNCHANGED <<timer, report>>
           ELSE /\ timer' = IF timer - 1 = 0 THEN Rate ELSE timer - 1
                /\ SendReport
        /\ Goes(<<>>)
        /\ UNCHANGED <<wire, usbq, usbon, rx>>
  /\ UNCHANGED <<allVars, program, halted, armed, ledVars, midiVars, pressed, host, inputs, beats>>

-----------------------------------------------------------------------------
(* The outside                                                             *)

OutsideUnchanged == UNCHANGED <<allVars, program, todo, halted, armed, ledVars, ring, char,
                                note, sounding, usbq, usbon, rx, timer, beats>>

\* A character, a packet, a change of the bus
Input ==
  /\ pc = "app"
  /\ \/ /\ inputs.uart > 0
        /\ inputs' = [inputs EXCEPT !.uart = @ - 1]
        /\ \E c \in (IF program = "midi" THEN Keys ELSE {char}) : uart' = Append(uart, c)
        /\ UNCHANGED <<wire, report, pressed, host>>
     \/ /\ usbon
        /\ inputs.usb > 0
        /\ inputs' = [inputs EXCEPT !.usb = @ - 1]
        /\ \E i \in (CASE program = "midi" -> {0} [] program = "serial" -> {0, 1} [] OTHER -> {}) :
             /\ \/ SendWhenRead \in Crowding
                \/ /\ nact[X(Reader(i))] = 0 /\ rx[i] = 0
                   /\ ~Contains(wire, i) /\ ~Contains(usbq, i)
             /\ wire' = Append(wire, i)
        /\ UNCHANGED <<uart, report, pressed, host>>
     \/ /\ program = "hid" /\ usbon
        /\ inputs.usb > 0
        /\ inputs' = [inputs EXCEPT !.usb = @ - 1]
        /\ host' = IF host = "up" THEN "suspended" ELSE "up"
        /\ UNCHANGED <<uart, wire, report, pressed>>
  /\ OutsideUnchanged

\* The host fetches a report.
Poll ==
  /\ pc = "app"
  /\ host = "up" /\ report \in {"down", "up"}
  /\ pressed' = (report = "down")
  /\ report' = "sent"
  /\ wire' = Append(wire, 2)
  /\ UNCHANGED <<uart, host, inputs>>
  /\ OutsideUnchanged

\* What interrupts.  An ISR is not interrupted by its own source.
UsbIsrs == {i \in Isr : i[1] = "tusb_Isr1"}

Requested == {i \in {X("Timer") : a \in MayExpire}
                    \union {X("Uart") : c \in ToSet(uart)}
                    \union {X("tusb_Isr1") : e \in ToSet(wire)} : nact[i] = 0}

Interrupt == XCatchIrq /\ pending' \subseteq Requested /\ UNCHANGED demoVars

Started == IF currentexe' \in saved THEN todo ELSE [todo EXCEPT ![currentexe'] = Main(currentexe')]

Schedule == /\ XDispatch
            /\ todo' = IF panic' = "none" THEN Started ELSE todo
            /\ UNCHANGED <<program, halted, armed, ledVars, midiVars, usbVars, inputs, beats>>

Serve == /\ XReturn \/ XReleaseMutex \/ XFinishExit \/ FinishWait \/ XChainExit
            \/ XIrqDone \/ \E i \in Isr : XVectorIrq(i)
         /\ UNCHANGED demoVars

-----------------------------------------------------------------------------
AutostartOf == [dvska |-> Autostart, osek |-> OsekAutostart, hid |-> HidAutostart,
                midi |-> MidiAutostart, serial |-> SerialAutostart]

DemoInit ==
  /\ XInit
  /\ program \in Built
  /\ todo = [e \in Exe |-> IF e = Idle THEN AutostartOf[program] \o Do("lower", "") ELSE <<>>]
  /\ halted = None /\ armed = {}
  /\ led = [i \in 0 .. 3 |-> FALSE] /\ shown = led /\ flips = 0
  /\ uart = <<>> /\ ring = <<>>
  /\ char = (CHOOSE c \in Keys : TRUE)
  /\ note \in (IF program = "midi" THEN {0} \union Range(NoteOf) ELSE {0})
  /\ sounding = {}
  /\ wire = <<>> /\ usbq = <<>> /\ usbon = FALSE /\ rx = [i \in 0 .. 1 |-> 0]
  /\ timer = Rate /\ report = None /\ pressed = FALSE /\ host = "absent"
  /\ inputs \in MaxInputs[program] /\ beats = MaxBeats[program]

Alive == panic = "none" /\ wild = "no"

DemoNext == /\ Alive
            /\ \/ Control \/ Calls \/ Returns \/ SetAlarm \/ Advance
               \/ LedStep \/ MidiStep \/ UsbStep
               \/ Input \/ Poll \/ Interrupt \/ Schedule \/ Serve

DemoSpec == DemoInit /\ [][DemoNext]_every

\* The processor does not stop, the ticker ticks, an alarm that is set expires at one of
\* the ticks to come (module DvAlarm), and the USB interrupt is not for ever behind others.
FairDemos == /\ DemoSpec
             /\ WF_every(DemoNext)
             /\ \A a \in {"tusb_DeviceAlarm", "LedDriver"} :
                  SF_every(Alive /\ Advance /\ a \notin armed')
             /\ SF_every(Alive /\ Interrupt /\ pending' \cap UsbIsrs # {})

-----------------------------------------------------------------------------
(* Properties                                                              *)

Value(bits) == (IF bits[0] THEN 1 ELSE 0) + (IF bits[1] THEN 2 ELSE 0) + (IF bits[2] THEN 4 ELSE 0)

\* "It needs to get a consistent state of the LED bits": what main_Led() shows of the
\* counter is a number that it had reached, and the last, although three tasks count and
\* the LEDs are set one by one.
Snapshot == pc = "app" /\ Me = X("Led") /\ todo[Me] # <<>> /\ This.do = "drop"
              => Value(shown) = flips

\* The organ is monophonic, and a key that is pressed is released before the next.
OneAtATime == /\ Cardinality(sounding) <= 1
              /\ report = "down" => ~pressed

\* What the programs put out is right, in every order of preemptions, waits and
\* interrupts (main_Led(), main_UsbWrite(), main_Bit3()).
OutputsRight == Snapshot /\ OneAtATime

\* Nothing is left behind: when only the idle loop is left to run, the LEDs show the last
\* state, every character is played and every packet is read, whatever came while the
\* tasks were about to wait (main_Led(), main_UsbWrite(), main_UsbRead()).
NothingLeft ==
  pc = "app" /\ Me = Idle =>
    /\ program \in {"dvska", "osek", "hid"} => shown = led
    /\ program = "midi" => ring = <<>>
    /\ usbq = <<>> \/ "tusb_DeviceAlarm" \in armed
    /\ rx = [i \in 0 .. 1 |-> 0]

\* The kernel is used as it is configured: it does not panic, and it refuses no call, at
\* which callout_reporterror() would loop for ever.
NoRefusal == panic = "none" /\ halted = None

\* What comes in is served, whatever is running and in whatever state the tasks are.
\* (dv_activatetask(), dv_setevent(), dv_waitevent() as the demonstrations use them)
AllServed == NothingLeft /\ NoRefusal

\* The LED blinks for ever: its task sets the alarm that starts it again.
Blinks == program \in {"midi", "serial"} =>
            \/ <>(wild # "no")
            \/ []<>shown[3] /\ []<>~shown[3]

\* "Whatever you type in one minicom session appears in the other."  What the host sends
\* is read, although the device task may wait for its alarm first.
Arrived(i) == Contains(wire, i) \/ Contains(usbq, i) \/ rx[i] > 0
TypedAppears == \A i \in 0 .. 1 : Arrived(i) ~> ~Arrived(i) \/ wild # "no"
=============================================================================
