------------------------------- MODULE Clocks -------------------------------
(***************************************************************************)
(* The clocks of the boards, each with what the software makes of it: the  *)
(* tick of a millisecond that drives the counters of davroska's demos (an  *)
(* alarm of the RP2040, a comparison of the STM32, the ARM timer of the    *)
(* BCM2835 that reloads itself), and the readings of a time that is wider  *)
(* than what can be read at once (davros-3's dv_readtime() on the system   *)
(* timer of the BCM2835, and davroska's on its ARM timer).  Time goes on   *)
(* between any two accesses.                                               *)
(***************************************************************************)
EXTENDS Integers

CONSTANTS
  Period,    \* of the tick
  FirstTick, \* the first alarm of the RP2040 (one second)
  Wrap,      \* values of the counter, or of its lower half
  Readers,   \* the cores that read the time
  MaxTime,   \* bound on the time
  Liberties  \* what is not kept to

Late     == "interrupts locked for longer than a period"
Together == "several cores read davroska's time"

Tickers == {"alarm", "compare", "reload"}
Reads   == {"halves", "extended"}
ASSUME ClocksAssumption ==
  /\ Period \in Nat \ {0} /\ FirstTick \in Nat \ {0} /\ Wrap \in Nat /\ MaxTime \in Nat
  /\ Wrap > FirstTick /\ Wrap >= 2 * Period

VARIABLES
  clock,  \* which one
  time,   \* what really has passed
  match,  \* the compare register; the RP2040 disarms it with the match
  flag,   \* the interrupt request
  ticks,  \* how often the ISR has counted
  isr,    \* how far hw_ClearTimer() is: "out", "in", "half"
  job,    \* how far each reader is, and with what
  stamp, last \* timestamp and last_time of davroska's dv_readtime()

clockVars == <<clock, time, match, flag, ticks, isr, job, stamp, last>>

Nowhere == -1
Ticker == clock \in Tickers
Resting(begun) == [at |-> "out", high |-> Nowhere, low |-> Nowhere, again |-> Nowhere,
                begun |-> begun, got |-> begun]

-----------------------------------------------------------------------------
(* The tick                                                                *)

\* hw_InitialiseMillisecondTicker(): the STM32's generates an event of its own when it
\* has set the first comparison
PicoTicker == match = FirstTick /\ ~flag
StmTicker  == match = Period /\ flag
BcmTicker  == match = Period /\ ~flag

\* How many ticks there should have been
Due == CASE clock = "alarm"   -> IF time < FirstTick THEN 0 ELSE (time - FirstTick) \div Period + 1
         [] clock = "compare" -> IF time < 2 * Period THEN 1 ELSE time \div Period
         [] OTHER             -> time \div Period

\* The interrupt is served before the next one is due.
InTime == Ticker /\ (flag \/ isr # "out") => ticks + (IF isr = "out" THEN 1 ELSE 0) >= Due

\* Of davroska's time there is a reading at least as often as the counter wraps.
OftenEnough == \E r \in Readers : time < job[r].begun + Wrap

\* The counter counts.  The ARM timer reloads itself.
Elapse ==
  /\ time < MaxTime
  /\ time' = time + 1
  /\ LET met == Ticker /\ match = time' % Wrap IN
     /\ flag' = (flag \/ met)
     /\ match' = CASE met /\ clock = "alarm"  -> Nowhere
                   [] met /\ clock = "reload" -> (match + Period) % Wrap
                   [] OTHER                   -> match
  /\ UNCHANGED <<clock, ticks, isr, job, stamp, last>>
  /\ Late \in Liberties \/ InTime'
  /\ clock = "extended" => OftenEnough'

\* The ISR of the timer
Enter == /\ Ticker /\ flag /\ isr = "out"
         /\ isr' = "in" /\ ticks' = ticks + 1
         /\ UNCHANGED <<clock, time, match, flag, job, stamp, last>>

\* Mutation: the next one is counted from now.
RearmFromNow == IF clock = "reload" THEN match ELSE (time + Period) % Wrap

\* alarm[] += 1000, ccr[3] += 1000; an alarm that has met reads as what it was set to
Rearm == CASE clock = "alarm"   -> (FirstTick + (ticks - 1) * Period + Period) % Wrap
           [] clock = "compare" -> (match + Period) % Wrap
           [] OTHER             -> match

\* hw_ClearTimer() of the Pi Pico
PicoClear ==
  /\ clock = "alarm" /\ isr # "out"
  /\ IF isr = "in" THEN isr' = "half" /\ flag' = FALSE /\ match' = match
                   ELSE isr' = "out" /\ match' = Rearm /\ flag' = flag
  /\ UNCHANGED <<clock, time, ticks, job, stamp, last>>

\* hw_ClearTimer() of the Blue Pill: the other way round
StmClear ==
  /\ clock = "compare" /\ isr # "out"
  /\ IF isr = "in" THEN isr' = "half" /\ match' = Rearm /\ flag' = flag
                   ELSE isr' = "out" /\ flag' = FALSE /\ match' = match
  /\ UNCHANGED <<clock, time, ticks, job, stamp, last>>

\* hw_ClearTimer() of the Raspberry Pis
BcmClear == /\ clock = "reload" /\ isr = "in" /\ isr' = "out" /\ flag' = FALSE
            /\ UNCHANGED <<clock, time, match, ticks, job, stamp, last>>

-----------------------------------------------------------------------------
(* Reading the time                                                        *)

High == time \div Wrap
Low  == time % Wrap

\* The reader r moves from one access to the next, and returns with what it got.
Goes(r, from, with) ==
  /\ job[r].at = from /\ job' = [job EXCEPT ![r] = with]
  /\ UNCHANGED <<clock, time, match, flag, ticks, isr>>
Returns(r, from, got) ==
  /\ job[r].at = from /\ job' = [job EXCEPT ![r] = [Resting(job[r].begun) EXCEPT !.got = got]]
  /\ UNCHANGED <<clock, time, match, flag, ticks, isr>>
\* Readers of the halves do not disturb each other: one is enough.
Start(r) == /\ ~Ticker
            /\ IF clock = "extended"
               THEN Together \in Liberties \/ \A o \in Readers \ {r} : job[o].at = "out"
               ELSE r = CHOOSE o \in Readers : TRUE

\* dv_readtime() of the system timer: the upper half, the lower half, the upper half, and
\* again if the two differ
ReadHalves(r) ==
  /\ clock = "halves"
  /\ \/ Start(r) /\ Goes(r, "out", [job[r] EXCEPT !.at = "low", !.high = High, !.begun = time])
     \/ Goes(r, "low", [job[r] EXCEPT !.at = "again", !.low = Low])
     \/ Goes(r, "again", [job[r] EXCEPT !.at = "compare", !.again = High])
     \/ /\ job[r].high = job[r].again
        /\ Returns(r, "compare", job[r].again * Wrap + job[r].low)
     \/ /\ job[r].high # job[r].again
        /\ Goes(r, "compare", [job[r] EXCEPT !.at = "low", !.high = job[r].again])
  /\ UNCHANGED <<stamp, last>>

\* dv_readtime() of the ARM timer: the difference to the last reading, in 32 bits, is
\* added to a sum in 64 bits
ReadExtended(r) ==
  /\ clock = "extended"
  /\ \/ /\ Start(r)
        /\ Goes(r, "out", [job[r] EXCEPT !.at = "difference", !.low = Low, !.begun = time])
        /\ UNCHANGED <<stamp, last>>
     \/ /\ Goes(r, "difference",
                [job[r] EXCEPT !.at = "sum", !.again = stamp,
                               !.high = (job[r].low - last + Wrap) % Wrap])
        /\ UNCHANGED <<stamp, last>>
     \/ /\ Goes(r, "sum", [job[r] EXCEPT !.at = "last"])
        /\ stamp' = job[r].again + job[r].high /\ last' = last
     \/ /\ Returns(r, "last", stamp)
        /\ last' = job[r].low /\ stamp' = stamp

-----------------------------------------------------------------------------

ClockInit ==
  /\ clock \in Tickers \cup Reads
  /\ time = 0 /\ ticks = 0 /\ isr = "out" /\ stamp = 0 /\ last = 0
  /\ flag \in BOOLEAN /\ match \in {Nowhere, FirstTick, Period}
  /\ CASE clock = "alarm"   -> PicoTicker
       [] clock = "compare" -> StmTicker
       [] clock = "reload"  -> BcmTicker
       [] OTHER             -> match = Nowhere /\ ~flag
  /\ job = [r \in Readers |-> Resting(0)]

\* Here the model ends, not the time.
Stop == time = MaxTime /\ UNCHANGED clockVars

ClockNext == \/ Stop \/ Elapse \/ Enter \/ PicoClear \/ StmClear \/ BcmClear
             \/ \E r \in Readers : ReadHalves(r) \/ ReadExtended(r)
ClockSpec == ClockInit /\ [][ClockNext]_clockVars

-----------------------------------------------------------------------------
(* Properties                                                              *)

\* The tick neither stalls nor drifts, wherever the counter wraps and however late within
\* a period an interrupt is served: outside the ISR, what has been counted and what
\* still asks to be counted is what was due.
TicksRight == Ticker /\ isr = "out" => ticks + (IF flag THEN 1 ELSE 0) = Due

\* A reading is one that the clock had between the call and the return.
ReadingsRight == \A r \in Readers :
  job[r].at = "out" => job[r].begun <= job[r].got /\ job[r].got <= time

\* The applications count and read the time that really passes.
\* (hw_ClearTimer(), dv_readtime())
ClocksRight == TicksRight /\ ReadingsRight
=============================================================================
