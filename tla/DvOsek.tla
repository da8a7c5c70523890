-------------------------------- MODULE DvOsek --------------------------------
(***************************************************************************)
(* The OSEK layer: davroska-osek.c, on top of the counters and alarms of   *)
(* davroska-time.c (module DvAlarm, where the lists are taken apart).      *)
(*                                                                         *)
(* An OSEK counter is a view of a davroska counter: it counts 0 .. max and *)
(* starts again.  An OSEK alarm belongs to an OSEK counter and has a       *)
(* davroska alarm of its own; the davroska alarm leads back to it by its   *)
(* expiryfunctiondata.                                                     *)
(*                                                                         *)
(* SetRelAlarm() and SetAbsAlarm() check the alarm before they disable     *)
(* interrupts.  An executable may come in between, but unless it sets the  *)
(* same alarm (the race of module DvAlarm) it does not change the outcome  *)
(* of the check, so each call is one step here.                            *)
(***************************************************************************)
EXTENDS Integers, Sequences, FiniteSets, SequencesExt, FiniteSetsExt

CONSTANTS
  Counter,        \* 0 .. dv_ncounter-1
  MaxOsekCounter, \* DV_CFG_MAXCOUNTER_OSEK
  MaxOsekAlarm,   \* DV_CFG_MAXALARM_OSEK
  MaxAlarm,       \* DV_CFG_MAXALARM
  Task,           \* 0 .. dv_ntask-1
  Maxima, Minima, \* the maxvalues and mincycles that the application configures
  Kinds,          \* which of "task", "event", "acb", "counter" its alarms are
  MaxValue,       \* the largest dv_u64_t
  Liberties       \* the rules that the application does not keep

\* A rule that davroska-osek.c leaves to the application: it has OSEK alarms or davroska
\* alarms of its own (or adds the latter last, which is the same).
Mixes == "mixes OSEK and davroska alarms"

ASSUME OsekAssumption ==
  /\ IsFiniteSet(Counter) /\ Counter = 0 .. Cardinality(Counter) - 1
  /\ IsFiniteSet(Task) /\ Task = 0 .. Cardinality(Task) - 1
  /\ {MaxOsekCounter, MaxOsekAlarm, MaxAlarm, MaxValue} \subseteq Nat
  /\ Maxima \subseteq 1 .. MaxValue /\ Minima \subseteq 1 .. MaxValue
  /\ Kinds \subseteq {"task", "event", "acb", "counter"}
  /\ Liberties \subseteq {Mixes}

VARIABLES
  phase,       \* dv_configstate->phase; "run" after dv_startos()
  osekcounter, \* dv_osekcounter[0 .. dv_nosekcounter-1]
  osekalarm,   \* dv_osekalarm[0 .. dv_nosekalarm-1]
  alarm,       \* dv_alarm[0 .. dv_nalarm-1]: expirytime, counter, expiryfunctiondata
  list,        \* the alarm list of each counter
  value,       \* dv_counter[].value
  calls,       \* the calls of dv_advancecounter() under way, the running one last
  lasterror,   \* dv_lasterror.e, while the hook runs that may read it
  hook,        \* dv_lasterror.inerrorhook: 0, or 1 + the calls under way when it was set
  panic,       \* dv_panic() was called, or a division by zero trapped
  promise      \* history: when each OSEK alarm is to expire next, 0: it is not

confVars == <<phase, osekcounter>>
timeVars == <<osekalarm, alarm, list, promise>>
errVars  == <<lasterror, hook>>
vars == <<confVars, timeVars, errVars, value, calls, panic>>

None == -1
Ids(s) == 0 .. Len(s) - 1         \* the ids of a table
At(s, id) == s[id + 1]

Plus(u, v)  == (u + v) % (MaxValue + 1)
Minus(u, v) == (u - v) % (MaxValue + 1)

\* Mutation: the hook is called again.
ReportAgain(e) ==
  /\ lasterror' = e
  /\ hook' = 1 + Len(calls)

\* callout_reporterror(): the hook is not nested.
Report(e) ==
  IF hook # 0 THEN UNCHANGED errVars
  ELSE /\ lasterror' = e
       /\ hook' = 1 + Len(calls)

HookReturns ==
  /\ hook = 1 + Len(calls)
  /\ hook' = 0 /\ lasterror' = "ok"
  /\ UNCHANGED <<confVars, timeVars, value, calls, panic>>

-----------------------------------------------------------------------------
(* Configuration *)

NextPhase ==
  /\ phase # "run"
  /\ phase' = IF phase = "counters" THEN "alarms" ELSE "run"
  /\ UNCHANGED <<osekcounter, timeVars, errVars, value, calls, panic>>

AddOsekCounter(c, max, min) ==
  LET refuse == CASE phase # "counters" -> "calllevel"
                  [] Len(osekcounter) >= MaxOsekCounter -> "limit"
                  [] c \notin Counter -> "id"
                  [] OTHER -> "ok"
  IN
  /\ phase # "run"
  /\ \A k \in DOMAIN osekcounter : osekcounter[k].counter <= c   \* in this order
  /\ IF refuse # "ok"
     THEN Report(refuse) /\ UNCHANGED osekcounter
     ELSE /\ osekcounter' = Append(osekcounter, [max |-> max, min |-> min, counter |-> c])
          /\ UNCHANGED errVars
  /\ UNCHANGED <<phase, timeVars, value, calls, panic>>

\* dv_addalarm(): what stands in its way.
AddAlarmError == CASE phase # "alarms" -> "calllevel"
                   [] Len(alarm) >= MaxAlarm -> "limit"
                   [] OTHER -> "ok"
NewAlarm(data) == [expirytime |-> 0, counter |-> None, data |-> data]

\* A davroska alarm of the application's own, which has nothing to do with OSEK.
AddPlainAlarm ==
  /\ phase = "alarms" /\ AddAlarmError = "ok"
  /\ Mixes \in Liberties \/ osekcounter = <<>>
  /\ alarm' = Append(alarm, NewAlarm(None))
  /\ UNCHANGED <<confVars, osekalarm, list, promise, errVars, value, calls, panic>>

\* Mutation: the OSEK alarm is counted first, then the davroska alarm added.
DataCountedFirst(c, kind, obj) ==
  IF c \notin Ids(osekcounter) \/ Len(osekalarm) >= MaxOsekAlarm
  THEN Report("limit") /\ UNCHANGED <<osekalarm, alarm, promise>>
  ELSE /\ alarm' = Append(alarm, NewAlarm(Len(osekalarm) + 1))
       /\ osekalarm' = Append(osekalarm, [osekcounter |-> c, kind |-> kind, obj |-> obj,
                                          cycle |-> 0, alarm |-> Len(alarm)])
       /\ promise' = Append(promise, 0)
       /\ UNCHANGED errVars

\* dv_addosekalarm().  dv_addalarm() has reported its own error: the hook that it called
\* has returned when the caller's is called, and that is all that is kept.
AddOsekAlarm(c, kind, obj) ==
  LET refuse == CASE c \notin Ids(osekcounter) -> "id"
                  [] Len(osekalarm) >= MaxOsekAlarm -> "limit"
                  [] AddAlarmError # "ok" -> "reported"
                  [] OTHER -> "ok"
  IN
  IF refuse # "ok"
  THEN Report(refuse) /\ UNCHANGED <<osekalarm, alarm, promise>>
  ELSE /\ alarm' = Append(alarm, NewAlarm(Len(osekalarm)))
       /\ osekalarm' = Append(osekalarm, [osekcounter |-> c, kind |-> kind, obj |-> obj,
                                          cycle |-> 0, alarm |-> Len(alarm)])
       /\ promise' = Append(promise, 0)
       /\ UNCHANGED errVars

ConfigRest == UNCHANGED <<confVars, list, value, calls, panic>>

\* dv_addosekalarm_task(): with an event or without.
AddAlarmTask(c, t, kind) ==
  /\ phase # "run"
  /\ IF t \notin Task
     THEN Report("id") /\ UNCHANGED <<osekalarm, alarm, promise>>
     ELSE AddOsekAlarm(c, kind, t)
  /\ ConfigRest

AddAlarmAcb(c) ==
  /\ phase # "run"
  /\ AddOsekAlarm(c, "acb", None)
  /\ ConfigRest

\* The application lets no counter drive itself, directly or round a circle.
AddAlarmCounter(c, c2incr) ==
  /\ phase # "run"
  /\ c \in Ids(osekcounter) => c2incr \notin 0 .. At(osekcounter, c).counter
  /\ IF c2incr \notin Counter
     THEN Report("id") /\ UNCHANGED <<osekalarm, alarm, promise>>
     ELSE AddOsekAlarm(c, "counter", c2incr)
  /\ ConfigRest

-----------------------------------------------------------------------------
(* Setting and cancelling an alarm *)

Top == Last(calls)
Expiring == {calls[k].a : k \in DOMAIN calls} \ {None}

\* The code that may call: an executable, or an alarm callback that has not yet made its
\* one call.
Caller == phase = "run" /\ (calls # <<>> => Top.may)
Called == calls' = IF calls = <<>> THEN calls ELSE [calls EXCEPT ![Len(calls)].may = FALSE]

AlarmOf(i)   == At(alarm, At(osekalarm, i).alarm)
OsekOf(i)    == At(osekcounter, At(osekalarm, i).osekcounter)
CounterOf(i) == OsekOf(i).counter

\* dv_setalarm(): alarm a goes behind those that expire no later.
Insert(l, a, v) ==
  LET k == SelectInSeq(l, LAMBDA b : At(alarm, b).expirytime > v)
  IN  InsertAt(l, IF k = 0 THEN Len(l) + 1 ELSE k, a)
SetAlarm(c, a, v) ==
  /\ alarm' = [alarm EXCEPT ![a + 1].expirytime = v, ![a + 1].counter = c]
  /\ list'  = [list EXCEPT ![c] = Insert(@, a, v)]

\* dv_checkalarmparams()
Check(i, t, c) ==
  CASE i \notin Ids(osekalarm) -> "id"
    [] t > OsekOf(i).max -> "value"
    [] c # 0 /\ c \notin OsekOf(i).min .. OsekOf(i).max -> "value"
    [] AlarmOf(i).expirytime # 0 -> "state"
    [] OTHER -> "ok"

\* The end of both calls: v has overflowed when it is below the counter's value.
SetOrRefuse(i, v, cyc) ==
  IF v < value[CounterOf(i)]
  THEN Report("value") /\ UNCHANGED <<osekalarm, alarm, list>>
  ELSE /\ osekalarm' = [osekalarm EXCEPT ![i + 1].cycle = cyc]
       /\ SetAlarm(CounterOf(i), At(osekalarm, i).alarm, v)
       /\ UNCHANGED errVars

\* history: an OSEK alarm is to expire at the exact time t, if there is such a time.
Promise(i, t) == promise' = [promise EXCEPT ![i + 1] = IF t <= MaxValue THEN t ELSE @]

\* The application sets no alarm by 0 on a counter that has not started: a time of 0 is
\* that of an alarm that is not set.
SetRelAlarm(i, tim, cyc) ==
  /\ Caller /\ Called
  /\ IF Check(i, tim, cyc) # "ok"
     THEN Report(Check(i, tim, cyc)) /\ UNCHANGED timeVars
     ELSE LET cur == value[CounterOf(i)] IN
          /\ tim > 0 \/ cur > 0
          /\ SetOrRefuse(i, Plus(cur, tim), cyc)
          /\ Promise(i, cur + tim)
  /\ UNCHANGED <<confVars, value, panic>>

\* Mutation: the counter's present value is taken for the next one.
AbsWithin(cur, curosek, tim, modulus) ==
  LET abs == Minus(Plus(cur, tim), curosek)
  IN  IF curosek > tim THEN Plus(abs, modulus) ELSE abs

AbsVal(cur, curosek, tim, modulus) ==
  LET abs == Minus(Plus(cur, tim), curosek)
  IN  IF curosek >= tim THEN Plus(abs, modulus) ELSE abs

\* The remainder by 0, where the modulus is one more than the largest value: ARM64 gives
\* the dividend; elsewhere anything, or a trap (None).
Remainder(v, m) == IF m = 0 THEN {v, None} ELSE {v % m}

\* history: the least time after cur at which the OSEK counter is tim.
NextAt(cur, tim, modulus) ==
  CHOOSE t \in cur + 1 .. cur + modulus : t % modulus = tim

SetAbsAlarm(i, tim, cyc) ==
  /\ Caller /\ Called
  /\ IF Check(i, tim, cyc) # "ok"
     THEN Report(Check(i, tim, cyc)) /\ UNCHANGED <<timeVars, panic>>
     ELSE LET cur     == value[CounterOf(i)]
              modulus == Plus(OsekOf(i).max, 1)
          IN \E curosek \in Remainder(cur, modulus) :
             /\ panic' = (curosek = None)
             /\ IF panic' THEN UNCHANGED <<osekalarm, alarm, list, errVars>>
                ELSE SetOrRefuse(i, AbsVal(cur, curosek, tim, modulus), cyc)
             /\ Promise(i, NextAt(cur, tim, OsekOf(i).max + 1))
  /\ UNCHANGED <<confVars, value>>

\* CancelAlarm() hands the OSEK alarm's id to dv_stopalarm().  No alarm is stopped while
\* its own function runs (see DvAlarm).
CancelAlarm(i) ==
  /\ Caller /\ Called
  /\ i \in Ids(alarm) /\ i \notin Expiring
  /\ alarm' = [alarm EXCEPT ![i + 1].expirytime = 0, ![i + 1].counter = None]
  /\ list'  = [c \in Counter |-> RemoveFirst(list[c], i)]
  /\ promise' = IF i \in Ids(osekalarm) THEN [promise EXCEPT ![i + 1] = 0] ELSE promise
  /\ UNCHANGED <<confVars, osekalarm, errVars, value, panic>>

-----------------------------------------------------------------------------
(* dv_advancecounter() and the expiry functions *)

Loop(c) == [c |-> c, a |-> None, may |-> FALSE]

\* The counter goes on by n; s is what was under way.
Advanced(s, c, n) ==
  /\ value' = [value EXCEPT ![c] = Plus(@, n)]
  /\ panic' = (value'[c] < value[c])
  /\ calls' = Append(s, Loop(c))

AdvanceCounter(c, n) ==
  /\ phase = "run" /\ calls = <<>>
  /\ Advanced(calls, c, n)
  /\ UNCHANGED <<confVars, timeVars, errVars>>

\* The head of the list is due.  A task is activated or gets its event when everything
\* has returned, or cannot be activated; a callback is the application's; a counter is
\* advanced from inside the advance of the first.
Expire ==
  LET c == Top.c
      a == Head(list[c])
      d == At(alarm, a).data
      kind == IF d = None THEN "plain" ELSE At(osekalarm, d).kind
      s == [calls EXCEPT ![Len(calls)] = [@ EXCEPT !.a = a, !.may = (kind = "acb")]]
  IN
  /\ calls # <<>> /\ Top.a = None
  /\ list[c] # <<>> /\ At(alarm, a).expirytime <= value[c]
  /\ list' = [list EXCEPT ![c] = Tail(@)]
  /\ IF kind = "counter"
     THEN Advanced(s, At(osekalarm, d).obj, 1) /\ UNCHANGED errVars
     ELSE /\ calls' = s
          /\ UNCHANGED <<value, panic>>
          /\ \/ UNCHANGED errVars
             \/ kind = "task" /\ Report("limit")
  /\ UNCHANGED <<confVars, osekalarm, alarm, promise>>

Cycle(a) == IF At(alarm, a).data = None THEN 0 ELSE At(osekalarm, At(alarm, a).data).cycle

NextTime(a, c) == Plus(At(alarm, a).expirytime, Cycle(a))

\* The expiry function returns the cycle; an alarm without one, or whose next time would
\* overflow, is done.
FunctionReturns ==
  LET c == Top.c
      a == Top.a
      d == At(alarm, a).data
  IN
  /\ calls # <<>> /\ a # None
  /\ hook # 1 + Len(calls)
  /\ IF NextTime(a, c) <= At(alarm, a).expirytime
     THEN /\ alarm' = [alarm EXCEPT ![a + 1].expirytime = 0, ![a + 1].counter = None]
          /\ UNCHANGED list
     ELSE SetAlarm(c, a, NextTime(a, c))
  /\ promise' = IF d = None THEN promise
                ELSE LET t == At(promise, d) + Cycle(a) IN
                     [promise EXCEPT ![d + 1] =
                        IF t > MaxValue \/ Cycle(a) = 0 THEN 0 ELSE t]
  /\ calls' = [calls EXCEPT ![Len(calls)] = Loop(c)]
  /\ UNCHANGED <<confVars, osekalarm, errVars, value, panic>>

AdvanceReturns ==
  /\ calls # <<>> /\ Top.a = None
  /\ \A a \in ToSet(list[Top.c]) : a = Head(list[Top.c]) =>
       At(alarm, a).expirytime > value[Top.c]
  /\ calls' = Front(calls)
  /\ UNCHANGED <<confVars, timeVars, errVars, value, panic>>

-----------------------------------------------------------------------------
\* dv_osekinit()
Init ==
  /\ phase = "counters"
  /\ osekcounter = <<>> /\ osekalarm = <<>> /\ alarm = <<>> /\ promise = <<>>
  /\ list = [c \in Counter |-> <<>>] /\ value = [c \in Counter |-> 0]
  /\ calls = <<>>
  /\ lasterror = "ok" /\ hook = 0
  /\ panic = FALSE

\* Ids as the application may give them, one of them out of range.
Some(S) == S \union {Cardinality(S)}
Times == 0 .. 1 + Max(Maxima \union {0})

Next ==
  /\ ~panic
  /\ \/ HookReturns
     \/ NextPhase
     \/ \E c \in Some(Counter), max \in Maxima, min \in Minima : AddOsekCounter(c, max, min)
     \/ AddPlainAlarm
     \/ \E c \in Some(0 .. MaxOsekCounter - 1) :
          \/ \E t \in Some(Task), kind \in Kinds \intersect {"task", "event"} :
               AddAlarmTask(c, t, kind)
          \/ "acb" \in Kinds /\ AddAlarmAcb(c)
          \/ "counter" \in Kinds /\ \E c2 \in Some(Counter) : AddAlarmCounter(c, c2)
     \/ \E i \in Some(0 .. MaxOsekAlarm - 1), tim \in Times, cyc \in Times :
          SetRelAlarm(i, tim, cyc) \/ SetAbsAlarm(i, tim, cyc)
     \/ \E i \in 0 .. MaxOsekAlarm - 1 : CancelAlarm(i)
     \/ \E c \in Counter, n \in 1 .. 2 : AdvanceCounter(c, n)
     \/ Expire
     \/ FunctionReturns
     \/ AdvanceReturns

Spec == Init /\ [][Next]_vars

-----------------------------------------------------------------------------
\* An OSEK alarm expires when OSEK says it does: the first time at the next time its
\* counter reads the value given to SetAbsAlarm(), or after the ticks given to
\* SetRelAlarm(), then each cycle later, whatever the counter's wrapping, its callback or
\* another alarm on the counter do in the meantime; and it is refused only if 64 bits
\* cannot hold that time (SetAbsAlarm(), SetRelAlarm(), the expiry functions).
Promised ==
  ~panic => \A i \in Ids(osekalarm) : AlarmOf(i).expirytime = At(promise, i)

\* However the configuration's calls fail on the way, each OSEK alarm has a davroska
\* alarm of its own, which leads back to it, and refers to objects that exist
\* (dv_addosekalarm() and its callers).
OwnAlarm ==
  \A i \in Ids(osekalarm) :
    LET oa == At(osekalarm, i) IN
    /\ oa.alarm \in Ids(alarm) /\ At(alarm, oa.alarm).data = i
    /\ oa.osekcounter \in Ids(osekcounter)
    /\ OsekOf(i).counter \in Counter
    /\ oa.kind \in {"task", "event"} => oa.obj \in Task
    /\ oa.kind = "counter" => oa.obj \in Counter

\* The error of which the ErrorHook was told stays recorded while the hook runs.
LastErrorKept == [][hook # 0 /\ hook' # 0 => UNCHANGED lasterror]_vars
=============================================================================
