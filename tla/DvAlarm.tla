------------------------------- MODULE DvAlarm -------------------------------
(***************************************************************************)
(* Counters and alarms: src/davroska/c/davroska-time.c.                    *)
(*                                                                         *)
(* A counter has a list of alarms, linked through dv_alarm[a].nextalarm,   *)
(* in the order of their expiry times.  Advancing the counter takes the    *)
(* alarms that are due off the list and calls their expiry functions.      *)
(*                                                                         *)
(* `calls' is the stack of API calls that are under way.  An expiry        *)
(* function runs inside dv_advancecounter(), with interrupts disabled, and *)
(* may itself use the API.  dv_setalarm_abs() and dv_setalarm_rel() look   *)
(* whether the alarm is in use BEFORE they disable interrupts: between the *)
(* two, executables of higher priority may run and use the API.  The       *)
(* preempted call goes on only when they have finished, so calls nest.     *)
(*                                                                         *)
(* What else an expiry function does (activate tasks, set events) waits    *)
(* until dv_advancecounter() has lowered the priority again: RaisePrio and *)
(* LowerPrio of module Davroska.  Calls that are refused change nothing.   *)
(***************************************************************************)
EXTENDS Integers, Sequences, FiniteSets, FiniteSetsExt

CONSTANTS
  Counter,   \* the counters (ids 0 .. dv_ncounter-1)
  Alarm,     \* the alarms (ids 0 .. dv_nalarm-1)
  None,      \* the id -1
  MaxValue,  \* the largest dv_u64_t
  MaxNest,   \* bound on the calls under way at a time
  Liberties  \* the rules that the application does not keep

\* Rules that davroska-time.c leaves to the application: an executable does not set
\* an alarm that an executable it has preempted is about to set; an expiry function
\* stops no alarm whose expiry function is running (its own, or that of a counter
\* which is being advanced); and it sets no alarm at a value already reached.
SetsTwice      == "sets an alarm that is being set"
StopsExpiring  == "stops an expiring alarm"
SetsInThePast  == "sets an alarm in the past"

ASSUME AlarmAssumption ==
  /\ None \notin Alarm /\ None \notin Counter
  /\ IsFiniteSet(Alarm)
  /\ MaxValue \in Nat \ {0} /\ MaxNest \in Nat \ {0}
  /\ Liberties \subseteq {SetsTwice, StopsExpiring, SetsInThePast}

Value == 0 .. MaxValue

\* Addition of dv_u64_t wraps around.
Plus(u, v) == (u + v) % (MaxValue + 1)

VARIABLES
  value,       \* dv_counter[c].value
  head,        \* dv_counter[c].head
  expirytime,  \* dv_alarm[a].expirytime, 0 when the alarm is not in use
  counter,     \* dv_alarm[a].counter
  nextalarm,   \* dv_alarm[a].nextalarm
  calls,       \* the API calls under way, the running one last
  panic        \* the reason given to dv_panic(), or "hang": an endless loop

alarmVars == <<expirytime, counter, nextalarm>>
vars      == <<value, head, alarmVars, calls, panic>>

\* op = "abs", "rel": dv_setalarm_abs/rel(c, a, v) after its checks
\* op = "advance":    dv_advancecounter(c, n); a is the alarm whose expiry function
\*                    is running, None in the loop around it
Call(op, c, a, v) == [op |-> op, c |-> c, a |-> a, v |-> v]

Top    == calls[Len(calls)]
Caller == SubSeq(calls, 1, Len(calls) - 1)

\* Interrupts are disabled: some counter is being advanced.
Locked  == \E i \in 1 .. Len(calls) : calls[i].op = "advance"
Setting == calls # <<>> /\ Top.op \in {"abs", "rel"}

\* The code that may call the API: an expiry function, an executable, or one that
\* has preempted an executable in the middle of a call.
ApiFree == \/ calls = <<>>
           \/ Setting /\ ~Locked
           \/ calls # <<>> /\ Top.op = "advance" /\ Top.a # None

Advancing(c) == \E i \in 1 .. Len(calls) : calls[i].op = "advance" /\ calls[i].c = c

\* The alarms whose expiry functions are running
Expiring == {calls[i].a : i \in {j \in 1 .. Len(calls) : calls[j].op = "advance"}} \ {None}

Panic(reason) == /\ panic' = reason
                 /\ UNCHANGED <<value, head, alarmVars, calls>>

-----------------------------------------------------------------------------
(* The list of a counter: dv_setalarm(), dv_stopalarm()                    *)

\* The alarm reached from the head of the list of c in n steps.
Hop(c) ==
  LET f[n \in 0 .. Cardinality(Alarm)] ==
        IF n = 0 THEN head[c]
        ELSE LET a == f[n - 1] IN IF a = None THEN None ELSE nextalarm[a]
  IN  f

\* Mutation: the walk stops before the alarms of the same time.
StopsAtEqual(a, c, v) ==
  LET walk == Hop(c)
      time == [expirytime EXCEPT ![a] = v]
  IN  {n \in DOMAIN walk : walk[n] = None \/ time[walk[n]] >= v}

\* Where the walk along the list of c can stop: at its end, or at an alarm that
\* expires later than v.  The time of a has been set to v before the walk.
Stops(a, c, v) ==
  LET walk == Hop(c)
      time == [expirytime EXCEPT ![a] = v]
  IN  {n \in DOMAIN walk : walk[n] = None \/ time[walk[n]] > v}

\* dv_setalarm(c, a, v), after which the calls of `rest' are left.  In a list that
\* has become a cycle the walk may find no place, and never ends.
SetAlarm(a, c, v, rest) ==
  IF Stops(a, c, v) = {} THEN Panic("hang")
  ELSE
  LET n == Min(Stops(a, c, v)) IN
  /\ expirytime' = [expirytime EXCEPT ![a] = v]
  /\ counter'    = [counter EXCEPT ![a] = c]
  /\ IF n = 0
     THEN /\ nextalarm' = [nextalarm EXCEPT ![a] = head[c]]
          /\ head'      = [head EXCEPT ![c] = a]
     ELSE /\ nextalarm' = [nextalarm EXCEPT ![a] = Hop(c)[n], ![Hop(c)[n - 1]] = a]
          /\ UNCHANGED head
  /\ calls' = rest
  /\ UNCHANGED <<value, panic>>

\* Mutation: the list of the stopped alarm is left with it.
UnlinkAll(a, p) == [nextalarm EXCEPT ![p] = None, ![a] = None]

\* The alarm after a is linked to its predecessor p.
Unlink(a, p) == [nextalarm EXCEPT ![p] = nextalarm[a], ![a] = None]

\* dv_stopalarm(a)
StopAlarm(a) ==
  LET c     == counter[a]
      preds == {n \in 0 .. Cardinality(Alarm) - 1 : Hop(c)[n + 1] = a}
  IN
  /\ ApiFree
  /\ StopsExpiring \in Liberties \/ a \notin Expiring
  /\ CASE c = None ->
            /\ expirytime' = [expirytime EXCEPT ![a] = 0]
            /\ nextalarm'  = [nextalarm EXCEPT ![a] = None]
            /\ UNCHANGED <<value, head, counter, calls, panic>>
       [] c # None /\ head[c] = a ->
            /\ head'       = [head EXCEPT ![c] = nextalarm[a]]
            /\ expirytime' = [expirytime EXCEPT ![a] = 0]
            /\ counter'    = [counter EXCEPT ![a] = None]
            /\ nextalarm'  = [nextalarm EXCEPT ![a] = None]
            /\ UNCHANGED <<value, calls, panic>>
       [] c # None /\ head[c] # a /\ preds # {} ->
            /\ nextalarm'  = Unlink(a, Hop(c)[Min(preds)])
            /\ expirytime' = [expirytime EXCEPT ![a] = 0]
            /\ counter'    = [counter EXCEPT ![a] = None]
            /\ UNCHANGED <<value, head, calls, panic>>
       [] OTHER ->
            Panic(IF Hop(c)[Cardinality(Alarm)] = None THEN "AlarmCorrupt" ELSE "hang")

-----------------------------------------------------------------------------
(* dv_setalarm_abs(), dv_setalarm_rel()                                    *)

\* The value that a call sets the alarm to, were it to go on now
Target(op, c, v) == IF op = "rel" THEN Plus(value[c], v) ELSE v

\* Mutation: an alarm is in use only when its function is running.
InUseWhileExpiring(a) == a \in Expiring

InUse(a) == expirytime[a] # 0

\* The checks of a call, made with interrupts as they were
BeginSet(op, c, a, v) ==
  /\ ApiFree
  /\ Len(calls) < MaxNest
  /\ v # 0
  /\ ~InUse(a)
  /\ \/ SetsTwice \in Liberties
     \/ \A i \in 1 .. Len(calls) : calls[i].op \in {"abs", "rel"} => calls[i].a # a
  /\ SetsInThePast \in Liberties \/ ~Advancing(c) \/ Target(op, c, v) > value[c]
  /\ calls' = Append(calls, Call(op, c, a, v))
  /\ UNCHANGED <<value, head, alarmVars, panic>>

\* ... and the rest, with interrupts disabled.  A relative time that overflows is
\* refused.
EndSet ==
  /\ Setting
  /\ LET v == Target(Top.op, Top.c, Top.v) IN
       IF Top.op = "rel" /\ v < value[Top.c]
       THEN calls' = Caller /\ UNCHANGED <<value, head, alarmVars, panic>>
       ELSE SetAlarm(Top.a, Top.c, v, Caller)

-----------------------------------------------------------------------------
(* dv_advancecounter()                                                     *)

\* Up to its loop.  Nothing is taken back when the counter overflows.
AdvanceCounter(c, n) ==
  /\ ApiFree
  /\ Len(calls) < MaxNest
  /\ IF Plus(value[c], n) < value[c] THEN Panic("CounterOverflow")
     ELSE /\ value' = [value EXCEPT ![c] = Plus(@, n)]
          /\ calls' = Append(calls, Call("advance", c, None, 0))
          /\ UNCHANGED <<head, alarmVars, panic>>

\* The loop of a running dv_advancecounter()
Looping == calls # <<>> /\ Top.op = "advance" /\ Top.a = None

Due(c) == head[c] # None /\ expirytime[head[c]] <= value[c]

\* An alarm is taken off the list and its expiry function called.
Expire ==
  /\ Looping
  /\ Due(Top.c)
  /\ calls' = [calls EXCEPT ![Len(calls)].a = head[Top.c]]
  /\ head'  = [head EXCEPT ![Top.c] = nextalarm[head[Top.c]]]
  /\ UNCHANGED <<value, alarmVars, panic>>

\* Mutation: an increment of 0 does not stop the alarm.
StopsOnOverflow(a, inc) == Plus(expirytime[a], inc) < expirytime[a]

\* Neither an increment of 0 nor an addition that overflows lets the alarm repeat.
StopsRepeating(a, inc) == Plus(expirytime[a], inc) <= expirytime[a]

\* The function returns the increment after which its alarm expires again.
ExpiryReturns(inc) ==
  LET a    == Top.a
      loop == [calls EXCEPT ![Len(calls)].a = None]
  IN
  /\ calls # <<>> /\ Top.op = "advance" /\ a # None
  /\ IF StopsRepeating(a, inc)
     THEN /\ expirytime' = [expirytime EXCEPT ![a] = 0]
          /\ counter'    = [counter EXCEPT ![a] = None]
          /\ nextalarm'  = [nextalarm EXCEPT ![a] = None]
          /\ calls'      = loop
          /\ UNCHANGED <<value, head, panic>>
     ELSE SetAlarm(a, Top.c, Plus(expirytime[a], inc), loop)

EndAdvance ==
  /\ Looping
  /\ ~Due(Top.c)
  /\ calls' = Caller
  /\ UNCHANGED <<value, head, alarmVars, panic>>

-----------------------------------------------------------------------------
\* dv_addcounter(), dv_addalarm()
Init ==
  /\ value      = [c \in Counter |-> 0]
  /\ head       = [c \in Counter |-> None]
  /\ expirytime = [a \in Alarm |-> 0]
  /\ counter    = [a \in Alarm |-> None]
  /\ nextalarm  = [a \in Alarm |-> None]
  /\ calls      = <<>>
  /\ panic      = "none"

Begin == \/ \E op \in {"abs", "rel"}, c \in Counter, a \in Alarm, v \in Value :
              BeginSet(op, c, a, v)
         \/ \E a \in Alarm : StopAlarm(a)
         \/ \E c \in Counter, n \in Value : AdvanceCounter(c, n)

Return == \E inc \in Value : ExpiryReturns(inc)

Next == /\ panic = "none"
        /\ Begin \/ EndSet \/ Expire \/ Return \/ EndAdvance

Spec == Init /\ [][Next]_vars

\* The kernel's own steps are taken, and every expiry function ends: it does not
\* use the API for ever.
Ends(a)  == panic = "none" /\ calls # <<>> /\ Top.a = a /\ Return
FairSpec == /\ Spec
            /\ WF_vars(panic = "none" /\ (EndSet \/ Expire \/ EndAdvance))
            /\ \A a \in Alarm : SF_vars(Ends(a))

-----------------------------------------------------------------------------
(* Properties                                                              *)

\* Every variable has its type; in particular counter values and expiry times stay
\* within dv_u64_t and the links of the lists name alarms.
TypeOK ==
  /\ value \in [Counter -> Value]
  /\ head \in [Counter -> Alarm \union {None}]
  /\ expirytime \in [Alarm -> Value]
  /\ counter \in [Alarm -> Counter \union {None}]
  /\ nextalarm \in [Alarm -> Alarm \union {None}]
  /\ calls \in Seq([op : {"abs", "rel", "advance"}, c : Counter,
                    a : Alarm \union {None}, v : Value])
  /\ panic \in {"none", "AlarmCorrupt", "CounterOverflow", "hang"}

Listed(c) == LET walk == Hop(c) IN {walk[n] : n \in DOMAIN walk} \ {None}

\* The lists, the times and the links to counters tell the same story: an alarm that
\* is in use is on the list of its counter and on no other, unless its expiry function
\* is running; one that is not in use is on no list; no list is a cycle.
ListsMatch ==
  /\ \A a \in Alarm : (expirytime[a] # 0) <=> (counter[a] # None)
  /\ \A c \in Counter : Listed(c) = {a \in Alarm : counter[a] = c} \ Expiring
  /\ \A c \in Counter : Hop(c)[Cardinality(Alarm)] = None

\* "The list is ordered by ascending expiry time", whatever expiry functions and
\* preempting executables have set and stopped.
Sorted ==
  \A c \in Counter :
    LET walk == Hop(c)
    IN  \A n \in 1 .. Cardinality(Alarm) :
          walk[n] # None => expirytime[walk[n - 1]] <= expirytime[walk[n]]

\* dv_stopalarm() always finds an active alarm in its counter's list, and neither it
\* nor dv_setalarm() walks round a list that has become a cycle.
NeverCorrupt == panic \notin {"AlarmCorrupt", "hang"}

\* What dv_setalarm_abs() and dv_setalarm_rel() checked before they disabled
\* interrupts is still true when they act on it: the alarm is not in use.
CheckStillHolds == Setting => expirytime[Top.a] = 0

\* An expiry function is not entered again while it is running, even if it advances
\* the counter that its alarm is on.
NoReentry ==
  \A i, j \in 1 .. Len(calls) :
     i # j /\ calls[i].op = "advance" /\ calls[j].op = "advance" /\ calls[i].a # None
        => calls[i].a # calls[j].a

\* dv_advancecounter() comes to an end: its expiry functions, and the alarms they set,
\* do not keep it in its loop.
AdvanceReturns == Locked ~> (~Locked \/ panic # "none")

\* The lists of the counters stay whole through every nesting of calls, preemptions and
\* expiry functions (insert(), dv_removealarm(), dv_advancecounter()).
ListsSound == ListsMatch /\ Sorted /\ NeverCorrupt /\ NoReentry

-----------------------------------------------------------------------------
(* As an implementation of AlarmClock                                      *)

\* The list of a counter: the alarms on the walk from its head to its end
ListOf(c) ==
  LET walk == Hop(c)
  IN  [i \in 1 .. Min({n \in DOMAIN walk : walk[n] = None}) |->
         [a |-> walk[i - 1], t |-> expirytime[walk[i - 1]]]]

Lists == [c \in Counter |-> ListOf(c)]

\* Calls of executables that were preempted while they set an alarm come first, then
\* advances of counters, and after them at most one that an expiry function makes.
Preempted(cs) == CHOOSE n \in 0 .. Len(cs) : /\ \A i \in 1 .. n : cs[i].op # "advance"
                                            /\ n < Len(cs) => cs[n + 1].op = "advance"
LastAdvance(cs) == IF cs # <<>> /\ cs[Len(cs)].op # "advance" THEN Len(cs) - 1 ELSE Len(cs)

\* The time of an alarm stays with it while its expiry function runs.
ServedBy(x, t) == [c |-> x.c, a |-> x.a, t |-> IF x.a = None THEN 0 ELSE t[x.a]]

ServedIn(cs, t) == [i \in 1 .. LastAdvance(cs) - Preempted(cs) |->
                      ServedBy(cs[Preempted(cs) + i], t)]

Serving == ServedIn(calls, expirytime)

Clock == INSTANCE AlarmClock WITH list <- Lists, serving <- Serving

\* Linked lists, times and the stack of calls behave like the sorted lists of
\* AlarmClock: alarms expire in order, none early, none is passed over, and an
\* alarm in use is not set again.
ImplementsAlarmClock == Clock!Spec
=============================================================================
