----------------------------- MODULE AlarmClock -----------------------------
(***************************************************************************)
(* What counters and alarms promise (src/davroska/README.md, "Counters are *)
(* objects that ..."): each counter has a list of alarms, in the order of  *)
(* their times and, for the same time, in the order in which they were     *)
(* set.  While a counter is advanced its alarms that are due expire one at *)
(* a time in that order, none before its time, and the advance ends when   *)
(* none is due.  An alarm is set only when it is idle: neither on a list   *)
(* nor expiring.                                                           *)
(***************************************************************************)
EXTENDS Naturals, SequencesExt

CONSTANTS Counter, Alarm, None, MaxValue

VARIABLES
  value,   \* the value of each counter
  list,    \* the alarms set on each counter: records of alarm and time
  serving  \* the advances under way, innermost last: counter, alarm and its time

vars == <<value, list, serving>>

Entry(a, t) == [a |-> a, t |-> t]
Top         == serving[Len(serving)]

\* The place of an alarm on a list: after those of the same time
IsPlace(l, i, t) == /\ i \in 1 .. Len(l) + 1
                    /\ \A j \in 1 .. i - 1 : l[j].t <= t
                    /\ \A j \in i .. Len(l) : l[j].t > t

Put(c, a, t) == LET l == list[c] IN
                \E i \in 1 .. Len(l) + 1 :
                  /\ IsPlace(l, i, t)
                  /\ list' = [list EXCEPT ![c] = InsertAt(@, i, Entry(a, t))]

IsIdle(a) == /\ \A c \in Counter : \A x \in Range(list[c]) : x.a # a
             /\ \A x \in Range(serving) : x.a # a

Arm(a) ==
  /\ UNCHANGED <<value, serving>>
  /\ IsIdle(a)
  /\ \E c \in Counter, t \in 1 .. MaxValue : Put(c, a, t)

Disarm(c) ==
  /\ UNCHANGED <<value, serving>>
  /\ \E i \in 1 .. Len(list[c]) : list' = [list EXCEPT ![c] = RemoveAt(@, i)]

Advance(c, n) ==
  /\ value[c] + n <= MaxValue
  /\ value'   = [value EXCEPT ![c] = @ + n]
  /\ serving' = Append(serving, [c |-> c, a |-> None, t |-> 0])
  /\ UNCHANGED list

IsDue(c) == list[c] # <<>> /\ Head(list[c]).t <= value[c]

Expire ==
  /\ serving # <<>> /\ Top.a = None
  /\ IsDue(Top.c)
  /\ serving' = [serving EXCEPT ![Len(serving)].a = Head(list[Top.c]).a,
                                ![Len(serving)].t = Head(list[Top.c]).t]
  /\ list'    = [list EXCEPT ![Top.c] = Tail(@)]
  /\ UNCHANGED value

\* The alarm stops, or expires again exactly inc after its time.
Expired(inc) ==
  /\ serving # <<>> /\ Top.a # None
  /\ serving' = [serving EXCEPT ![Len(serving)].a = None, ![Len(serving)].t = 0]
  /\ IF inc > 0 /\ Top.t + inc <= MaxValue THEN Put(Top.c, Top.a, Top.t + inc)
                                             ELSE UNCHANGED list
  /\ UNCHANGED value

Advanced ==
  /\ serving # <<>> /\ Top.a = None
  /\ ~IsDue(Top.c)
  /\ serving' = SubSeq(serving, 1, Len(serving) - 1)
  /\ UNCHANGED <<value, list>>

Init == /\ value   = [c \in Counter |-> 0]
        /\ list    = [c \in Counter |-> <<>>]
        /\ serving = <<>>

Next == \/ \E a \in Alarm : Arm(a)
        \/ \E c \in Counter : Disarm(c)
        \/ \E c \in Counter, n \in 0 .. MaxValue : Advance(c, n)
        \/ \E inc \in 0 .. MaxValue : Expired(inc)
        \/ Expire \/ Advanced

Spec == Init /\ [][Next]_vars
=============================================================================
