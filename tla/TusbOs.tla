-------------------------------- MODULE TusbOs --------------------------------
(***************************************************************************)
(* TinyUSB on davroska: the OSAL of tusb_os_davroska.h (and of             *)
(* tusb_os_osek.h, which does the same with OSEK's calls) and the device   *)
(* task of dv-tusb-device.c.                                               *)
(*                                                                         *)
(* The task is an extended task.  ISRs send to its queue, which is a ring  *)
(* buffer without a lock: each side moves an index of its own.  The ISRs   *)
(* have one priority, above the task's: they never come between two steps  *)
(* of each other, but between any two of the task's.  All that wakes the   *)
(* task is two events: Notify (queue and semaphore) and Timeout (alarm).   *)
(*                                                                         *)
(* pc is where the task is:                                                *)
(*   "work"    in TinyUSB's own code                                       *)
(*   "recv", "wait", "clear", "again", "copy", "advance"                   *)
(*             in osal_queue_receive()                                     *)
(*   "swait", "sclear"  in osal_wgcevent(), waiting for ever               *)
(*   "twait", "tget", "tstop", "tclear"  there too, with a time limit      *)
(*   "dwait", "dclear"  in osal_delay()                                    *)
(***************************************************************************)
EXTENDS Integers, Sequences

CONSTANTS
  Size,      \* the queue's len: one more than its depth
  Value,     \* what is sent
  Role,      \* the parts TinyUSB plays: "device" (uses the queue), "host" (the semaphore)
  Os,        \* "davroska", "osek"
  MaxTicks,  \* the longest delay or time limit
  Liberties  \* the rules that TinyUSB does not keep

\* Rules that the OSAL leaves to TinyUSB: a time limit is not zero, and nothing is posted
\* when a wait is just running out of time.
WaitsZero == "waits for no time"
PostsLate == "posts to a wait that times out"

ASSUME TusbAssumption ==
  /\ Size \in Nat \ {0}
  /\ MaxTicks \in Nat
  /\ Role \subseteq {"device", "host"} /\ Os \subseteq {"davroska", "osek"}
  /\ Liberties \subseteq {WaitsZero, PostsLate}

Slot  == 0 .. Size - 1
Event == {"notify", "timeout"}

VARIABLES
  role, os,  \* which of Role and Os this is
  buf,       \* the queue's buf
  w, r,      \* its w_index and r_index
  pending,   \* the task's pendingevents
  pc,        \* where the task is
  item,      \* what osal_queue_receive() has copied
  evt,       \* osal_wgcevent()'s evt
  alarm,     \* the ticks until the task's alarm expires, 0 when it is not in use
  fifo,      \* history: what has been sent and not yet received
  posted,    \* history: something was posted to the semaphore and not waited for
  slept      \* history: the ticks until the task may wake up

queueVars == <<buf, w, r, item, fifo>>
waitVars  == <<pending, evt, alarm, posted, slept>>
vars == <<role, os, queueVars, waitVars, pc>>

NextIndex(i) == IF i + 1 >= Size THEN 0 ELSE i + 1

At(s)     == pc = s
Goto(s)   == pc' = s
Has(e)    == e \in pending
Clear(es) == pending' = pending \ es

-----------------------------------------------------------------------------
(* The ISRs: osal_queue_send(), osal_semaphore_post() *)

\* Mutation: the queue may be filled to its last slot.
FullAtLast == FALSE

Full == NextIndex(w) = r

\* Mutation: the event is set only when there was something in the queue already.
SendLateEvent(v) ==
  /\ role = "device"
  /\ IF Full THEN UNCHANGED <<buf, w, pending, fifo>>
     ELSE /\ buf' = [buf EXCEPT ![w] = v]
          /\ w' = NextIndex(w)
          /\ pending' = IF w # r THEN pending \union {"notify"} ELSE pending
          /\ fifo' = Append(fifo, v)
  /\ UNCHANGED <<role, os, r, item, evt, alarm, posted, slept, pc>>

Send(v) ==
  /\ role = "device"
  /\ IF Full THEN UNCHANGED <<buf, w, pending, fifo>>
     ELSE /\ buf' = [buf EXCEPT ![w] = v]
          /\ w' = NextIndex(w)
          /\ pending' = pending \union {"notify"}
          /\ fifo' = Append(fifo, v)
  /\ UNCHANGED <<role, os, r, item, evt, alarm, posted, slept, pc>>

Post ==
  /\ role = "host"
  /\ PostsLate \in Liberties \/ ~(pc \in {"tstop", "tclear"} /\ "notify" \notin evt)
  /\ pending' = pending \union {"notify"}
  /\ posted' = TRUE
  /\ UNCHANGED <<role, os, queueVars, evt, alarm, slept, pc>>

-----------------------------------------------------------------------------
(* osal_queue_receive() *)

QueueOnly == UNCHANGED <<role, os, evt, alarm, posted, slept>>

Receive ==
  /\ role = "device" /\ At("work")
  /\ Goto("recv")
  /\ QueueOnly /\ UNCHANGED <<queueVars, pending>>

TestEmpty ==
  /\ At("recv")
  /\ Goto(IF r = w THEN "wait" ELSE "copy")
  /\ QueueOnly /\ UNCHANGED <<queueVars, pending>>

\* dv_waitevent() returns at once when the event is pending.
WaitNotify ==
  /\ At("wait") /\ Has("notify")
  /\ Goto("clear")
  /\ QueueOnly /\ UNCHANGED <<queueVars, pending>>

ClearNotify ==
  /\ At("clear")
  /\ Clear({"notify"})
  /\ Goto("again")
  /\ QueueOnly /\ UNCHANGED queueVars

\* Nothing there: 0 is returned, which makes TinyUSB's task function return.
TestAgain ==
  /\ At("again")
  /\ Goto(IF r = w THEN "idle" ELSE "copy")
  /\ QueueOnly /\ UNCHANGED <<queueVars, pending>>

Copy ==
  /\ At("copy")
  /\ item' = buf[r]
  /\ Goto("advance")
  /\ QueueOnly /\ UNCHANGED <<buf, w, r, fifo, pending>>

Advance ==
  /\ At("advance")
  /\ r' = NextIndex(r)
  /\ fifo' = Tail(fifo)
  /\ Goto("work")
  /\ QueueOnly /\ UNCHANGED <<buf, w, item, pending>>

-----------------------------------------------------------------------------
(* Alarms: osal_delay(), the time limit of osal_wgcevent() *)

\* dv_setalarm_rel() refuses 0, and an alarm in use; nobody looks.  SetRelAlarm() takes 0:
\* the next tick.
StartAlarm(n) ==
  /\ alarm' = IF alarm # 0 THEN alarm
              ELSE IF os = "osek" /\ n = 0 THEN 1 ELSE n
  /\ slept' = n

\* tusb_Expiry()
Tick ==
  /\ alarm > 0
  /\ alarm' = alarm - 1
  /\ slept' = IF slept > 0 THEN slept - 1 ELSE 0
  /\ pending' = IF alarm = 1 THEN pending \union {"timeout"} ELSE pending
  /\ UNCHANGED <<role, os, queueVars, evt, posted, pc>>

\* main_tusb_DeviceTask(): when TinyUSB's task function has returned.
Delay(n) ==
  /\ IF role = "device" THEN At("idle") ELSE At("work")
  /\ StartAlarm(n)
  /\ Goto("dwait")
  /\ UNCHANGED <<role, os, queueVars, pending, evt, posted>>

WaitTimeout ==
  /\ At("dwait") /\ Has("timeout")
  /\ Goto("dclear")
  /\ UNCHANGED <<role, os, queueVars, waitVars>>

ClearTimeout ==
  /\ At("dclear")
  /\ Clear({"timeout"})
  /\ Goto("work")
  /\ UNCHANGED <<role, os, queueVars, evt, alarm, posted, slept>>

-----------------------------------------------------------------------------
(* osal_wgcevent(), for the semaphore *)

WaitForever ==
  /\ role = "host" /\ At("work")
  /\ Goto("swait")
  /\ UNCHANGED <<role, os, queueVars, waitVars>>

WaitPosted ==
  /\ At("swait") /\ Has("notify")
  /\ Goto("sclear")
  /\ UNCHANGED <<role, os, queueVars, waitVars>>

\* The wait returns 1.
ClearPosted ==
  /\ At("sclear")
  /\ Clear({"notify"})
  /\ posted' = FALSE
  /\ Goto("work")
  /\ UNCHANGED <<role, os, queueVars, evt, alarm, slept>>

WaitLimited(n) ==
  /\ role = "host" /\ At("work")
  /\ n > 0 \/ WaitsZero \in Liberties
  /\ StartAlarm(n)
  /\ Goto("twait")
  /\ UNCHANGED <<role, os, queueVars, pending, evt, posted>>

WaitEither ==
  /\ At("twait") /\ pending # {}
  /\ Goto("tget")
  /\ UNCHANGED <<role, os, queueVars, waitVars>>

GetEvent ==
  /\ At("tget")
  /\ evt' = pending
  /\ Goto("tstop")
  /\ UNCHANGED <<role, os, queueVars, pending, alarm, posted, slept>>

StopAlarm ==
  /\ At("tstop")
  /\ alarm' = IF "timeout" \in evt THEN alarm ELSE 0
  /\ Goto("tclear")
  /\ UNCHANGED <<role, os, queueVars, pending, evt, posted, slept>>

\* Mutation: only the event that was seen is cleared.
ClearSeen ==
  /\ At("tclear")
  /\ Clear(evt)
  /\ evt' = {}
  /\ posted' = (posted /\ "notify" \notin evt)
  /\ Goto("work")
  /\ UNCHANGED <<role, os, queueVars, alarm, slept>>

\* The wait returns 1 if evt has the notification, 0 if not.
ClearBoth ==
  /\ At("tclear")
  /\ Clear(Event)
  /\ evt' = {}
  /\ posted' = (posted /\ "notify" \notin evt)
  /\ Goto("work")
  /\ UNCHANGED <<role, os, queueVars, alarm, slept>>

-----------------------------------------------------------------------------
Init ==
  /\ role \in Role /\ os \in Os
  /\ buf \in [Slot -> Value] /\ w = 0 /\ r = 0
  /\ pending = {} /\ pc = "work"
  /\ item \in Value /\ evt = {} /\ alarm = 0
  /\ fifo = <<>> /\ posted = FALSE /\ slept = 0

\* The task's steps inside the OSAL.
Step ==
  \/ TestEmpty
  \/ WaitNotify
  \/ ClearNotify
  \/ TestAgain
  \/ Copy
  \/ Advance
  \/ WaitTimeout
  \/ ClearTimeout
  \/ WaitPosted
  \/ ClearPosted
  \/ WaitEither
  \/ GetEvent
  \/ StopAlarm
  \/ ClearBoth

Next ==
  \/ \E v \in Value : Send(v)
  \/ Post
  \/ Receive
  \/ \E n \in 1 .. MaxTicks : Delay(n)
  \/ Tick
  \/ WaitForever
  \/ \E n \in 0 .. MaxTicks : WaitLimited(n)
  \/ Step

Spec == Init /\ [][Next]_vars

\* The task is run when it is ready, the ticker ticks, TinyUSB's device task function
\* comes back for the next event, or returns and is delayed.
Fairness ==
  /\ WF_vars(Step) /\ WF_vars(Tick)
  /\ WF_vars(Receive)
  /\ WF_vars(role = "device" /\ \E n \in 1 .. MaxTicks : Delay(n))
FairSpec == Spec /\ Fairness

-----------------------------------------------------------------------------
PC == {"work", "recv", "wait", "clear", "again", "copy", "advance", "idle",
       "swait", "sclear", "twait", "tget", "tstop", "tclear", "dwait", "dclear"}

TypeOK ==
  /\ role \in {"device", "host"} /\ os \in {"davroska", "osek"}
  /\ buf \in [Slot -> Value] /\ w \in Slot /\ r \in Slot
  /\ pending \subseteq Event /\ pc \in PC
  /\ item \in Value /\ evt \subseteq Event /\ alarm \in 0 .. MaxTicks + 1
  /\ fifo \in Seq(Value) /\ posted \in BOOLEAN /\ slept \in 0 .. MaxTicks

\* The k-th slot from r on.
SlotOf(k) == IF r + k - 1 < Size THEN r + k - 1 ELSE r + k - 1 - Size
Count     == IF w >= r THEN w - r ELSE w - r + Size

\* Between r_index and w_index is what was sent and not yet received, in order: nothing
\* is lost, doubled or overwritten, although the task and the ISRs use the buffer without
\* a lock (inline_queue_send(), inline_queue_receive()).
RingHolds ==
  /\ Len(fifo) = Count
  /\ \A k \in 1 .. Len(fifo) : buf[SlotOf(k)] = fifo[k]

\* What the task takes is the oldest event, also when more are sent while it copies.
TakesOldest == At("advance") => fifo # <<>> /\ item = Head(fifo)

\* The task does not wait for an event that has come already: between its look at the
\* queue and its wait, between the wait and dv_clearevent(), or before it is posted.
NoLostWakeup ==
  /\ At("wait") /\ fifo # <<>> => Has("notify")
  /\ posted => Has("notify") \/ "notify" \in evt

\* osal_delay() lasts as long as it was asked to, and a time limit does not end early: no
\* alarm and no Timeout is left over from a wait that was ended by a notification.
FullDelay ==
  /\ At("dclear") => slept = 0
  /\ At("tget") /\ "notify" \notin pending => slept = 0

\* What the comment in inline_queue_receive() says should never happen.
NeverEmptyAfterEvent == At("again") => r # w

\* Whatever was sent is received, whatever else goes on.
Receives == \A i \in Slot : r = i /\ w # i ~> r # i

\* A wait with a time limit ends.
LimitedWaitEnds == At("twait") ~> At("work")
=============================================================================
