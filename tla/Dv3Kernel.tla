------------------------------- MODULE Dv3Kernel -------------------------------
(***************************************************************************)
(* The davros-3 kernel (src/davros-3/kernel): executables run on threads,  *)
(* one thread for each base priority; a thread that is occupied keeps a    *)
(* queue of jobs; the processor runs the first thread of a list ordered by *)
(* priority.  Executables sleep, suspend each other, and take semaphores   *)
(* with an immediate priority ceiling.                                     *)
(*                                                                         *)
(* The kernel is not re-entrant: a system call or the timer interrupt runs *)
(* from its entry to dv_dispatch() with interrupts disabled.  A step of    *)
(* pc = "app" is a system call of the running executable, up to the call   *)
(* of dv_dispatch().  Calls that are refused change nothing but the        *)
(* returned error and are left out.                                        *)
(*                                                                         *)
(* The executables have been created, one set for the whole run.           *)
(*                                                                         *)
(* The operators whose comment starts with "Mutation:" are used nowhere.   *)
(***************************************************************************)
EXTENDS Integers, Sequences, FiniteSets, FiniteSetsExt, SequencesExt

CONSTANTS
  Exe,        \* the executables that have been created
  Idle,       \* the idle loop
  InitExe,    \* the executable of main(), spawned by dv_start()
  None,       \* DV_NULL
  BasePrio,   \* dv_executable_t.baseprio, and runprio: no call changes either
  Blocking,   \* the executables with DV_EXEFLAG_BLOCKING
  Sem,        \* the table of semaphores
  MinRb,      \* DV_MIN_THREADRB
  RoundRb,    \* DV_ROUND_THREADRB
  MinSleep,   \* DV_MIN_SLEEP
  Second,     \* the time that dv_wakeup() adds when nobody sleeps
  Wrap,       \* 2^32: the compare register holds the time modulo Wrap
  Drift,      \* bound on the time a call takes from reading the timer to setting it
  MaxSleep,   \* bound on the time an executable asks to sleep
  MaxTime,    \* bound on the time
  Liberties   \* the rules that the application does not keep

\* Rules that no call enforces: the idle loop makes no system call (dv-idle.c makes
\* none); the semaphores that an executable has taken are signalled in reverse
\* order, before it ends and before it yields, and none is waited for again by its
\* owner; a ceiling is raised only while the semaphore is free.
IdleCalls      == "idle loop makes calls"
OutOfOrder     == "signals out of order"
ExitsHolding   == "exits holding a semaphore"
YieldsHolding  == "yields holding a semaphore"
WaitsAgain     == "waits again"
RaisesInUse    == "raises the ceiling of a semaphore in use"

ASSUME ExeAssumption ==
  /\ IsFiniteSet(Exe) /\ None \notin Exe \union Sem /\ None \notin Nat
  /\ Idle \in Exe /\ InitExe \in Exe \ {Idle}
  /\ BasePrio \in [Exe -> Nat]
  /\ BasePrio[Idle] = 0
  /\ \A e \in Exe \ {Idle} : BasePrio[e] > 0
  /\ Blocking \subseteq Exe \ {Idle}

ASSUME NumberAssumption ==
  /\ MinRb \in Nat \ {0} /\ RoundRb \in Nat \ {0}
  /\ MinSleep \in Nat /\ Drift \in Nat /\ Drift < MinSleep
  /\ Wrap \in Nat /\ Wrap > 2 * MinSleep
  /\ Second \in Nat /\ MaxSleep \in Nat /\ MaxTime \in Nat

ASSUME LibertiesAssumption ==
  Liberties \subseteq {IdleCalls, OutOfOrder, ExitsHolding, YieldsHolding, WaitsAgain,
                       RaisesInUse}

\* dv_allocate_thread(): executables of one base priority share a thread, which is
\* named by that priority.
Thread == {BasePrio[e] : e \in Exe}
Prio   == -1 .. Max(Thread)

\* DV_MIN_PRIORITY, the ceiling of a semaphore that nobody uses yet.
MinPriority == -1

VARIABLES
  exestate,     \* dv_executable_t.state
  begun,        \* the executables whose registers are within their main function
  semtaken,     \* dv_executable_t.semtaken
  thrstate,     \* dv_thread_t.state
  thrprio,      \* dv_thread_t.link.key
  threxe,       \* dv_thread_t.executable
  jobqueue,     \* dv_thread_t.jobqueue
  threadqueue,  \* dv_kernel_t.thread_queue
  current,      \* dv_kernel_t.current_thread
  created,      \* the semaphores with protocol dv_semaphore_immediateceiling
  owner,        \* dv_semaphore_t.owner
  link,         \* dv_semaphore_t.link
  oldprio,      \* dv_semaphore_t.oldprio
  ceiling,      \* dv_semaphore_t.ceiling
  count,        \* dv_semaphore_t.count
  sleepqueue,   \* dv_kernel_t.sleep_queue: records [exe, key], the first to wake first
  now,          \* dv_readtime()
  compare,      \* the compare register of the system timer
  irq,          \* the timer interrupt is pending
  pc,           \* "app", "dispatch": before dv_dispatch(), "wakeup": dv_wakeup()
  panic         \* the reason given to dv_panic(), "none" while the system runs

exeVars   == <<exestate, begun>>
thrVars   == <<thrstate, thrprio, threxe, jobqueue, threadqueue, current>>
semVars   == <<created, owner, link, oldprio, ceiling, count, semtaken>>
timeVars  == <<now, compare, irq>>
vars      == <<exeVars, thrVars, semVars, sleepqueue, timeVars, pc, panic>>

Me == threxe[current]

Panic(reason) == /\ panic' = reason
                 /\ UNCHANGED <<exeVars, thrVars, semVars, sleepqueue, timeVars, pc>>

-----------------------------------------------------------------------------
(* The list of threads, and a job queue                                    *)

\* Where the walk along q stops: at the first thread of S, or at the end
Stop(q, S) == Min({i \in DOMAIN q : q[i] \in S} \union {Len(q) + 1})

\* dv_dllinsertaftersame() of thread t with priority p; prio are the keys of q
InsertAfterSame(q, t, p, prio) ==
  InsertAt(q, Stop(q, {u \in Thread : prio[u] < p}), t)

\* dv_dllinsertbeforesame_elem()
InsertBeforeSame(q, t, p, prio) ==
  InsertAt(q, Stop(q, {u \in Thread : prio[u] <= p}), t)

\* dv_thread_rb_length() for a thread that n executables use
RbLength(n) == IF n < MinRb THEN MinRb ELSE n + RoundRb - (n % RoundRb)

NExe(t) == Cardinality({e \in Exe : BasePrio[e] = t})

-----------------------------------------------------------------------------
(* Starting, resuming and removing an executable                           *)

\* dv_resume_executable_in_thread(); keys are those of the other threads
Occupy(t, e, q, prio) ==
  /\ threxe'      = [threxe EXCEPT ![t] = e]
  /\ thrstate'    = [thrstate EXCEPT ![t] = "ready"]
  /\ thrprio'     = [prio EXCEPT ![t] = BasePrio[e]]
  /\ threadqueue' = InsertAfterSame(q, t, BasePrio[e], prio)

\* dv_spawn_executable() and dv_resume_executable(): a thread that is occupied takes
\* the executable as a job.  When its queue is full the executable has been marked
\* active all the same.
Activate(e) ==
  LET t == BasePrio[e] IN
  /\ exestate' = [exestate EXCEPT ![e] = "active"]
  /\ IF thrstate[t] = "idle"
     THEN Occupy(t, e, threadqueue, thrprio) /\ UNCHANGED jobqueue
     ELSE /\ jobqueue' = IF Len(jobqueue[t]) < RbLength(NExe(t))
                         THEN [jobqueue EXCEPT ![t] = Append(@, e)] ELSE jobqueue
          /\ UNCHANGED <<threxe, thrstate, thrprio, threadqueue>>
  /\ UNCHANGED current

\* dv_remove_executable_from_thread(): the thread leaves the list, whose first it is;
\* the next job is always spawned, which sets its registers to the start of its main
\* function; the registers of `kept' stay.
Vacate(t, kept) ==
  LET q == Tail(threadqueue) IN
  /\ IF jobqueue[t] = <<>>
     THEN /\ threxe'      = [threxe EXCEPT ![t] = None]
          /\ thrstate'    = [thrstate EXCEPT ![t] = "idle"]
          /\ threadqueue' = q
          /\ begun'       = kept
          /\ UNCHANGED <<thrprio, jobqueue>>
     ELSE /\ Occupy(t, Head(jobqueue[t]), q, thrprio)
          /\ jobqueue' = [jobqueue EXCEPT ![t] = Tail(@)]
          /\ begun'    = kept \ {Head(jobqueue[t])}
  /\ current' = None

-----------------------------------------------------------------------------
(* System calls                                                            *)

\* dv_syscall() asks for at least one other thread (dv_dllisempty() also holds for a
\* list of one element) and for the caller to be the first.
CanEnter == Len(threadqueue) > 1 /\ Head(threadqueue) = current

Calls == /\ pc = "app"
         /\ Me # Idle \/ IdleCalls \in Liberties

\* What every system call does: its entry, and the jump to the dispatcher.
Syscall == /\ Calls
           /\ CanEnter
           /\ pc' = "dispatch"
           /\ UNCHANGED panic

\* dv_sys_null(); the entry that fails is the same for all calls.
Null == /\ Calls
        /\ IF CanEnter
           THEN /\ pc' = "dispatch"
                /\ UNCHANGED <<exeVars, thrVars, semVars, sleepqueue, timeVars, panic>>
           ELSE Panic("ThreadQueue")

\* dv_sys_spawn()
Spawn(e) ==
  /\ Syscall
  /\ exestate[e] = "idle"
  /\ Activate(e)
  /\ begun' = IF thrstate[BasePrio[e]] = "idle" THEN begun \ {e} ELSE begun
  /\ UNCHANGED <<semVars, sleepqueue, timeVars>>

\* What the application knows of the semaphores that it has taken
OwnsNone == \A s \in Sem : owner[s] # Me

\* dv_sys_exit().  The registers of an executable that has ended do not matter.
Exit ==
  /\ Calls /\ CanEnter
  /\ Me # Idle
  /\ ExitsHolding \in Liberties \/ OwnsNone
  /\ IF semtaken[Me] # None THEN Panic("Unimplemented")
     ELSE /\ pc' = "dispatch"
          /\ exestate' = [exestate EXCEPT ![Me] = "idle"]
          /\ Vacate(current, begun \ {Me})
          /\ UNCHANGED <<semVars, sleepqueue, timeVars, panic>>

\* An executable may block, but not while it occupies a semaphore.
MayBlock == Me \in Blocking /\ semtaken[Me] = None

\* dv_sys_suspend()
Suspend ==
  /\ Syscall
  /\ MayBlock
  /\ exestate' = [exestate EXCEPT ![Me] = "suspended"]
  /\ Vacate(current, begun)
  /\ UNCHANGED <<semVars, sleepqueue, timeVars>>

\* dv_sys_resume()
Resume(e) ==
  /\ Syscall
  /\ exestate[e] = "suspended"
  /\ Activate(e)
  /\ UNCHANGED <<begun, semVars, sleepqueue, timeVars>>

\* dv_sys_yield(): only an executable whose priority is raised finds a thread above
\* its base priority.
Yield ==
  /\ Syscall
  /\ YieldsHolding \in Liberties \/ OwnsNone
  /\ IF thrprio[threadqueue[2]] > BasePrio[Me]
     THEN /\ thrprio'     = [thrprio EXCEPT ![current] = BasePrio[Me]]
          /\ threadqueue' = InsertAfterSame(Tail(threadqueue), current, BasePrio[Me], thrprio)
     ELSE UNCHANGED <<thrprio, threadqueue>>
  /\ UNCHANGED <<exeVars, thrstate, threxe, jobqueue, current, semVars, sleepqueue, timeVars>>

-----------------------------------------------------------------------------
(* Sleeping: dv_sys_sleep(), dv_sys_sleep_until(), and the system timer    *)

\* Mutation: the compare register may be set to a time that has just passed.
AlarmUnchecked(n, t) == IF 4 * (t - n) > 3 * Wrap THEN n + Wrap \div 2 ELSE t

\* dv_set_system_timer_alarm(t), called at time n: the time it sets
Alarm(n, t) == IF t <= n + MinSleep THEN n + MinSleep
               ELSE IF 4 * (t - n) > 3 * Wrap THEN n + Wrap \div 2
               ELSE t

\* The timer matches while the time goes from now to n.
Matches(n) == \E u \in now + 1 .. n : u % Wrap = compare

\* The alarm is computed and set some time after the caller has read the time.
SetAlarm(t) ==
  \E read, written \in 0 .. Drift :
    LET n == now + read + written IN
    /\ n <= MaxTime
    /\ now'     = n
    /\ compare' = Alarm(now + read, t) % Wrap
    /\ irq'     = (irq \/ Matches(n))

\* dv_dllinserttime()
InsertTime(e, t) ==
  LET later == {i \in DOMAIN sleepqueue : sleepqueue[i].key > t}
  IN  InsertAt(sleepqueue, Min(later \union {Len(sleepqueue) + 1}), [exe |-> e, key |-> t])

\* The common part of both calls: the alarm is set for the first in the queue.
BlockUntil(t) ==
  /\ Syscall
  /\ MayBlock
  /\ exestate' = [exestate EXCEPT ![Me] = "sleep"]
  /\ Vacate(current, begun)
  /\ sleepqueue' = InsertTime(Me, t)
  /\ IF Head(sleepqueue').exe = Me THEN SetAlarm(t) ELSE UNCHANGED timeVars
  /\ UNCHANGED semVars

Sleep(n)      == n >= MinSleep /\ BlockUntil(now + n)
SleepUntil(t) == t >= now + MinSleep /\ BlockUntil(t)

\* Time passes while an executable runs.
Tick == /\ pc = "app"
        /\ now < MaxTime
        /\ now' = now + 1
        /\ irq' = (irq \/ Matches(now + 1))
        /\ UNCHANGED <<exeVars, thrVars, semVars, sleepqueue, compare, pc, panic>>

\* dv_catch_thread_irq() and dv_arm_bcm2835_systimerinterrupt() up to dv_wakeup()
TimerInterrupt == /\ pc = "app"
                  /\ irq
                  /\ irq' = FALSE
                  /\ pc' = "wakeup"
                  /\ UNCHANGED <<exeVars, thrVars, semVars, sleepqueue, now, compare, panic>>

\* Mutation: every interrupt wakes up the first.
AnyDue == sleepqueue # <<>>

IsDue == sleepqueue # <<>> /\ Head(sleepqueue).key <= now + MinSleep

\* Mutation: the sleeper is spawned.
WakeUpSpawn == /\ pc = "wakeup"
               /\ IsDue
               /\ Activate(Head(sleepqueue).exe)
               /\ begun' = begun \ {Head(sleepqueue).exe}
               /\ sleepqueue' = Tail(sleepqueue)
               /\ UNCHANGED <<semVars, timeVars, pc, panic>>

\* One round of the loop in dv_wakeup(); a full job queue goes unnoticed.
WakeUp == /\ pc = "wakeup"
          /\ IsDue
          /\ Activate(Head(sleepqueue).exe)
          /\ sleepqueue' = Tail(sleepqueue)
          /\ UNCHANGED <<begun, semVars, timeVars, pc, panic>>

\* Its end, and the alarm for the next to wake
WokenUp == /\ pc = "wakeup"
           /\ ~IsDue
           /\ SetAlarm(IF sleepqueue = <<>> THEN now + Second ELSE Head(sleepqueue).key)
           /\ pc' = "dispatch"
           /\ UNCHANGED <<exeVars, thrVars, semVars, sleepqueue, panic>>

-----------------------------------------------------------------------------
(* Semaphores with an immediate priority ceiling                           *)

\* dv_sys_create_semaphore(), which takes any free entry of the table
CreateSemaphore(s) ==
  /\ Syscall
  /\ s \notin created
  /\ created' = created \union {s}
  /\ owner'   = [owner EXCEPT ![s] = None]
  /\ link'    = [link EXCEPT ![s] = None]
  /\ oldprio' = [oldprio EXCEPT ![s] = MinPriority]
  /\ ceiling' = [ceiling EXCEPT ![s] = MinPriority]
  /\ count'   = [count EXCEPT ![s] = 1]
  /\ UNCHANGED <<exeVars, thrVars, semtaken, sleepqueue, timeVars>>

\* dv_sys_destroy_semaphore()
DestroySemaphore(s) ==
  /\ Syscall
  /\ s \in created
  /\ owner[s] = None
  /\ created' = created \ {s}
  /\ link'    = [link EXCEPT ![s] = None]
  /\ oldprio' = [oldprio EXCEPT ![s] = MinPriority]
  /\ ceiling' = [ceiling EXCEPT ![s] = MinPriority]
  /\ count'   = [count EXCEPT ![s] = 0]
  /\ UNCHANGED <<exeVars, thrVars, owner, semtaken, sleepqueue, timeVars>>

\* dv_sys_uses_semaphore()
UsesSemaphore(s, e) ==
  /\ Syscall
  /\ s \in created
  /\ RaisesInUse \in Liberties \/ owner[s] = None
  /\ ceiling' = [ceiling EXCEPT ![s] = Max({@, BasePrio[e]})]
  /\ UNCHANGED <<exeVars, thrVars, created, owner, link, oldprio, count, semtaken,
                 sleepqueue, timeVars>>

\* Mutation: the priority is not raised.
AcquireOnly(s) ==
  /\ owner'    = [owner EXCEPT ![s] = Me]
  /\ link'     = [link EXCEPT ![s] = semtaken[Me]]
  /\ semtaken' = [semtaken EXCEPT ![Me] = s]
  /\ oldprio'  = [oldprio EXCEPT ![s] = thrprio[current]]
  /\ UNCHANGED thrprio

\* dv_acquire_mutex(), and the ceiling: the caller stays at the head of the list.
Acquire(s) ==
  /\ owner'    = [owner EXCEPT ![s] = Me]
  /\ link'     = [link EXCEPT ![s] = semtaken[Me]]
  /\ semtaken' = [semtaken EXCEPT ![Me] = s]
  /\ oldprio'  = [oldprio EXCEPT ![s] = thrprio[current]]
  /\ thrprio'  = [thrprio EXCEPT ![current] = Max({@, ceiling[s]})]

\* dv_wait_semimmceil().  Of a semaphore that is occupied the assertion stops the owner
\* and lets others go on as if they had taken it.
Wait(s) ==
  /\ Calls /\ CanEnter
  /\ s \in created
  /\ BasePrio[Me] <= ceiling[s]
  /\ WaitsAgain \in Liberties \/ owner[s] # Me
  /\ IF count[s] < 1 /\ owner[s] = Me THEN Panic("SemaphoreOccupied")
     ELSE /\ count' = [count EXCEPT ![s] = @ - 1]
          /\ IF count[s] < 1 THEN UNCHANGED <<owner, link, semtaken, oldprio, thrprio>>
                             ELSE Acquire(s)
          /\ pc' = "dispatch"
          /\ UNCHANGED <<exeVars, thrstate, threxe, jobqueue, threadqueue, current,
                         created, ceiling, sleepqueue, timeVars, panic>>

\* Mutation: the semaphore stays in the owner's list.
RelinquishLinked(s) ==
  /\ owner'       = [owner EXCEPT ![s] = None]
  /\ thrprio'     = [thrprio EXCEPT ![current] = oldprio[s]]
  /\ threadqueue' = InsertBeforeSame(Tail(threadqueue), current, oldprio[s], thrprio)
  /\ UNCHANGED <<semtaken, link>>

\* dv_relinquish_mutex(), with dv_dlldemote()
Relinquish(s) ==
  /\ owner'       = [owner EXCEPT ![s] = None]
  /\ semtaken'    = [semtaken EXCEPT ![Me] = link[s]]
  /\ link'        = [link EXCEPT ![s] = None]
  /\ thrprio'     = [thrprio EXCEPT ![current] = oldprio[s]]
  /\ threadqueue' = InsertBeforeSame(Tail(threadqueue), current, oldprio[s], thrprio)

\* dv_signal_semimmceil(): only the owner may signal.
Signal(s) ==
  /\ Calls /\ CanEnter
  /\ s \in created
  /\ owner[s] = Me
  /\ OutOfOrder \in Liberties \/ semtaken[Me] = s
  /\ IF count[s] > 0 THEN Panic("SemaphoreCounter")
     ELSE /\ count' = [count EXCEPT ![s] = @ + 1]
          /\ IF count[s] = 0 THEN Relinquish(s)
             ELSE UNCHANGED <<owner, link, semtaken, thrprio, threadqueue>>
          /\ pc' = "dispatch"
          /\ UNCHANGED <<exeVars, thrstate, threxe, jobqueue, current, created, oldprio,
                         ceiling, sleepqueue, timeVars, panic>>

-----------------------------------------------------------------------------
(* dv_dispatch(), dv_start()                                               *)

Dispatch ==
  LET incoming == Head(threadqueue) IN
  /\ pc = "dispatch"
  /\ thrstate' = IF current = incoming THEN thrstate
                 ELSE [u \in Thread |-> IF u = incoming THEN "running"
                                        ELSE IF u = current THEN "ready"
                                        ELSE thrstate[u]]
  /\ current' = incoming
  /\ thrprio' = [thrprio EXCEPT ![incoming] = Max({@, BasePrio[threxe[incoming]]})]
  /\ begun'   = begun \union {threxe[incoming]}
  /\ pc'      = "app"
  /\ UNCHANGED <<exestate, threxe, jobqueue, threadqueue, semVars, sleepqueue, timeVars,
                 panic>>

\* dv_start() before dv_dispatch(), and dv_init_system_timer()
Init ==
  LET first == {Idle, InitExe}
      used  == {BasePrio[e] : e \in first}
  IN
  /\ exestate    = [e \in Exe |-> IF e \in first THEN "active" ELSE "idle"]
  /\ begun       = {}
  /\ semtaken    = [e \in Exe |-> None]
  /\ thrstate    = [t \in Thread |-> IF t \in used THEN "ready" ELSE "idle"]
  /\ thrprio     = [t \in Thread |-> t]
  /\ threxe      = [t \in Thread |-> IF t = BasePrio[Idle] THEN Idle
                                     ELSE IF t = BasePrio[InitExe] THEN InitExe
                                     ELSE None]
  /\ jobqueue    = [t \in Thread |-> <<>>]
  /\ threadqueue = <<BasePrio[InitExe], BasePrio[Idle]>>
  /\ current     = None
  /\ created     = {}
  /\ owner       = [s \in Sem |-> None]
  /\ link        = [s \in Sem |-> None]
  /\ oldprio     = [s \in Sem |-> MinPriority]
  /\ ceiling     = [s \in Sem |-> MinPriority]
  /\ count       = [s \in Sem |-> 0]
  /\ sleepqueue  = <<>>
  /\ now         = 0
  /\ compare     = Second % Wrap
  /\ irq         = FALSE
  /\ pc          = "dispatch"
  /\ panic       = "none"

Call == \/ \E e \in Exe : Spawn(e) \/ Resume(e)
        \/ \E n \in 1 .. MaxSleep : Sleep(n) \/ SleepUntil(now + n)
        \/ \E s \in Sem : \/ CreateSemaphore(s) \/ DestroySemaphore(s)
                          \/ Wait(s) \/ Signal(s)
                          \/ \E e \in Exe : UsesSemaphore(s, e)
        \/ Null \/ Exit \/ Suspend \/ Yield

Next == /\ panic = "none"
        /\ Call \/ Tick \/ TimerInterrupt \/ WakeUp \/ WokenUp \/ Dispatch

Spec == Init /\ [][Next]_vars

-----------------------------------------------------------------------------
(* Properties                                                              *)

\* Every variable has its type; priorities never leave the range of the configured
\* ones, and a semaphore that is not taken counts 1.
TypeOK ==
  /\ exestate \in [Exe -> {"idle", "active", "suspended", "sleep"}]
  /\ begun \subseteq Exe
  /\ semtaken \in [Exe -> Sem \union {None}]
  /\ thrstate \in [Thread -> {"idle", "running", "ready"}]
  /\ thrprio \in [Thread -> 0 .. Max(Thread)]
  /\ threxe \in [Thread -> Exe \union {None}]
  /\ jobqueue \in [Thread -> Seq(Exe)]
  /\ threadqueue \in Seq(Thread)
  /\ current \in Thread \union {None}
  /\ created \subseteq Sem
  /\ owner \in [Sem -> Exe \union {None}]
  /\ link \in [Sem -> Sem \union {None}]
  /\ oldprio \in [Sem -> Prio]
  /\ ceiling \in [Sem -> Prio]
  /\ count \in [Sem -> 0 .. 1]
  /\ sleepqueue \in Seq([exe : Exe, key : Nat])
  /\ now \in 0 .. MaxTime
  /\ compare \in 0 .. Wrap - 1
  /\ irq \in BOOLEAN
  /\ pc \in {"app", "dispatch", "wakeup"}
  /\ panic \in {"none", "ThreadQueue", "Unimplemented", "SemaphoreOccupied",
                "SemaphoreCounter"}

\* The executable in place i of thread t: 0 is the thread itself, i > 0 its i-th job.
Place(t, i) == IF i = 0 THEN threxe[t]
               ELSE IF i <= Len(jobqueue[t]) THEN jobqueue[t][i] ELSE None

Places(e) == {p \in Thread \X (0 .. Cardinality(Exe)) : Place(p[1], p[2]) = e}

\* No executable is lost or runs twice: an active one has one place, on its own thread
\* or in that thread's job queue, one that sleeps is once in the sleep queue; the list
\* holds the threads that are occupied, and only those have jobs.
NothingLost ==
  /\ \A e \in Exe :
       /\ exestate[e] = "active" => \E i \in 0 .. Cardinality(Exe) :
                                       Places(e) = {<<BasePrio[e], i>>}
       /\ exestate[e] # "active" => Places(e) = {}
       /\ Cardinality({i \in DOMAIN sleepqueue : sleepqueue[i].exe = e})
            = (IF exestate[e] = "sleep" THEN 1 ELSE 0)
  /\ \A t \in Thread :
       /\ (thrstate[t] = "idle") <=> (threxe[t] = None)
       /\ jobqueue[t] # <<>> => threxe[t] # None
       /\ Cardinality({i \in DOMAIN threadqueue : threadqueue[i] = t})
            = (IF threxe[t] = None THEN 0 ELSE 1)

\* "Fixed-priority pre-emptive scheduling": no active executable has a base priority
\* above that of the running one, which is its base priority or the highest ceiling of
\* the semaphores it has taken.
HighestRuns ==
  pc = "app" =>
    /\ \A e \in Exe : exestate[e] = "active" => BasePrio[e] <= thrprio[current]
    /\ thrprio[current] = Max({BasePrio[Me]} \union {ceiling[s] : s \in
                                 {u \in Sem : owner[u] = Me}})

\* "Tasks of equal priority run until they terminate or call a blocking API": a thread
\* that is pushed aside is pushed aside by one of a higher priority, also when its own
\* has just been lowered.
OnlyHigherPreempts ==
  [][pc = "dispatch" /\ pc' = "app" /\ current # None /\ current' # current
       => thrprio[current'] > thrprio[current]]_vars

\* The ceiling keeps others out: while an executable owns a semaphore, only executables
\* above the ceiling run, and dv_wait() refuses them.
MutualExclusion ==
  pc = "app" => \A s \in Sem : owner[s] \notin {None, Me} => BasePrio[Me] > ceiling[s]

\* No consistency check of the kernel fails.
NoPanic == panic = "none"

\* "Another executable can call dv_resume() to allow execution to continue": an
\* executable that has begun keeps its place in its main function until it ends.
ContextKept ==
  [][\A e \in Exe : e \in begun /\ e \notin begun' => exestate'[e] = "idle"]_vars

\* Nobody oversleeps: when the time of a sleeping executable has come, and the few
\* ticks that setting the timer may take have passed, the timer has matched; the compare
\* register never names a time that has gone or one that is too late.
NotOversleeping ==
  \A i \in DOMAIN sleepqueue :
    now >= sleepqueue[i].key + MinSleep => irq \/ pc = "wakeup"

\* The kernel's lists and its choice of the executable are sound (dv_dispatch(), the
\* insertions, removals and demotions that dv_syscall() makes before it).
KernelSound == HighestRuns /\ NothingLost /\ NoPanic
=============================================================================
