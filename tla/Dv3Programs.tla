------------------------------ MODULE Dv3Programs ------------------------------
(***************************************************************************)
(* Programs that run on davros-3: the test suite (src/testsuite/dv3) and   *)
(* the demonstration (src/demos/dv3-demo), composed with the kernel of     *)
(* module Dv3Kernel.  Dv3Kernel lets an executable make any call at any    *)
(* time; here each executable has its main function, so what a call        *)
(* returns decides what is called next.                                    *)
(*                                                                         *)
(* A main function is a sequence of instructions: calls of the kernel, the *)
(* branches on what they returned, and the records of the test suite.  A   *)
(* test compares the test points that were reached, by whichever           *)
(* executable, with the sequence that it expects.                          *)
(*                                                                         *)
(* One program runs in a behaviour.  Refused calls return their error.     *)
(***************************************************************************)
EXTENDS Dv3Kernel

CONSTANTS
  Programs,  \* the programs that are run
  Delay,     \* the time that Foo2 sleeps, in blocking-2
  Slack,     \* how late Foo2 may wake up
  Rounds     \* bound on the number of times that a task of the demonstration sleeps

VARIABLES
  program,   \* which program has been built
  made,      \* the executables that exist: dv_executable_t.state # dv_exe_free
  todo,      \* what each executable has still to do in its main function
  rv,        \* what its last call of the kernel has returned
  times,     \* the last two times that it has read
  points,    \* d3t_testsequence
  expected,  \* d3t_expected
  failed,    \* d3t_nfail, as the set of the tests that failed
  foo2state, \* foo2_state
  over       \* d3t_alldone() has been reached

progVars == <<program, made, todo, rv, times, points, expected, failed, foo2state, over>>
allVars  == <<vars, progVars>>

-----------------------------------------------------------------------------
(* Instructions                                                            *)

\* A call of the kernel; a time to sleep until is relative to the last time read.
Do(call, x) == <<[do |-> call, arg |-> x]>>

\* d3t_testpoint()
Point(p) == <<[do |-> "point", arg |-> p]>>

\* if ( rv == want ) good else bad
If(want, good, bad) == <<[do |-> "if", arg |-> want, good |-> good, bad |-> bad]>>

\* if ( call == want ) d3t_testpoint(p) else d3t_testpoint('?')
Check(call, x, want, p) == Do(call, x) \o If(want, Point(p), Point("?"))

\* The same with more to do when it succeeds
Then(call, x, good) == Do(call, x) \o If("None", good, Point("?"))

\* d3t_starttest() and d3t_expect(), d3t_finishtest(), d3t_alldone()
Start(seq)   == <<[do |-> "start", arg |-> seq]>>
Finish(name) == <<[do |-> "finish", arg |-> name]>>
AllDone      == <<[do |-> "alldone"]>>

\* d3t_abort() does not return.
Abort        == <<[do |-> "abort"]>>

\* foo2_state = n, and while ( foo2_state != n ) {}
Put(n)       == <<[do |-> "put", arg |-> n]>>
Await(n)     == <<[do |-> "await", arg |-> n]>>

\* dv_readtime(), and the test points for the time between the last two readings
ReadTime           == <<[do |-> "time"]>>
Slept(n, slack, p) == <<[do |-> "slept", arg |-> n, slack |-> slack, good |-> p]>>

Repeat(n, body) == [i \in 1 .. n * Len(body) |-> body[1 + ((i - 1) % Len(body))]]

-----------------------------------------------------------------------------
(* testsuite/dv3/basics.  Executables are named by the variable that has   *)
(* their id; "-1" and "N" are outside of the table, "next" is myId+1, and  *)
(* "last" the last entry; all these are free.                              *)

Basics1 == Start(<<"a", "b", "c", "d", "e", "f", "g", "h", "i">>)
           \o Check("spawn", "-1", "IndexOutOfRange", "a")
           \o Check("spawn", "N", "IndexOutOfRange", "b")
           \o Check("spawn", "init", "UnconfiguredExecutable", "c")
           \o Check("spawn", "init", "UnconfiguredExecutable", "d")
           \o Check("spawn", "next", "UnconfiguredExecutable", "e")
           \o Check("spawn", "last", "UnconfiguredExecutable", "f")
           \o Check("spawn", "idle", "ExecutableNotIdle", "g")
           \o Check("spawn", "control", "ExecutableNotIdle", "h")
           \o Point("i")
           \o Finish("basics-1")

SpawnFirst(foo, bar) ==
  Point("a") \o Then("create", foo, Point("b")
                \o Then("create", bar, Point("c")
                   \o Then("spawn", foo, Point("d"))))

\* Bar has a higher priority than Foo.
Basics2 == Start(<<"a", "b", "c", "F", "G", "B", "H", "d">>)
           \o SpawnFirst("foo_2", "bar_2") \o Finish("basics-2")

\* Bar has the priority of Foo.
Basics3 == Start(<<"a", "b", "c", "F", "G", "H", "B", "d">>)
           \o SpawnFirst("foo_3", "bar_3") \o Finish("basics-3")

\* Bar is the executable with the id after Foo's.
BasicsFoo(bar) == Point("F") \o Point("G")
                  \o Do("spawn", bar) \o If("None", Point("H"), Point("@"))

BasicsBar == Point("B")

BasicsControl == Basics1 \o Basics2 \o Basics3 \o AllDone

-----------------------------------------------------------------------------
(* testsuite/dv3/blocking                                                  *)

Blocking1 == Start(<<"a", "b", "c", "d", "e", "f", "g", "h", "F", "G", "H", "i">>)
             \o Check("sleep", Delay, "ExecutableIsNonBlocking", "a")
             \o Check("sleep_until", Delay, "ExecutableIsNonBlocking", "b")
             \o Check("suspend", "", "ExecutableIsNonBlocking", "c")
             \o Check("resume", "-1", "IndexOutOfRange", "d")
             \o Check("resume", "N", "IndexOutOfRange", "e")
             \o Check("resume", "last", "UnconfiguredExecutable", "f")
             \o Then("create", "foo1",
                     Point("g") \o Check("resume", "foo1", "ExecutableNotSuspended", "h")
                                \o Check("spawn", "foo1", "None", "i"))
             \o Finish("blocking-1")

Foo1 == Point("F") \o Check("sleep", MinSleep - 1, "TimeInThePast", "G")
        \o ReadTime \o Check("sleep_until", -1, "TimeInThePast", "H")

Blocking2 == Start(<<"a", "F", "b", "c", "G", "H", "d", "I", "J", "e">>)
             \o Then("create", "foo2",
                     Point("a") \o Put(0)
                     \o Then("spawn", "foo2", Point("b") \o Await(1) \o Point("c")
                                              \o Await(2) \o Point("d")
                                              \o Await(3) \o Point("e")))
             \o Finish("blocking-2")

Foo2 == ReadTime \o Point("F") \o Put(1)
        \o Do("sleep", Delay) \o ReadTime
        \o If("None", Point("G"), Point("?")) \o Slept(Delay, 5 * Slack, "H") \o Put(2)
        \o Do("sleep_until", Delay) \o ReadTime
        \o If("None", Point("I"), Point("?")) \o Slept(Delay, Slack, "J") \o Put(3)

Blocking3 == Start(<<"a", "F", "b", "G", "c">>)
             \o Then("create", "foo3",
                     Point("a") \o Then("spawn", "foo3",
                                        Point("b") \o Check("resume", "foo3", "None", "c")))
             \o Finish("blocking-3")

Foo3 == Point("F") \o Check("suspend", "", "None", "G")

BlockingControl == Blocking1 \o Blocking2 \o Blocking3 \o AllDone

-----------------------------------------------------------------------------
(* testsuite/dv3/mutex                                                     *)

Mutex1 == Start(<<"a">>) \o Point("a") \o Finish("mutex-1")

Mutex2 == Start(<<"a", "b", "c", "d", "F", "G", "H", "B", "C", "Q", "T", "D", "E", "J",
                  "e", "f">>)
          \o Point("a")
          \o Then("create_semaphore", "Mutex",
                  Point("b") \o Check("uses_semaphore", "Foo", "None", "c")
                             \o Check("uses_semaphore", "Bar", "None", "d")
                             \o Check("spawn", "Foo", "None", "e")
                             \o Check("destroy_semaphore", "Mutex", "None", "f"))
          \o Finish("mutex-2")

Mutex3 == Start(<<"a">>) \o Point("a") \o Finish("mutex-3")

\* main_Foo() and main_Bar(): spawn another while the mutex is occupied
Nested(begin, taken, other, spawned, released, bad) ==
  Point(begin)
  \o Do("wait", "Mutex")   \o If("None", Point(taken), Point(bad))
  \o Do("spawn", other)    \o If("None", Point(spawned), Point(bad))
  \o Do("signal", "Mutex") \o If("None", Point(released), Point(bad))

MutexFoo == Nested("F", "G", "Bar", "H", "J", "@")
MutexBar == Nested("B", "C", "Quxx", "D", "E", "#")

MutexQuxx ==
  Point("Q") \o Do("wait", "Mutex")
  \o If("None",
        Point("R") \o Do("signal", "Mutex") \o If("None", Point("S"), Point("$")),
        If("SemaphoreCeilingTooLow", Point("T"), Point("$")))

MutexInit == Do("create", "Foo") \o Do("create", "Bar") \o Do("create", "Quxx")

MutexControl == Mutex1 \o Mutex2 \o Mutex3 \o AllDone

-----------------------------------------------------------------------------
(* demos/dv3-demo                                                          *)

DemoInit == Do("null", "") \o Do("spawn", "N") \o Do("spawn", "init") \o Do("spawn", "idle")
            \o Do("create", "task_foo") \o If("None", Do("spawn", "task_foo"), <<>>)
            \o Do("create", "task_fot") \o If("None", Do("spawn", "task_fot"), <<>>)

\* "should fail"
TaskFoo == Do("spawn", "task_fot") \o If("ExecutableNotIdle", <<>>, Point("?"))
           \o Do("create", "task_bar") \o If("None", Do("spawn", "task_bar"), <<>>)
           \o Do("create", "task_qxx") \o If("None", Do("spawn", "task_qxx"), <<>>)

TaskFot == Point("t")

TaskBar == Repeat(Rounds, Do("sleep", Second) \o Do("spawn", "task_fot"))

\* next is the time that was read at first, plus a second for each round.
TaskQxx == ReadTime \o Repeat(Rounds, <<[do |-> "next"]>> \o Do("sleep_until", 0)
                                       \o Point("q") \o Do("spawn", "task_fot"))

-----------------------------------------------------------------------------
(* What is built into each program, and d3t_init()                         *)

D3tInit == Do("create", "control")
           \o If("None", Do("spawn", "control") \o If("None", <<>>, Abort), Abort)

Main(p, e) ==
  CASE e = "idle"     -> <<[do |-> "idle"]>>
    [] e = "init"     -> IF p = "demo" THEN DemoInit
                         ELSE D3tInit \o (IF p = "mutex" THEN MutexInit ELSE <<>>)
    [] e = "control"  -> CASE p = "basics"   -> BasicsControl
                           [] p = "blocking" -> BlockingControl
                           [] p = "mutex"    -> MutexControl
                           [] OTHER          -> <<>>
    [] e = "foo_2"    -> BasicsFoo("bar_2")
    [] e = "foo_3"    -> BasicsFoo("bar_3")
    [] e \in {"bar_2", "bar_3"} -> BasicsBar
    [] e = "foo1"     -> Foo1
    [] e = "foo2"     -> Foo2
    [] e = "foo3"     -> Foo3
    [] e = "Foo"      -> MutexFoo
    [] e = "Bar"      -> MutexBar
    [] e = "Quxx"     -> MutexQuxx
    [] e = "task_foo" -> TaskFoo
    [] e = "task_fot" -> TaskFot
    [] e = "task_bar" -> TaskBar
    [] OTHER          -> TaskQxx

AutoDestroy == {"init", "foo_2", "bar_2", "foo_3", "bar_3", "foo1"}

-----------------------------------------------------------------------------
(* What a call returns                                                     *)

SpawnError(x) ==
  CASE x \in {"-1", "N"}         -> "IndexOutOfRange"
    [] x \notin made            -> "UnconfiguredExecutable"
    [] exestate[x] = "idle"     -> "None"
    [] OTHER                    -> "ExecutableNotIdle"

ResumeError(x) ==
  CASE x \in {"-1", "N"}         -> "IndexOutOfRange"
    [] x \notin made            -> "UnconfiguredExecutable"
    [] exestate[x] = "suspended" -> "None"
    [] OTHER                    -> "ExecutableNotSuspended"

\* Blocking, for the caller
BlockError == CASE Me \notin Blocking   -> "ExecutableIsNonBlocking"
                [] semtaken[Me] # None  -> "ExecutableOccupiesSemaphore"
                [] OTHER                -> "None"

Until(n) == times[Me][2] + n

TimeError(inTime) == IF BlockError # "None" THEN BlockError
                     ELSE IF inTime THEN "None" ELSE "TimeInThePast"

WaitError(s) == CASE s \notin created           -> "UnconfiguredSemaphore"
                  [] BasePrio[Me] > ceiling[s]  -> "SemaphoreCeilingTooLow"
                  [] OTHER                      -> "None"

SignalError(s) == CASE s \notin created   -> "UnconfiguredSemaphore"
                    [] owner[s] # Me     -> "SemaphoreNotOccupied"
                    [] OTHER             -> "None"

UsesError(s, e) == CASE s \notin created -> "UnconfiguredSemaphore"
                     [] e \notin made    -> "UnconfiguredExecutable"
                     [] OTHER            -> "None"

DestroyError(s) == CASE s \notin created   -> "UnconfiguredSemaphore"
                     [] owner[s] # None   -> "SemaphoreOccupied"
                     [] OTHER             -> "None"

\* The error that call i returns, and the step of the kernel that serves it.
Error(i) ==
  CASE i.do = "spawn"             -> SpawnError(i.arg)
    [] i.do = "resume"            -> ResumeError(i.arg)
    [] i.do = "suspend"           -> BlockError
    [] i.do = "sleep"             -> TimeError(i.arg >= MinSleep)
    [] i.do = "sleep_until"       -> TimeError(Until(i.arg) >= now + MinSleep)
    [] i.do = "wait"              -> WaitError(i.arg)
    [] i.do = "signal"            -> SignalError(i.arg)
    [] i.do = "uses_semaphore"    -> UsesError("Mutex", i.arg)
    [] i.do = "destroy_semaphore" -> DestroyError(i.arg)
    [] OTHER                      -> "None"

Served(i) ==
  CASE i.do = "spawn"             -> Spawn(i.arg)
    [] i.do = "resume"            -> Resume(i.arg)
    [] i.do = "suspend"           -> Suspend
    [] i.do = "sleep"             -> Sleep(i.arg)
    [] i.do = "sleep_until"       -> SleepUntil(Until(i.arg))
    [] i.do = "wait"              -> Wait(i.arg)
    [] i.do = "signal"            -> Signal(i.arg)
    [] i.do = "create_semaphore"  -> CreateSemaphore(i.arg)
    [] i.do = "uses_semaphore"    -> UsesSemaphore("Mutex", i.arg)
    [] i.do = "destroy_semaphore" -> DestroySemaphore(i.arg)
    [] OTHER                      -> Null

KernelCalls == {"spawn", "resume", "suspend", "sleep", "sleep_until", "wait", "signal",
                "create", "create_semaphore", "uses_semaphore", "destroy_semaphore", "null"}

-----------------------------------------------------------------------------
(* Executing                                                               *)

Executing == pc = "app" /\ todo[Me] # <<>>
This      == Head(todo[Me])

\* This instruction is done, and those of `more' come before the rest.
Goes(more) == todo' = [todo EXCEPT ![Me] = more \o Tail(@)]

CallKernel ==
  /\ Executing
  /\ This.do \in KernelCalls
  /\ IF Error(This) = "None" THEN Served(This) ELSE Null
  /\ rv'   = [rv EXCEPT ![Me] = Error(This)]
  /\ made' = IF This.do = "create" THEN made \union {This.arg} ELSE made
  /\ Goes(<<>>)
  /\ UNCHANGED <<program, times, points, expected, failed, foo2state, over>>

\* A main function that returns calls dv_exit().
ExitMain ==
  /\ pc = "app" /\ todo[Me] = <<>>
  /\ Exit
  /\ made' = IF Me \in AutoDestroy THEN made \ {Me} ELSE made
  /\ UNCHANGED <<program, todo, rv, times, points, expected, failed, foo2state, over>>

Branch ==
  /\ Executing
  /\ This.do = "if"
  /\ Goes(IF rv[Me] = This.arg THEN This.good ELSE This.bad)
  /\ UNCHANGED <<vars, program, made, rv, times, points, expected, failed, foo2state, over>>

\* Of the demonstration, only what "should fail" and does not is recorded.
Record(p) == /\ points' = IF program = "demo" THEN points ELSE Append(points, p)
             /\ failed' = IF program = "demo" /\ p = "?" THEN {program} ELSE failed
             /\ UNCHANGED <<expected, over>>

\* The records of the test suite: d3t_testpoint(), d3t_starttest(), d3t_expect(),
\* d3t_finishtest(), d3t_alldone()
TestStep ==
  /\ Executing
  /\ \/ /\ This.do = "point"
        /\ Record(This.arg)
     \/ /\ This.do = "start"
        /\ points' = <<>>
        /\ expected' = This.arg
        /\ UNCHANGED <<failed, over>>
     \/ /\ This.do = "finish"
        /\ failed' = IF points = expected THEN failed ELSE failed \union {This.arg}
        /\ UNCHANGED <<points, expected, over>>
     \/ /\ This.do = "alldone"
        /\ over' = TRUE
        /\ UNCHANGED <<points, expected, failed>>
     \/ /\ This.do = "slept"
        /\ LET d == times[Me][2] - times[Me][1] IN
             Record(IF d < This.arg THEN "<"
                    ELSE IF d > This.arg + This.slack THEN ">" ELSE This.good)
  /\ Goes(<<>>)
  /\ UNCHANGED <<vars, program, made, rv, times, foo2state>>

\* Reading the time, and `next' of the demonstration
TimeStep ==
  /\ Executing
  /\ This.do \in {"time", "next"}
  /\ times' = [times EXCEPT ![Me] = <<@[2], IF This.do = "time" THEN now ELSE @[2] + Second>>]
  /\ Goes(<<>>)
  /\ UNCHANGED <<vars, program, made, rv, points, expected, failed, foo2state, over>>

\* foo2_state; the loop that waits for it ends.
SharedStep ==
  /\ Executing
  /\ \/ This.do = "put" /\ foo2state' = This.arg
     \/ This.do = "await" /\ foo2state = This.arg /\ UNCHANGED foo2state
  /\ Goes(<<>>)
  /\ UNCHANGED <<vars, program, made, rv, times, points, expected, failed, over>>

\* An executable whose registers are set up anew starts its main function.
DispatchMain ==
  /\ Dispatch
  /\ LET e == threxe[Head(threadqueue)] IN
       todo' = IF e \in begun THEN todo ELSE [todo EXCEPT ![e] = Main(program, e)]
  /\ UNCHANGED <<program, made, rv, times, points, expected, failed, foo2state, over>>

\* In the programs that measure the time, it passes while the processor waits, in the idle
\* loop or for foo2_state, and in the calls that set the timer; the other instructions
\* take none.  An interrupt comes before the next tick.
Waiting == \/ Me = Idle
           \/ Executing /\ This.do = "await" /\ foo2state # This.arg
           \/ program \in {"basics", "mutex"}

Passes == Tick /\ ~irq /\ Waiting /\ UNCHANGED progVars

Interrupt == (TimerInterrupt \/ WakeUp \/ WokenUp) /\ UNCHANGED progVars

-----------------------------------------------------------------------------
ProgInit == /\ Init
            /\ program   \in Programs
            /\ made      = {"idle", "init"}
            /\ todo      = [e \in Exe |-> <<>>]
            /\ rv        = [e \in Exe |-> "None"]
            /\ times     = [e \in Exe |-> <<0, 0>>]
            /\ points    = <<>>
            /\ expected  = <<>>
            /\ failed    = {}
            /\ foo2state = 0
            /\ over      = FALSE

ProgNext == /\ panic = "none"
            /\ \/ CallKernel \/ ExitMain \/ Branch \/ TestStep \/ TimeStep \/ SharedStep
               \/ DispatchMain \/ Passes \/ Interrupt

ProgSpec == ProgInit /\ [][ProgNext]_allVars

\* The processor does not stop.
FairSpec == ProgSpec /\ WF_allVars(ProgNext)

-----------------------------------------------------------------------------
(* Properties                                                              *)

\* Every test that comes to its end has met the expected sequence, whenever the timer
\* interrupts; and the spawn that "should fail" in the demonstration does.
TestsPass == failed = {}

\* The test suite comes to its end, through every call that blocks.
Finishes == program # "demo" => <>over

\* Task_Qxx wakes up on the grid of seconds from its start, at most MinSleep too early
\* and at most Slack too late, however long it and the others take to set the timer.
OnGrid == \A e \in {"task_qxx"} :
            pc = "app" /\ Me = e /\ Executing /\ This.do = "point" =>
              now >= times[e][2] - MinSleep /\ now <= times[e][2] + Slack

\* "should run when qxx finishes": Task_Fot, which two others spawn, and which they find
\* active when both have woken up at once, runs to its end each time.
FotRuns == exestate["task_fot"] = "active" ~> exestate["task_fot"] = "idle"

\* What the applications expect of the kernel's order and of its clock.
ProgramsSound == TestsPass /\ OnGrid
=============================================================================
