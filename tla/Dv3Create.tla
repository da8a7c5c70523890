------------------------------- MODULE Dv3Create -------------------------------
(***************************************************************************)
(* Creating, spawning and destroying executables in davros-3, and the      *)
(* tables that the kernel takes their parts from (src/davros-3/kernel/c):  *)
(* threads, register stores, event states, list elements, pages of stack,  *)
(* ring buffers for the job queues and the words of those.  There is no    *)
(* heap: each table has an allocator that counts the free entries, an      *)
(* entry says itself whether it is free, and threads, registers and pages  *)
(* that executables share count their users.                               *)
(*                                                                         *)
(* The functions of the kernel get the kernel's variables as an argument   *)
(* and change them; here they are operators from a state of the kernel to  *)
(* the state in which the function returns or has called dv_panic().       *)
(* Dv3Kernel models what executables do once they are created.             *)
(*                                                                         *)
(* The operators whose comment starts with "Mutation:" are used nowhere.   *)
(***************************************************************************)
EXTENDS Integers, Sequences, FiniteSets, FiniteSetsExt, SequencesExt

CONSTANTS
  Size,        \* the sizes of the tables: a record with a field for each table
  Configs,     \* dv_execonfig_t: records [prio, flags] that the application uses
  MaxPriority, \* DV_MAX_PRIORITY
  MinRb,       \* DV_MIN_THREADRB
  RoundRb,     \* DV_ROUND_THREADRB
  MaxCreated,  \* bound on the number of executables that the application creates
  Liberties    \* the rules that the application does not keep

\* Rules that no call enforces: an executable with events has the flag for blocking
\* too, and none is created that could find the job queue of its thread full.
EventsOnly == "events without blocking"
JoinsLate  == "joins a thread with a short queue"

Tables == {"exe", "thr", "reg", "evs", "dll", "rb", "page"}
Flags  == {"blocking", "events", "autodestroy"}

ASSUME CreateAssumption ==
  /\ \A t \in Tables : Size[t] \in Nat \ {0}
  /\ Size["words"] \in Nat
  /\ MinRb \in Nat \ {0} /\ RoundRb \in Nat \ {0} /\ MaxCreated \in Nat
  /\ MaxPriority \in Nat \ {0}
  \* dv_start() creates two executables, which share nothing.
  /\ \A t \in {"exe", "thr", "reg", "page"} : Size[t] >= 2
  /\ \A c \in Configs : c.prio \in 1 .. (MaxPriority - 1) /\ c.flags \subseteq Flags
  /\ Liberties \subseteq {EventsOnly, JoinsLate}

VARIABLES
  k,          \* dv_kernel_t and the tables of dv_coreconfig_t
  created     \* the number of executables that the application has created

createVars == <<k, created>>

Nil == -1
Entries(t) == 0 .. (Size[t] - 1)

\* An executable that does not exist, as dv_destroy_executable() leaves it
FreeExe == [state |-> "free", prio |-> 0, flags |-> {}, thr |-> Nil, reg |-> Nil,
            evs |-> Nil, dll |-> Nil, page |-> Nil]

\* dv_init_kvars(): nothing is in use.  `queue` holds the threads that are not idle
\* by falling priority.
Empty ==
  [exe   |-> [e \in Entries("exe") |-> FreeExe],
   thr   |-> [t \in Entries("thr") |-> [n |-> 0, jobs |-> Nil, exe |-> Nil]],
   reg   |-> [r \in Entries("reg") |-> 0],
   page  |-> [p \in Entries("page") |-> 0],
   evs   |-> [v \in Entries("evs") |-> FALSE],
   dll   |-> [d \in Entries("dll") |-> FALSE],
   rb    |-> [b \in Entries("rb") |-> [used |-> FALSE, length |-> 0, jobs |-> <<>>]],
   alloc |-> [t \in Tables |-> [free |-> Size[t], next |-> 0]],
   freewords |-> Size["words"],
   queue |-> <<>>,
   panic |-> "none"]

Running(s) == s.thr[Head(s.queue)].exe

-----------------------------------------------------------------------------
(* The allocators                                                          *)

InUse(s, t, i) == CASE t = "exe"             -> s.exe[i].state # "free"
                    [] t = "thr"             -> s.thr[i].n # 0
                    [] t \in {"reg", "page"} -> s[t][i] # 0
                    [] t = "rb"              -> s.rb[i].used
                    [] OTHER                 -> s[t][i]

\* dv_allocate_obj(): the first free entry from where the last search ended
Found(s, t) ==
  LET free        == {i \in Entries(t) : ~InUse(s, t, i)}
      Distance(i) == (i + Size[t] - s.alloc[t].next) % Size[t]
  IN IF s.alloc[t].free <= 0 \/ free = {}
     THEN Nil
     ELSE CHOOSE i \in free : \A j \in free : Distance(i) <= Distance(j)

Counted(s, t, i) == [s EXCEPT !.alloc[t] = [free |-> @.free - 1, next |-> (i + 1) % Size[t]]]

Freed(s, t) == [s EXCEPT !.alloc[t].free = @ + 1]

Panicked(s, why) == [s EXCEPT !.panic = why]

\* f, unless the function called before it has not returned
Then(s, f(_, _), e) == IF s.panic = "none" THEN f(s, e) ELSE s

\* The executables whose part of table t executable e can share
Sharing(s, e, t) ==
  {i \in Entries("exe") : /\ s.exe[i].state # "free"
                          /\ s.exe[i].prio = s.exe[e].prio
                          /\ s.exe[i][t] # Nil}

\* dv_allocate_thread(): a new thread forgets the job queue that it had
AllocateThread(s, e) ==
  LET with == Sharing(s, e, "thr")
      t    == IF with # {} THEN s.exe[Min(with)].thr ELSE Found(s, "thr")
  IN IF t = Nil THEN Panicked(s, "no thread available")
     ELSE LET got == [s EXCEPT !.exe[e].thr = t]
          IN IF with # {} THEN [got EXCEPT !.thr[t].n = @ + 1]
             ELSE Counted([got EXCEPT !.thr[t].n = 1, !.thr[t].jobs = Nil], "thr", t)

\* Mutation: shares the part of a blocking executable.
SharingAnyFlags(s, e, t) ==
  IF "blocking" \in s.exe[e].flags THEN {} ELSE Sharing(s, e, t)

\* The test in dv_allocate_registers() and dv_allocate_stack() of another executable
\* is "flags && DV_EXEFLAG_BLOCKING": one with any flag at all is not shared with.
SharingNonBlocking(s, e, t) ==
  IF "blocking" \in s.exe[e].flags THEN {}
  ELSE {i \in Sharing(s, e, t) : s.exe[i].flags = {}}

\* One of the users joins in, or a free entry gets its first user
AllocateShared(s, e, t, i) ==
  LET with == SharingNonBlocking(s, e, t)
      got  == [s EXCEPT !.exe[e][t] = IF with # {} THEN s.exe[Min(with)][t] ELSE i]
  IN IF with # {} THEN [got EXCEPT ![t][s.exe[Min(with)][t]] = @ + 1]
     ELSE Counted([got EXCEPT ![t][i] = 1], t, i)

AllocateRegisters(s, e) ==
  LET i == Found(s, "reg")
  IN IF i = Nil /\ SharingNonBlocking(s, e, "reg") = {}
     THEN Panicked(s, "no registers available")
     ELSE AllocateShared(s, e, "reg", i)

\* dv_allocate_page()
FreePage(s) == Found(s, "page")

AllocateStack(s, e) ==
  IF FreePage(s) = Nil /\ SharingNonBlocking(s, e, "page") = {}
  THEN Panicked(s, "no stack available")
  ELSE AllocateShared(s, e, "page", FreePage(s))

\* An executable with events can block.
AllocateEvents(s, e) ==
  LET i == Found(s, "evs")
  IN IF "events" \notin s.exe[e].flags THEN s
     ELSE IF i = Nil THEN Panicked(s, "no eventstatus available")
     ELSE Counted([s EXCEPT !.exe[e].flags = @ \union {"blocking"}, !.exe[e].evs = i,
                            !.evs[i] = TRUE], "evs", i)

AllocateElement(s, e) ==
  LET i == Found(s, "dll")
  IN IF "blocking" \notin s.exe[e].flags THEN s
     ELSE IF i = Nil THEN Panicked(s, "no dll_element available")
     ELSE Counted([s EXCEPT !.exe[e].dll = i, !.dll[i] = TRUE], "dll", i)

-----------------------------------------------------------------------------
(* Executables                                                             *)

\* dv_create_executable(): the executable gets the flag for blocking between its
\* registers and its stack.
CreateExecutable(s, c) ==
  LET e  == Found(s, "exe")
      s0 == Counted([s EXCEPT !.exe[e] = [FreeExe EXCEPT !.state = "disabled", !.prio = c.prio,
                                                         !.flags = c.flags]], "exe", e)
      s1 == Then(AllocateThread(s0, e), AllocateRegisters, e)
      s2 == Then(Then(s1, AllocateEvents, e), AllocateElement, e)
      s3 == Then(s2, AllocateStack, e)
  IN IF e = Nil THEN Panicked(s, "no free executable found")
     ELSE IF s3.panic # "none" THEN s3 ELSE [s3 EXCEPT !.exe[e].state = "idle"]

\* dv_deallocate_thread(): it keeps its job queue
LeaveThread(s, t) ==
  LET left == [s EXCEPT !.thr[t].n = @ - 1]
  IN IF left.thr[t].n <= 0 THEN Freed(left, "thr") ELSE left

\* dv_deallocate_registers()
LeaveRegisters(s, r) ==
  LET left == [s EXCEPT !.reg[r] = @ - 1]
  IN IF left.reg[r] <= 0 THEN Freed(left, "reg") ELSE left

\* dv_deallocate_dllelement()
ReleaseElement(s, d) == IF d = Nil THEN s ELSE Freed([s EXCEPT !.dll[d] = FALSE], "dll")

\* dv_deallocate_eventstatus()
ReleaseEvents(s, v) == IF v = Nil THEN s ELSE Freed([s EXCEPT !.evs[v] = FALSE], "evs")

\* Mutation: the registers are free as soon as one of their users is destroyed.
DestroyAll(s, e) ==
  LET x  == s.exe[e]
      s1 == ReleaseEvents(ReleaseElement(s, x.dll), x.evs)
      s2 == LeaveThread(Freed([s1 EXCEPT !.reg[x.reg] = 0], "reg"), x.thr)
  IN Freed([s2 EXCEPT !.exe[e] = FreeExe], "exe")

\* dv_destroy_executable(): dv_deallocate_stack() does nothing, the page stays in use
DestroyExecutable(s, e) ==
  LET x  == s.exe[e]
      s1 == ReleaseEvents(ReleaseElement(s, x.dll), x.evs)
      s2 == LeaveThread(LeaveRegisters(s1, x.reg), x.thr)
  IN Freed([s2 EXCEPT !.exe[e] = FreeExe], "exe")

-----------------------------------------------------------------------------
(* Job queues                                                              *)

\* dv_thread_rb_length()
RbLength(n) == IF n < MinRb THEN MinRb ELSE n + RoundRb - (n % RoundRb)

\* dv_rb_configure(): a ring buffer is full with one entry empty
Configure(l) == [used |-> TRUE, length |-> l + 1, jobs |-> <<>>]

\* dv_rb_allocate() with dv_allocate_buf()
AllocateWords(s, length) ==
  IF s.freewords < length THEN Panicked(s, "insufficient buffer space")
  ELSE [s EXCEPT !.freewords = @ - length]

\* dv_allocate_ringbuffer()
FreeRing(s) == Found(s, "rb")

\* dv_get_thread_jobqueue(): the length is that for the executables of this moment.
\* Neither a ring buffer nor its words are ever given back.
NewJobQueue(s, e) ==
  LET b == FreeRing(s)
      q == Configure(RbLength(s.thr[s.exe[e].thr].n))
  IN IF b = Nil THEN Panicked(s, "no ringbuffer available")
     ELSE AllocateWords(Counted([s EXCEPT !.rb[b] = q, !.thr[s.exe[e].thr].jobs = b], "rb", b),
                        q.length)

\* dv_rb_append_simple(): full with one entry empty; a job for which there is no room
\* is not put anywhere
AppendJob(s, e) ==
  LET b == s.thr[s.exe[e].thr].jobs
  IN IF Len(s.rb[b].jobs) + 1 = s.rb[b].length THEN s
     ELSE [s EXCEPT !.rb[b].jobs = Append(@, e)]

\* dv_enqueue_job_in_jobqueue()
EnqueueJob(s, e) ==
  Then(IF s.thr[s.exe[e].thr].jobs = Nil THEN NewJobQueue(s, e) ELSE s, AppendJob, e)

\* dv_spawn_executable_in_thread(): the thread goes behind those of its priority
SpawnInThread(s, e) ==
  LET t      == s.exe[e].thr
      Key(u) == s.exe[s.thr[u].exe].prio
      stop   == {i \in DOMAIN s.queue : Key(s.queue[i]) < s.exe[e].prio}
  IN [s EXCEPT !.thr[t].exe = e,
               !.queue = InsertAt(@, Min(stop \union {Len(s.queue) + 1}), t)]

\* dv_spawn_executable(): the executable is active whether or not it got a place
SpawnExecutable(s0, e) ==
  LET s == [s0 EXCEPT !.exe[e].state = "active"]
  IN IF s.thr[s.exe[e].thr].exe = Nil THEN SpawnInThread(s, e) ELSE EnqueueJob(s, e)

\* dv_rb_remove_simple()
RemoveJob(s, b) == [s EXCEPT !.rb[b].jobs = Tail(@)]

\* The job queue in dv_remove_executable_from_thread().  The panic for a job that is
\* no executable is left out: only ids are appended.
NextJob(s, t) ==
  LET b == s.thr[t].jobs
  IN IF b = Nil THEN s
     ELSE IF s.rb[b].jobs = <<>> THEN s
     ELSE SpawnInThread(RemoveJob(s, b), Head(s.rb[b].jobs))

\* dv_dllremove() of an element that is in the list once
Unlinked(q, t) == RemoveAt(q, CHOOSE i \in DOMAIN q : q[i] = t)

\* dv_terminate_executable_in_thread()
Terminate(s, t) ==
  NextJob([s EXCEPT !.exe[s.thr[t].exe].state = "idle", !.thr[t].exe = Nil,
                    !.queue = Unlinked(@, t)], t)

-----------------------------------------------------------------------------
(* System calls and start-up                                               *)

\* dv_start(): the idle loop and the executable of main(), which destroys itself
CreateInit ==
  /\ k = LET s1 == SpawnExecutable(CreateExecutable(Empty, [prio |-> 0, flags |-> {}]), 0)
         IN SpawnExecutable(CreateExecutable(s1, [prio |-> MaxPriority,
                                                  flags |-> {"autodestroy"}]), 1)
  /\ created = 0

Calls == k.panic = "none" /\ Running(k) # 0

\* The executables of a priority, with one more
Users(p) == Cardinality({e \in Entries("exe") : k.exe[e].state # "free" /\ k.exe[e].prio = p}) + 1

\* The shortest job queue holds all the executables of priority p but the running one
Fits(p) == Users(p) <= MinRb + 1

\* dv_sys_create_exe().  The application creates no more executables at a time than
\* there are in the table.
CreateExe ==
  /\ Calls
  /\ created < MaxCreated
  /\ \E e \in Entries("exe") : k.exe[e].state = "free"
  /\ \E c \in Configs :
       /\ "events" \in c.flags => "blocking" \in c.flags \/ EventsOnly \in Liberties
       /\ Fits(c.prio) \/ JoinsLate \in Liberties
       /\ "events" \in c.flags => \E v \in Entries("evs") : ~k.evs[v]
       /\ k' = CreateExecutable(k, c)
  /\ created' = created + 1

\* dv_sys_spawn(): an executable that is not idle is refused
Spawn ==
  /\ Calls
  /\ \E e \in Entries("exe") : k.exe[e].state = "idle" /\ k' = SpawnExecutable(k, e)
  /\ UNCHANGED created

\* dv_sys_exit()
Exit ==
  /\ Calls
  /\ LET e == Running(k)
         s == Terminate(k, Head(k.queue))
     IN k' = IF "autodestroy" \in s.exe[e].flags /\ s.panic = "none"
             THEN DestroyExecutable(s, e) ELSE s
  /\ UNCHANGED created

CreateNext == CreateExe \/ Spawn \/ Exit

CreateSpec == CreateInit /\ [][CreateNext]_createVars

-----------------------------------------------------------------------------
(* Properties                                                              *)

Live == {e \in Entries("exe") : k.exe[e].state # "free"}
UsersOf(t, i) == {e \in Live : k.exe[e][t] = i}

\* Every table is accounted for: the allocators count the free entries, an entry that
\* is shared counts its users, one that is not shared has one user, and an entry that
\* is free has none.  A page keeps the users that have been destroyed.
\* (dv_allocate_obj() and the dv_allocate_...(), dv_deallocate_...() of the tables)
Accounted ==
  /\ \A t \in Tables : k.alloc[t].free = Cardinality({i \in Entries(t) : ~InUse(k, t, i)})
  /\ \A i \in Entries("thr") : k.thr[i].n = Cardinality(UsersOf("thr", i))
  /\ \A i \in Entries("reg") : k.reg[i] = Cardinality(UsersOf("reg", i))
  /\ \A i \in Entries("page") : k.page[i] >= Cardinality(UsersOf("page", i))
  /\ \A t \in {"evs", "dll"} : \A i \in Entries(t) :
       Cardinality(UsersOf(t, i)) = (IF k[t][i] THEN 1 ELSE 0)

\* "Can only share registers if the executable is non-blocking": whoever can block
\* has registers and a stack of its own, or its context would be overwritten while it
\* waits.  (dv_allocate_registers(), dv_allocate_stack(), dv_create_executable())
BlockingIsApart ==
  \A e \in Live : "blocking" \in k.exe[e].flags =>
    UsersOf("reg", k.exe[e].reg) = {e} /\ UsersOf("page", k.exe[e].page) = {e}

\* The jobs in the queue of thread t
Jobs(t) == IF k.thr[t].jobs = Nil THEN <<>> ELSE k.rb[k.thr[t].jobs].jobs

\* What is spawned runs: an executable is active exactly when it is in its thread or,
\* once, among the jobs of its thread, and a thread is idle only without jobs.  No
\* search of a table fails while it has room.
\* (dv_spawn_executable(), dv_enqueue_job_in_jobqueue(), dv_remove_executable_from_thread())
ActiveIsPlaced ==
  /\ k.panic = "none"
  /\ \A e \in Live :
       LET t     == k.exe[e].thr
           place == Cardinality({i \in DOMAIN Jobs(t) : Jobs(t)[i] = e})
                      + (IF k.thr[t].exe = e THEN 1 ELSE 0)
       IN place = (IF k.exe[e].state = "active" THEN 1 ELSE 0)
  /\ \A t \in Entries("thr") :
       /\ t \in ToSet(k.queue) <=> k.thr[t].exe # Nil
       /\ k.thr[t].exe = Nil => Jobs(t) = <<>>

\* Whatever is created, spawned and destroyed in whatever order, each executable has a
\* place of its own to run and to wait in.  (dv_create_executable(), dv_spawn_executable())
Placed == BlockingIsApart /\ ActiveIsPlaced
=============================================================================
