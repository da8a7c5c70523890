------------------------------ MODULE Dv3Start ------------------------------
(***************************************************************************)
(* How davros-3 starts on a Raspberry Pi: dv_board_start() and dv_start()  *)
(* of the Pi Zero (arm) and of the Pi 3 (arm64), down to the dispatch of   *)
(* the first executable.  On arm64 the core drops from the exception level *)
(* in which the boot loader left it to EL1.  On arm the kernel builds page *)
(* tables that map its memory and its devices where they are, switches the *)
(* MMU on, and from then on maps each page that it hands out: the tables   *)
(* of the second level live in pages of the same pool, and a page for a    *)
(* table is handed out, and mapped, in the middle of mapping another.      *)
(***************************************************************************)
EXTENDS Integers, SequencesExt, FiniteSetsExt

CONSTANTS
  SlotPages,     \* pages that one table of level 2 maps (256)
  Slots,         \* entries of the table of level 1 (4096)
  TablesPerPage, \* tables of level 2 in one page (4)
  TextPages,     \* the sizes that the program's code can have, in pages
  DataPages,     \* and its variables, which hold the kernel's tables
  PoolPages,     \* n_pages of dv_coreconfig_t
  MaxStacks,     \* bound on the stacks that the application's executables need
  Liberties      \* the rules that the platform and the application do not keep

\* The tables of level 2 are made in advance for as much of the pool as is ever used;
\* and the boot loader of the Pi 3 leaves the core in EL3.
Outgrows == "stacks beyond the tables of the start"
MaxTables == 2 \* the pages of tables of a start, with two stacks after them
Uboot    == "started by u-boot"

StartAssumption ==
  /\ SlotPages \in Nat \ {0} /\ Slots \in Nat /\ Slots > 3
  /\ TablesPerPage \in Nat \ {0} /\ PoolPages \in Nat \ {0} /\ MaxStacks \in Nat
  /\ TextPages \subseteq Nat \ {0} /\ DataPages \subseteq Nat \ {0}
  /\ Liberties \subseteq {Outgrows, Uboot}

VARIABLES
  cpu,     \* the processor: "arm" or "arm64"
  layout,  \* where the linker has put the program's regions
  todo,    \* the steps that are still to do
  el,      \* the exception level (arm64)
  mem,     \* the page tables and the pool of pages (arm)
  soft,    \* dv_softvector[]: who serves the interrupt of the system timer
  stacks,  \* the pages that executables have got
  fate     \* "alive", or how the kernel died

vars == <<cpu, layout, todo, el, mem, soft, stacks, fate>>

-----------------------------------------------------------------------------
(* The memory                                                              *)

Nil == -1
Page == 0 .. (Slots * SlotPages - 1)
Slot(p) == p \div SlotPages
Offset(p) == p % SlotPages

\* The linker script: vectors at 0, then the regions one after the other, then the
\* pool; the devices are at the end of the address space, in two slots.
Regions == <<"text", "rodata", "pagetable", "stack", "data">>
Devices == <<"aux", "gpio", "controller", "timer">>
Layout(text, data) ==
  LET size     == <<text, 1, 1, 1, data>>
      Start(i) == FoldLeft(+, 1, SubSeq(size, 1, i - 1))
      device   == (Slots - 2) * SlotPages
  IN [vectors    |-> {0},
      text       |-> Start(1) .. (Start(2) - 1),
      rodata     |-> Start(2) .. (Start(3) - 1),
      pagetable  |-> Start(3) .. (Start(4) - 1),
      stack      |-> Start(4) .. (Start(5) - 1),
      data       |-> Start(5) .. (Start(6) - 1),
      pool       |-> Start(6) .. (Start(6) + PoolPages - 1),
      timer      |-> {device},
      controller |-> {device + 1},
      gpio       |-> {device + SlotPages},
      aux        |-> {device + SlotPages + 1}]

\* DV_L2_ATTR_V, _C, _RO, _RW, _IO: what a page may be used for.  _RO is as writable
\* as _RW, and _V the same as _C.
Attr(r) == IF r \in {"vectors", "text"} THEN "code"
           ELSE IF r \in ToSet(Devices) THEN "device" ELSE "data"

\* No page table, nothing in use: after the .bss has been cleared
NoMemory == [l1 |-> [s \in 0 .. (Slots - 1) |-> Nil], \* l1page: the table of a slot
             tables |-> <<>>,    \* the tables of level 2, by their place
             uses |-> [i \in 0 .. (PoolPages - 1) |-> 0], \* n_use of dv_mempage_t
             free |-> 0, next |-> 0, \* page_allocator
             filling |-> Nil,    \* l2_table_page
             active |-> FALSE,   \* mmu_active
             got |-> Nil,        \* what the last dv_allocate_page() returned
             fate |-> "alive"]

PoolPage(i) == Min(layout.pool) + i
Place(i, n) == i * TablesPerPage + n - 1
PlacePage(t) == PoolPage(t \div TablesPerPage)
Blank == [o \in 0 .. (SlotPages - 1) |-> "none"]

Mapped(m, p) == m.l1[Slot(p)] # Nil /\ m.tables[m.l1[Slot(p)]][Offset(p)] # "none"

\* An access goes to the page, unless the MMU is on and does not know it: a data abort
Reachable(m, p) == m.active => Mapped(m, p)
Dies(m, why) == [m EXCEPT !.fate = why]

\* dv_allocate_obj(): the first free page from where the last search ended
Found(m) ==
  LET free        == {i \in DOMAIN m.uses : m.uses[i] = 0}
      Distance(i) == (i + PoolPages - m.next) % PoolPages
  IN IF m.free <= 0 \/ free = {} THEN Nil
     ELSE CHOOSE i \in free : \A j \in free : Distance(i) <= Distance(j)

\* dv_allocate_page(): marks the page, maps it when the MMU is on, and clears it
AllocateWith(m, Map(_, _, _)) ==
  LET i      == Found(m)
      taken  == [m EXCEPT !.uses[i] = 1, !.free = @ - 1, !.next = (i + 1) % PoolPages]
      mapped == IF m.active THEN Map(taken, PoolPage(i), "data") ELSE taken
      blank  == [t \in {Place(i, n) : n \in 1 .. TablesPerPage} |-> Blank]
  IN IF i = Nil THEN [m EXCEPT !.got = Nil]
     ELSE IF mapped.fate # "alive" THEN mapped
     ELSE IF ~Reachable(mapped, PoolPage(i)) THEN Dies(mapped, "data abort")
     ELSE [mapped EXCEPT !.got = i, !.tables = blank @@ @]

\* dv_armv6_mmu_new_l1_map(): the next table of the page that is being filled, or the
\* first of a new one
NewL1Map(m, s, Allocate(_)) ==
  LET given == IF m.filling = Nil
               THEN LET n == Allocate(m) IN [n EXCEPT !.filling = n.got]
               ELSE [m EXCEPT !.uses[m.filling] = @ + 1]
      i     == given.filling
  IN IF given.fate # "alive" THEN given
     ELSE IF i = Nil THEN Dies(given, "no page for a table")
     ELSE IF given.uses[i] > TablesPerPage THEN Dies(given, "page use count exceeded")
     ELSE [given EXCEPT !.l1[s] = Place(i, given.uses[i]),
                        !.filling = IF given.uses[i] >= TablesPerPage THEN Nil ELSE i]

\* dv_armv6_mmu_map_page(): every page is mapped to itself
MapWith(m, p, attr, Allocate(_)) ==
  LET n == IF m.l1[Slot(p)] = Nil THEN NewL1Map(m, Slot(p), Allocate) ELSE m
      t == n.l1[Slot(p)]
  IN IF n.fate # "alive" THEN n
     ELSE IF ~Reachable(n, PlacePage(t)) THEN Dies(n, "data abort")
     ELSE IF n.tables[t][Offset(p)] = "none" THEN [n EXCEPT !.tables[t][Offset(p)] = attr]
     ELSE IF n.tables[t][Offset(p)] # attr THEN Dies(n, "already mapped differently")
     ELSE n

\* The three functions call each other (MapLast stops in dv_armv6_mmu_new_l1_map(),
\* MapInner is dv_mmu_map_page() inside of dv_allocate_page()).  A page for the table that
\* maps a page for a table needs a table itself, in the same slot: that goes on until the
\* pool is empty.
MapLast(m, p, attr)  == MapWith(m, p, attr, LAMBDA n : Dies(n, "no page for a table"))
MapInner(m, p, attr) == MapWith(m, p, attr, LAMBDA n : AllocateWith(n, MapLast))
AllocatePage(m)      == AllocateWith(m, MapInner)
MapPage(m, p, attr)  == MapWith(m, p, attr, AllocatePage)

\* One region, which is in one piece
MapAll(m, pages, attr) ==
  FoldLeft(LAMBDA n, p : IF n.fate = "alive" THEN MapPage(n, p, attr) ELSE n,
           m, [i \in 1 .. Cardinality(pages) |-> Min(pages) + i - 1])

\* Mutation: the loop visits the tables that there were when it began.
MapTablesSeen(m) ==
  FoldLeft(LAMBDA n, s : IF n.fate = "alive" /\ m.l1[s] # Nil
                         THEN MapPage(n, PlacePage(n.l1[s]), "data")
                         ELSE n,
           m, [i \in 1 .. Slots |-> i - 1])

\* The end of dv_init_memory_management(): the loop over the table of level 1 maps the
\* tables that it finds, those that it has made itself on the way included.
MapTables(m) ==
  FoldLeft(LAMBDA n, s : IF n.fate = "alive" /\ n.l1[s] # Nil
                         THEN MapPage(n, PlacePage(n.l1[s]), "data")
                         ELSE n,
           m, [i \in 1 .. Slots |-> i - 1])

-----------------------------------------------------------------------------
(* The steps of the start                                                  *)

ArmSteps ==
  <<"clear", "console", "kvars", "page table", "vectors">> \o Regions \o Devices
    \o <<"tables", "mmu", "controller on", "vector table", "soft vectors", "system timer",
         "idle", "init", "dispatch">>
Arm64Steps ==
  <<"clear", "console", "core", "leave EL3", "leave EL2", "kvars", "controller on",
    "vector table", "soft vectors", "system timer", "idle", "init", "dispatch">>

\* The pages that the kernel itself needs at every step, and those of a step
Always == layout.text \cup layout.rodata \cup layout.stack \cup layout.data \cup layout.aux
Uses(step) == CASE step = "controller on"             -> layout.controller
                [] step = "vector table"              -> layout.vectors
                [] step \in {"system timer", "tick"} -> layout.timer \cup layout.controller
                [] OTHER                              -> {}

Alive == fate = "alive"
Step(name) == /\ Alive /\ todo # <<>> /\ Head(todo) = name /\ todo' = Tail(todo)
              /\ UNCHANGED <<cpu, layout>>
Reaches(name) == cpu = "arm" => \A p \in Always \cup Uses(name) : Reachable(mem, p)

\* dv_memset32() of the .bss: the kernel's variables, its tables and the page tables
Clear == Step("clear") /\ mem' = NoMemory /\ soft' = "nobody" /\ UNCHANGED <<el, stacks, fate>>

\* Everything that only needs its devices and its memory
Plain == /\ \E name \in {"console", "controller on", "vector table"} :
              Step(name) /\ fate' = IF Reaches(name) THEN fate ELSE "data abort"
         /\ UNCHANGED <<el, mem, soft, stacks>>

\* dv_init_core() looks at the level before it writes registers
InitCore == Step("core") /\ UNCHANGED <<el, mem, soft, stacks, fate>>

\* dv_switch_el3el2() and dv_switch_el2el1(), which dv_board_start() calls whatever the
\* level is: a register of EL3 is undefined below EL3
LeaveEL == \E from \in {2, 3} :
  /\ Step(IF from = 3 THEN "leave EL3" ELSE "leave EL2")
  /\ IF el >= from THEN el' = from - 1 /\ UNCHANGED fate
                   ELSE fate' = "undefined instruction" /\ UNCHANGED el
  /\ UNCHANGED <<mem, soft, stacks>>

\* dv_init_kvars(): all pages of the pool are free
InitKvars == /\ Step("kvars") /\ mem' = [mem EXCEPT !.free = PoolPages, !.next = 0]
             /\ UNCHANGED <<el, soft, stacks, fate>>

\* dv_init_memory_management(), from one region to the next
MapMemory ==
  /\ \/ Step("page table") /\ mem' = mem
     \/ \E r \in DOMAIN layout \ {"pool"} : Step(r) /\ mem' = MapAll(mem, layout[r], Attr(r))
     \/ Step("tables") /\ mem' = MapTables(mem)
     \/ Step("mmu") /\ mem' = [mem EXCEPT !.active = TRUE]
  /\ fate' = mem'.fate
  /\ UNCHANGED <<el, soft, stacks>>

\* dv_init_softvector(): nobody has configured any interrupt
InitSoftvector == /\ Step("soft vectors") /\ soft' = "unconfigured"
                  /\ UNCHANGED <<el, mem, stacks, fate>>

\* dv_init_system_timer(): a first alarm, and the handler for it
InitTimer == /\ Step("system timer")
             /\ IF Reaches("system timer") THEN soft' = "timer" /\ UNCHANGED fate
                                          ELSE fate' = "data abort" /\ UNCHANGED soft
             /\ UNCHANGED <<el, mem, stacks>>

\* dv_create_executable() takes a page for the stack, if it cannot share one
GetStack ==
  LET got == AllocatePage(mem)
  IN /\ mem' = got
     /\ IF got.fate = "alive" /\ got.got # Nil
        THEN stacks' = stacks \cup {got.got} /\ UNCHANGED fate
        ELSE fate' = (IF got.fate = "alive" THEN "no stack" ELSE got.fate) /\ UNCHANGED stacks

CreateFirst == /\ \E e \in {"idle", "init"} : Step(e)
               /\ GetStack /\ UNCHANGED <<el, soft>>
Dispatch == Step("dispatch") /\ UNCHANGED <<el, mem, soft, stacks, fate>>

\* The system runs: an executable that needs a stack of its own is created ...
Running == Alive /\ todo = <<>>
Foreseen == cpu = "arm" => mem.filling # Nil \/ mem.l1[Slot(PoolPage(Found(mem)))] # Nil
Create == /\ Running /\ Cardinality(stacks) < MaxStacks /\ Found(mem) # Nil
          /\ Outgrows \in Liberties \/ Foreseen
          /\ GetStack /\ UNCHANGED <<cpu, layout, todo, el, soft>>

\* ... and the system timer ticks, in the kernel, with the interrupt vectored by the table
Tick == /\ Running
        /\ fate' = IF ~Reaches("tick") THEN "data abort"
                   ELSE IF soft # "timer" THEN "unconfigured interrupt" ELSE fate
        /\ UNCHANGED <<cpu, layout, todo, el, mem, soft, stacks>>

-----------------------------------------------------------------------------

Init ==
  /\ cpu \in {"arm", "arm64"}
  /\ \E text \in TextPages, data \in DataPages : layout = Layout(text, data)
  /\ Outgrows \in Liberties \/ Slot(PoolPage(0)) = Slot(PoolPage(MaxTables + 1))
  /\ todo = IF cpu = "arm" THEN ArmSteps ELSE Arm64Steps
  /\ el \in IF cpu = "arm" THEN {1} ELSE {3} \cup IF Uboot \in Liberties THEN {2} ELSE {}
  /\ mem = NoMemory /\ soft = "nobody" /\ stacks = {} /\ fate = "alive"

Next == \/ Clear \/ Plain \/ InitCore \/ LeaveEL \/ InitKvars \/ MapMemory \/ InitSoftvector
        \/ InitTimer \/ CreateFirst \/ Dispatch \/ Create \/ Tick
Spec == Init /\ [][Next]_vars

-----------------------------------------------------------------------------
(* Properties                                                              *)

\* The kernel never dies of its own start: no address that it uses is unknown to the
\* MMU, no table is lost, nothing is mapped twice in different ways.  With the MMU on
\* every page of a region is mapped with the attributes of the region, so are the pages
\* that executables have got, which no table shares, and the tables themselves; no two
\* slots share a table.
InTables == {PlacePage(mem.l1[s]) : s \in {z \in DOMAIN mem.l1 : mem.l1[z] # Nil}}
MappedAs(p, attr) == Mapped(mem, p) /\ mem.tables[mem.l1[Slot(p)]][Offset(p)] = attr
Mapping ==
  /\ \A r \in DOMAIN layout \ {"pool"} : \A p \in layout[r] : MappedAs(p, Attr(r))
  /\ \A i \in stacks : MappedAs(PoolPage(i), "data") /\ PoolPage(i) \notin InTables
  /\ \A p \in InTables : MappedAs(p, "data")
  /\ \A s, z \in DOMAIN mem.l1 : s # z /\ mem.l1[s] # Nil => mem.l1[s] # mem.l1[z]
Starts == /\ Alive
          /\ mem.active => Mapping
          /\ Running => el = 1
=============================================================================
