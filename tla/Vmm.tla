-------------------------------- MODULE Vmm --------------------------------
(***************************************************************************)
(* Virtual memory and the creation of processes: paging_init               *)
(* (arch/i386/memory/paging.c), the virtual memory manager                 *)
(* (memory/vmm.c), create_process_stack (arch/i386/proc/proc.c),           *)
(* create_pcb (proc/proc.c) and what kmalloc's heap (klibc/kmemory.c)      *)
(* does to the tables it lies over.                                        *)
(*                                                                         *)
(* The machine is                                                          *)
(*   used   the frames marked in the bitmap of the PMM                     *)
(*   mem    frame |-> its words, one per entry of a table                  *)
(*   tlb    the translations the CPU has cached since they were last       *)
(*          invalidated; every access caches, nothing is evicted           *)
(*   fault  a page fault has happened: paging_page_fault_handler panics    *)
(* A page is a pair <<directory index, page index>>; NULL is page <<0, 0>>. *)
(* The tables are scaled from 1024 to ENTRIES entries.  All the memory the *)
(* model hands out lies below the temporary window, so a physical pointer  *)
(* to a table is a valid virtual one (the identity map of paging_init).    *)
(* The rw bits are left out: the kernel and the processes run in ring 0    *)
(* with CR0.WP clear, where they have no effect.                           *)
(*                                                                         *)
(* The heap starts where the bitmap ends (BootMemory, HeapUnshared).  The  *)
(* memory reported to the kernel is about 513 KB short of the machine's:   *)
(* with any multiple of 128 MB, from 256 MB on (the Makefile has 4 GB),    *)
(* the bitmap ends 16 bytes before the end of a frame.  That frame is not  *)
(* reserved and becomes the kernel directory: its last four words, and     *)
(* words of the first table behind it, are words of the heap.              *)
(***************************************************************************)
EXTENDS Integers, Sequences, FiniteSetsExt

CONSTANTS
  ENTRIES,     \* entries of a directory and of a table (TOTAL_ENTRIES)
  USER_DIR,    \* the directory index of 0xC0000000 (768)
  RESERVED,    \* frames pmm_init reserves
  OVERLAID,    \* words of the first table in which kmalloc's headers, the lists
               \* of the scheduler and the PCBs lie
  MEMORIES,    \* the sizes of memory in frames; one is chosen
  BOOT,        \* the processes in the order the kernel creates them
  Callers,     \* kernel code that takes a page for itself
  Explicit,    \* pages asked for by address
  CALLS_MAX    \* bound: pages taken by Callers

Index == 0 .. ENTRIES - 1
NULL  == <<0, 0>>
None  == -1

\* The temporary window is the last page of the second kernel table.
WINDOW == <<1, ENTRIES - 1>>
CODE   == <<USER_DIR, 0>>
STACK  == <<USER_DIR, 1>>

\* The first of the words of the kernel directory that the heap lies over.
HEAP == ENTRIES - 4

Procs == {BOOT[i] : i \in DOMAIN BOOT}

\* The table words under the heap map reserved memory that the kernel does not
\* use; word 0, for page NULL, is one of them.
ASSUME VmmAssumption ==
  /\ ENTRIES \in Nat /\ ENTRIES >= 10 /\ OVERLAID \subseteq 0 .. RESERVED - 1 /\ OVERLAID \subseteq Index
  /\ 0 \in OVERLAID /\ USER_DIR \in 3 .. ENTRIES - 2 /\ RESERVED \in Nat \ {0}
  /\ MEMORIES \subseteq RESERVED + 3 .. 2 * ENTRIES - 1
  /\ Explicit \subseteq (2 .. HEAP - 1) \X Index
  /\ BOOT \in Seq(Procs) /\ \A i, j \in DOMAIN BOOT : BOOT[i] = BOOT[j] => i = j

VARIABLES
  machine,  \* the physical machine
  pcb,      \* process |-> [state, dir]: dir is address_space_physical
  pages,    \* caller |-> the page it took
  calls,    \* pages taken so far
  running   \* interrupts are enabled: processes run, CR3 leaves kernel_directory

vmmVars == <<machine, pcb, pages, calls, running>>

\* The function f with the value v for k.
With(f, k, v) == [q \in DOMAIN f \cup {k} |-> IF q = k THEN v ELSE f[q]]

-----------------------------------------------------------------------------
(* Words of memory.                                                        *)

MemoryWord(present, user, frame, tag) ==
  [present |-> present, user |-> user, frame |-> frame, tag |-> tag]

Entry(user, frame) == MemoryWord(TRUE, user, frame, <<"entry">>)
ZERO               == MemoryWord(FALSE, FALSE, 0, <<"zero">>)

\* What is not an entry but would be taken for one.
Data(tag) == MemoryWord(TRUE, TRUE, 0, tag)
JUNK      == Data(<<"junk">>)

-----------------------------------------------------------------------------
(* The frames of the PMM and the tables of paging_init.                    *)

KDIR == RESERVED         \* kernel_directory, the first frame allocated
PT0  == RESERVED + 1
PT1  == RESERVED + 2

\* The identity map, without page 0.
Identity(table, w) ==
  [i \in Index |-> IF table = 0 /\ i = 0 THEN [w EXCEPT !.present = FALSE]
                   ELSE [w EXCEPT !.frame = table * ENTRIES + i]]

PagingInit(total) ==
  [used  |-> 0 .. PT1,
   mem   |-> [f \in 0 .. total - 1 |->
                CASE f = KDIR -> [i \in Index |-> CASE i = 0 -> Entry(FALSE, PT0)
                                                    [] i = 1 -> Entry(FALSE, PT1)
                                                    [] OTHER -> ZERO]
                  [] f = PT0  -> Identity(0, Entry(FALSE, 0))
                  [] f = PT1  -> Identity(1, Entry(FALSE, 0))
                  [] OTHER    -> [i \in Index |-> JUNK]],
   tlb   |-> <<>>,
   fault |-> FALSE]

\* A word of the heap, read as an entry: present if it is odd.
HeapWord(odd) == MemoryWord(odd, TRUE, KDIR, <<"heap">>)

\* kmalloc_init: the header of the one free block, whose size, 0x007FFFFF less a
\* multiple of 4, and whose is_free are odd; its next is NULL.
KmallocInit(x) ==
  [x EXCEPT !.mem[KDIR] =
     [i \in Index |-> IF i < HEAP \/ i = HEAP + 3 THEN @[i] ELSE HeapWord(i # HEAP + 2)]]

\* The heap once its first block is a List, which is never freed: over the
\* directory its size (20), is_free (false) and next, then root.next of the
\* list, over word 0 of the table root.prev.  All of these are even: nodes and
\* blocks are at multiples of 4.  Of the other words any may be odd.
HeapWritten(x, odd) ==
  [x EXCEPT !.mem[KDIR] = [i \in Index |-> IF i < HEAP THEN @[i] ELSE HeapWord(FALSE)],
            !.mem[PT0]  = [i \in Index |-> IF i \in OVERLAID THEN HeapWord(i \in odd) ELSE @[i]]]

OddWords == SUBSET (OVERLAID \ {0})

FreeFrames(x) == DOMAIN x.mem \ x.used

\* pmm_allocate_frame returns the first free frame, or 0.
pmm_allocate_frame(x) == IF FreeFrames(x) = {} THEN 0 ELSE Min(FreeFrames(x))

Mark(x, f) == [x EXCEPT !.used = @ \cup {f}]

-----------------------------------------------------------------------------
(* The memory management unit.                                             *)

\* The frame an entry of a table gives, under an entry d of a directory.
Leaf(x, d, i) ==
  IF d.present /\ d.frame \in DOMAIN x.mem /\ x.mem[d.frame][i].present
  THEN x.mem[d.frame][i].frame ELSE None

Walk(x, dir, page) == Leaf(x, x.mem[dir][page[1]], page[2])

Translate(x, page) == IF page \in DOMAIN x.tlb THEN x.tlb[page] ELSE Walk(x, KDIR, page)

\* The machine after an access to a page, which is in frame f: a fault, or a
\* cached translation.  The identity map is not worth caching: of the part that
\* is in use only the window changes.
AccessFrame(x, page, f) ==
  IF x.fault \/ f \notin DOMAIN x.mem THEN [x EXCEPT !.fault = TRUE]
  ELSE IF page[1] < 2 /\ page # WINDOW THEN x
  ELSE [x EXCEPT !.tlb = With(@, page, f)]

Access(x, page) == AccessFrame(x, page, Translate(x, page))

LoadFrame(x, f, i) == IF x.fault THEN ZERO ELSE x.mem[f][i]
StoreFrame(x, f, i, w) == IF x.fault THEN x ELSE [x EXCEPT !.mem[f][i] = w]
FillFrame(x, f, w) == IF x.fault THEN x ELSE [x EXCEPT !.mem[f] = [i \in Index |-> w]]

Load(x, page, i) == LoadFrame(Access(x, page), Translate(x, page), i)
Store(x, page, i, w) == StoreFrame(Access(x, page), Translate(x, page), i, w)

\* kmemset and kmemcpy of a whole page.
Fill(x, page, w) == FillFrame(Access(x, page), Translate(x, page), w)

\* A slip for paging_invalidate_page_cache: the cached translation stays.
InvalidateNothing(x, page) == x

paging_invalidate_page_cache(x, page) ==
  [x EXCEPT !.tlb = [q \in DOMAIN @ \ {page} |-> @[q]]]

-----------------------------------------------------------------------------
(* vmm.c.  An operation returns the machine, and its result where it has   *)
(* one.  The kernel passes kernel_directory to all but vmm_map_frame.      *)

Directory(x, i) == x.mem[KDIR][i]

vmm_map_to_temp_window(x, frame) ==
  paging_invalidate_page_cache(
    [x EXCEPT !.mem[Directory(x, 1).frame][WINDOW[2]] = Entry(FALSE, frame)], WINDOW)

vmm_unmap_temp_window(x) ==
  paging_invalidate_page_cache(
    [x EXCEPT !.mem[Directory(x, 1).frame][WINDOW[2]].present = FALSE], WINDOW)

\* The pages with directory index i that vmm_get_new_page may choose.
FreeIn(x, i) ==
  IF ~Directory(x, i).present THEN {0}
  ELSE {j \in Index : ~x.mem[Directory(x, i).frame][j].present}

\* The first page not mapped above the identity map and outside the addresses
\* of the processes.
Slot(x) ==
  LET dirs == {i \in 2 .. ENTRIES - 1 : i \notin {USER_DIR, USER_DIR + 1} /\ FreeIn(x, i) # {}}
  IN  IF dirs = {} THEN NULL ELSE <<Min(dirs), Min(FreeIn(x, Min(dirs)))>>

\* A slip for NewTable: the table is not cleared.
NewTableUncleared(x, i, is_user, frame) ==
  [Mark(x, frame) EXCEPT !.mem[KDIR][i] = Entry(is_user, frame)]

\* A new table for directory index i of the kernel.
NewTable(x, i, is_user, frame) ==
  LET entered == [Mark(x, frame) EXCEPT !.mem[KDIR][i] = Entry(is_user, frame)]
  IN  vmm_unmap_temp_window(Fill(vmm_map_to_temp_window(entered, frame), WINDOW, ZERO))

\* The page is entered in its table, through the window.
EnterPage(x, is_user, page, frame) ==
  paging_invalidate_page_cache(
    vmm_unmap_temp_window(
      Store(vmm_map_to_temp_window(x, Directory(x, page[1]).frame),
            WINDOW, page[2], Entry(is_user, frame))), page)

\* The page given, in the frame given, with the other frame for its table if it
\* has none.  The frame for the page is taken first; it is lost when no frame is
\* left for the table.
NewPage(x, is_user, page, frame, tframe) ==
  IF page = NULL \/ frame = 0 THEN [m |-> x, page |-> NULL]
  ELSE IF Directory(x, page[1]).present
       THEN [m |-> EnterPage(Mark(x, frame), is_user, page, frame), page |-> page]
  ELSE IF tframe = 0 THEN [m |-> Mark(x, frame), page |-> NULL]
  ELSE [m    |-> EnterPage(NewTable(Mark(x, frame), page[1], is_user, tframe), is_user, page, frame),
        page |-> page]

vmm_get_new_page(x, is_user, explicit) ==
  NewPage(x, is_user, IF explicit # NULL THEN explicit ELSE Slot(x), pmm_allocate_frame(x),
          pmm_allocate_frame(Mark(x, pmm_allocate_frame(x))))

\* An entry that is not present and has no frame.
Cleared(w) == MemoryWord(FALSE, w.user, 0, w.tag)

\* A slip for vmm_free_page: the frame goes back to the PMM.
FreePageAndFrame(x, page) ==
  LET t == Directory(x, page[1]).frame
  IN  IF ~Directory(x, page[1]).present THEN x
      ELSE paging_invalidate_page_cache(
             [x EXCEPT !.used = @ \ {x.mem[t][page[2]].frame},
                       !.mem[t][page[2]] = Cleared(@)], page)

\* The page is unmapped; its frame stays marked.
vmm_free_page(x, page) ==
  LET t == Directory(x, page[1]).frame
  IN  IF ~Directory(x, page[1]).present THEN x
      ELSE paging_invalidate_page_cache(
             [x EXCEPT !.mem[t][page[2]] = Cleared(@)], page)

\* The table is read through the temporary window.
vmm_get_physical_address(x, page) ==
  LET y == vmm_map_to_temp_window(x, Directory(x, page[1]).frame)
  IN  IF ~Directory(x, page[1]).present THEN [m |-> x, frame |-> 0]
      ELSE [m     |-> vmm_unmap_temp_window(Access(y, WINDOW)),
            frame |-> Load(y, WINDOW, page[2]).frame]

\* A new table, in the kernel page that g took for it and that stays mapped.
EnterTable(p, table, dir, page, entry) ==
  Store(Store(p.m, dir, page[1], Entry(entry.user, p.frame)), table, page[2], entry)

MapInNewTable(g, dir, page, entry) ==
  IF g.page = NULL THEN g.m
  ELSE paging_invalidate_page_cache(
         EnterTable(vmm_get_physical_address(Fill(g.m, g.page, ZERO), g.page),
                    g.page, dir, page, entry), page)

\* x has read entry d of the directory.  An existing table is reached through
\* its physical address.
MapUnder(x, d, dir, page, entry) ==
  IF x.fault THEN x
  ELSE IF d.present
       THEN paging_invalidate_page_cache([x EXCEPT !.mem[d.frame][page[2]] = entry], page)
  ELSE MapInNewTable(vmm_get_new_page(x, FALSE, NULL), dir, page, entry)

\* FALSE, for a table that could not be made, is ignored by every caller and not
\* modelled.
vmm_map_frame(x, dir, page, frame, is_user) ==
  MapUnder(Access(x, dir), Load(x, dir, page[1]), dir, page, Entry(is_user, frame))

\* An empty address space that shares the tables of the kernel.
AddressSpace(x, dir) ==
  Store(Store(Fill(x, dir, ZERO), dir, 0, Directory(x, 0)), dir, 1, Directory(x, 1))

\* The program, in the kernel page c took, is mapped at the address where the
\* process runs it and unmapped again.  f is where it is.
MapProgram(f, dir, c, is_user) ==
  vmm_free_page(vmm_map_frame(f.m, dir, CODE, f.frame, is_user), c)

LoadProgram(c, dir, p, is_user) ==
  IF c.page = NULL THEN c
  ELSE [m |-> MapProgram(vmm_get_physical_address(
                           Fill(c.m, c.page, Data(<<"code", p>>)), c.page),
                         dir, c.page, is_user),
        page |-> dir]

NewSpace(g, p, is_user) ==
  IF g.page = NULL THEN g
  ELSE LoadProgram(vmm_get_new_page(AddressSpace(g.m, g.page), FALSE, NULL), g.page, p, is_user)

\* The programs of the kernel fill one page or less.
vmm_create_virtual_address_space(x, p, is_user) ==
  NewSpace(vmm_get_new_page(x, FALSE, NULL), p, is_user)

-----------------------------------------------------------------------------
(* Processes.                                                              *)

NoStack(x) == [m |-> x, frame |-> 0, esp |-> NULL]

\* The frame that the kernel's table gives for a page.
FrameOf(x, page) == x.mem[Directory(x, page[1]).frame][page[2]].frame

\* A slip for StackIn: the frame is looked up after the page was unmapped.
StackInUnmapped(x, page) ==
  [m |-> vmm_free_page(x, page), frame |-> FrameOf(vmm_free_page(x, page), page), esp |-> STACK]

\* The frame is looked up, then the page is unmapped.
StackIn(x, page) == [m |-> vmm_free_page(x, page), frame |-> FrameOf(x, page), esp |-> STACK]

\* The stack of process p, with the context it starts from, in the page g took.
NewStack(g, p) ==
  IF g.page = NULL THEN NoStack(g.m)
  ELSE StackIn(Fill(g.m, g.page, Data(<<"stack", p>>)), g.page)

create_process_stack(x, p) == NewStack(vmm_get_new_page(x, FALSE, NULL), p)

\* A failed address space is not looked at: its directory is page 0, and
\* mapping the stack into it faults.  A failed stack is mapped as frame 0 into
\* the address space that is then abandoned.
MapStack(s, a, space, is_user) ==
  [m |-> vmm_map_frame(s.m, space, STACK, s.frame, is_user), dir |-> a.frame, esp |-> s.esp]

AddStack(a, space, p, is_user) == MapStack(create_process_stack(a.m, p), a, space, is_user)

WithStack(v, p, is_user) == AddStack(vmm_get_physical_address(v.m, v.page), v.page, p, is_user)

\* A slip for create_pcb: a missing address space ends the creation.
create_pcb_checked(x, p, is_user) ==
  LET v == vmm_create_virtual_address_space(x, p, is_user)
  IN  IF v.page = NULL THEN [m |-> v.m, dir |-> 0, esp |-> NULL] ELSE WithStack(v, p, is_user)

\* x has the PCB, a block of the heap.
create_pcb(x, p, is_user) ==
  WithStack(vmm_create_virtual_address_space(x, p, is_user), p, is_user)

-----------------------------------------------------------------------------
VmmInit ==
  /\ \E total \in MEMORIES : machine = KmallocInit(PagingInit(total))
  /\ pcb = [p \in Procs |-> [state |-> "none", dir |-> 0]]
  /\ pages = <<>> /\ calls = 0 /\ running = FALSE

\* The first block of the heap is taken.
Booted == ~machine.mem[KDIR][HEAP + 1].present

\* sched_init makes its lists, which are the first blocks of the heap.
InitLists ==
  /\ ~Booted
  /\ \E odd \in OddWords : machine' = HeapWritten(machine, odd)
  /\ UNCHANGED <<pcb, pages, calls, running>>

\* sched_init creates the idle process, kernel_main the others, all of them
\* user processes.  The words of the heap that kmalloc, the fields of the PCB and
\* kfree write are not read in between, so they are written once.
CreatePcb ==
  /\ Booted /\ ~machine.fault
  /\ \E i \in DOMAIN BOOT :
       /\ pcb[BOOT[i]].state = "none"
       /\ \A j \in 1 .. i - 1 : pcb[BOOT[j]].state # "none"
       /\ \E odd \in OddWords : \E r \in {create_pcb(HeapWritten(machine, odd), BOOT[i], TRUE)} :
            /\ machine' = r.m
            /\ pcb' = [pcb EXCEPT ![BOOT[i]] =
                         IF r.m.fault         THEN @
                         ELSE IF r.esp = NULL THEN [state |-> "failed", dir |-> 0]
                         ELSE [state |-> "ready", dir |-> r.dir]]
  /\ UNCHANGED <<pages, calls, running>>

\* Kernel code takes a page, anywhere or at an address that is not mapped, and
\* writes to it.
GetNewPage(k) ==
  /\ Booted /\ ~machine.fault /\ ~running /\ k \notin DOMAIN pages
  /\ calls < CALLS_MAX /\ calls' = calls + 1
  /\ \E explicit \in {NULL} \cup {q \in Explicit : Walk(machine, KDIR, q) = None} :
       \E g \in {vmm_get_new_page(machine, FALSE, explicit)} :
         IF g.page = NULL THEN machine' = g.m /\ UNCHANGED pages
         ELSE /\ machine' = Fill(g.m, g.page, Data(<<"kernel", k>>))
              /\ pages' = With(pages, k, g.page)
  /\ UNCHANGED <<pcb, running>>

FreePage(k) ==
  /\ Booted /\ ~machine.fault /\ ~running /\ k \in DOMAIN pages
  /\ machine' = vmm_free_page(machine, pages[k])
  /\ pages' = [j \in DOMAIN pages \ {k} |-> pages[j]]
  /\ UNCHANGED <<pcb, calls, running>>

\* The scheduler links PCBs in its lists and counts in them.
Schedule ==
  /\ Booted /\ ~machine.fault
  /\ \E odd \in OddWords : machine' = HeapWritten(machine, odd)
  /\ UNCHANGED <<pcb, pages, calls, running>>

\* kernel_main enables interrupts when it has tried to create every process.
EnableInterrupts ==
  /\ Booted /\ ~machine.fault /\ ~running
  /\ \A p \in Procs : pcb[p].state # "none"
  /\ running' = TRUE
  /\ UNCHANGED <<machine, pcb, pages, calls>>

\* context_switch loads CR3: the cached translations are gone.
LoadCr3(x) == [x EXCEPT !.tlb = <<>>]

\* A process that was switched to (CR3 holds its directory) writes to its stack.
RunProcess(p) ==
  LET f == Walk(machine, pcb[p].dir, STACK)
  IN  /\ running /\ ~machine.fault /\ pcb[p].state = "ready"
      /\ machine' = IF f \notin DOMAIN machine.mem THEN [machine EXCEPT !.fault = TRUE]
                    ELSE FillFrame(LoadCr3(machine), f, Data(<<"used", p>>))
      /\ UNCHANGED <<pcb, pages, calls, running>>

VmmNext ==
  \/ InitLists
  \/ CreatePcb
  \/ Schedule
  \/ \E k \in Callers : GetNewPage(k) \/ FreePage(k)
  \/ EnableInterrupts
  \/ \E p \in Procs : RunProcess(p)

VmmSpec == VmmInit /\ [][VmmNext]_vmmVars

-----------------------------------------------------------------------------
(* Properties.                                                             *)

\* A cached translation is the one the tables give: each change of an entry
\* that was used is followed by an invlpg for that page, also of the window
\* that is mapped and unmapped several times within one call.
TlbCoherent == \A q \in DOMAIN machine.tlb : machine.tlb[q] = Walk(machine, KDIR, q)

Ready == {p \in Procs : pcb[p].state = "ready"}

\* The tables below a directory, and the pages mapped by it, above the part that
\* all of them share.
TablesOf(dir) ==
  {machine.mem[dir][i].frame : i \in {j \in 2 .. ENTRIES - 1 : machine.mem[dir][j].present}}
PagesOf(dir)  == {q \in (2 .. ENTRIES - 1) \X Index : Walk(machine, dir, q) # None}
FramesOf(dir) == {dir} \cup TablesOf(dir) \cup {Walk(machine, dir, q) : q \in PagesOf(dir)}

\* From the first kmalloc on, no directory in use, and no table below one that
\* vmm.c made, has a present word that nobody wrote as an entry: a new frame,
\* whatever it held before, is cleared before it is reached, and no table is
\* ever entered in, or lost to, the words of the kernel directory that belong to
\* the heap.  (Before, the header that kmalloc_init wrote has two such words in
\* the kernel directory; sched_init takes its block before it maps a page.)
NoStrayEntry ==
  Booted =>
  \A dir \in {KDIR} \cup {pcb[p].dir : p \in Ready} :
    \A f \in {dir} \cup TablesOf(dir) : \A i \in Index :
      LET w == machine.mem[f][i]
      IN  w.present => w.tag = <<"entry">> /\ w.frame \in machine.used

\* An address space is private.  Above the shared part it has its program and
\* its stack and nothing else, the kernel sees of it only the directory and the
\* table it keeps mapped, and two spaces have no frame in common.
Private ==
  \A p \in Ready :
    /\ PagesOf(pcb[p].dir) = {CODE, STACK}
    /\ FramesOf(KDIR) \cap FramesOf(pcb[p].dir) = {pcb[p].dir} \cup TablesOf(pcb[p].dir)
    /\ \A q \in Ready \ {p} : FramesOf(pcb[p].dir) \cap FramesOf(pcb[q].dir) = {}

\* Only the process created last can be missing when the kernel enables
\* interrupts: a creation that fails without a fault has used up the memory, and
\* the next one panics.
OnlyLastMissing ==
  \A i \in DOMAIN BOOT : pcb[BOOT[i]].state = "failed" =>
    \A j \in i + 1 .. Len(BOOT) : pcb[BOOT[j]].state = "none"

\* What is at page q of the address space with directory dir: the tag of the
\* words that fill its frame.
Contents(x, dir, q) ==
  LET f == Walk(x, dir, q)
  IN  IF f \notin DOMAIN x.mem \/ \E i \in Index : x.mem[f][i] # x.mem[f][0]
      THEN <<"lost">> ELSE x.mem[f][0].tag

SeesKernel(x, dir) == \A q \in {0, 1} \X Index : Walk(x, dir, q) = Walk(x, KDIR, q)

Promise == INSTANCE Spaces WITH
  space <- [p \in Ready |-> [code   |-> Contents(machine, pcb[p].dir, CODE),
                             stack  |-> Contents(machine, pcb[p].dir, STACK),
                             kernel |-> SeesKernel(machine, pcb[p].dir)]],
  page  <- [k \in DOMAIN pages |-> Contents(machine, KDIR, pages[k])]

\* Every created process finds its own program and stack, and the kernel, in
\* its address space, and every caller its own words in its page, whatever was
\* created, taken and given back since, and wherever memory ran out.
ImplementsSpaces == Promise!Spec
=============================================================================
