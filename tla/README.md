# kdbOS in TLA+

A verification project for kdbOS, a small i386 kernel: TLA+ models of its parts, TLC
runs that check them on small instances, and TLAPS proofs, for every instance, of
the safety properties of the scheduler, the linked lists, the heap, the handler
tables, the interrupt handlers and their stacks, the frames set up at boot, the page
tables and address spaces, the terminal and the console.
Paths below are relative to the directory that holds both `src/` (the repository)
and this directory.

Contents: [the system](#1-the-system), [the modules](#2-the-modules), [the
runs](#3-the-runs), [the proofs](#4-the-proofs), [what is left
out](#5-not-modelled), [plan](#6-plan).

## 1. The system

The kernel boots through multiboot, sets up the descriptor tables, the PIC, physical
memory, paging and a heap, creates an idle process and two processes, enables
interrupts and waits. From then on everything happens in interrupt handlers: IRQ 0
drives the scheduler, IRQ 1 the keyboard, and a CPU exception ends in a panic
screen. There is one CPU, and every gate of the IDT is an interrupt gate, so
handlers run with interrupts disabled and do not nest. The atomic step of most
models is therefore a whole handler, or a whole call made by the boot code; Kernel
takes handlers apart, because a context switch leaves one in the middle.

| component | source | state | operations |
|---|---|---|---|
| scheduler | `src/src/kernel/proc/sched.c` | four ready queues, the waiting queue, `current_pcb`, and per PCB its state, priority, slice and age | init, enqueue, pick next, tick, block, unblock |
| linked lists | `src/src/kernel/ds/list.c` | intrusive circular lists with a dummy node and a count | init, push and pop at both ends, remove, free |
| kernel heap | `src/src/kernel/klibc/kmemory.c` | chain of block headers | init, `kmalloc`, `kfree` |
| virtual terminal | `src/src/kernel/vterm/vterm.c` | `screen_buffer`, cursor, colours, buffering mode, CRTC registers, framebuffer | write, print, move, scroll, clear, flush, cursor style |
| keyboard | `src/src/kernel/arch/i386/drivers/keyboard.c` | shift, caps lock, extended flag | one handler |
| panic screen | `src/src/kernel/arch/i386/interrupts/panic.c` | none | `kernel_panic` |
| physical memory | `src/src/kernel/memory/pmm.c`, `ds/bitmap.c` | frame bitmap | init, allocate, free |
| paging, virtual memory | `arch/i386/memory/paging.c`, `memory/vmm.c` | page directories and tables, the temporary window | init, new page, free page, map frame, new address space |
| process creation | `proc/proc.c`, `arch/i386/proc/proc.c` | PCBs, stacks | `create_pcb` |
| interrupt dispatch | `arch/i386/interrupts/isr.c`, `pic.c` | handler tables, PIC masks | register, dispatch, EOI |
| context switch | `arch/i386/proc/ctxswitch.asm` | stack pointers, CR3 | switch, first start |
| boot | `kernel.c` | none of its own | `kernel_main` |

How they interact: the timer handler works on the scheduler's lists through `list.c`
and ends in `context_switch`; the keyboard handler and the panic write to the
terminal; lists and PCBs live on the heap; `create_pcb` takes frames and page tables
from the memory managers. `kernel_main` calls everything in a fixed order with
interrupts disabled, and the last thing it does is `sti`.

What is hard to get right, and to test:

* **Intrusive lists.** A PCB has one `sched_node`. A push while it is linked, a
  removal from the wrong list, or a loop that follows `next` after the node has
  moved corrupts two rings without any error. The scheduler moves nodes between
  rings while it walks them.
* **Scheduling over long runs.** Slices are unsigned counters that must never be
  decremented past zero; demotion, promotion and wake-up each set the slice of a
  different level; ageing alone keeps low levels from starving; a switch from a PCB
  to itself would resume a stale stack and nothing tests for it.
* **Heap blocks after many calls.** `kfree` computes a merged size that loses bytes;
  whether blocks can come to overlap depends on the whole history.
* **Two copies of the screen and of the cursor**, and a cursor that may stand one
  column past the end of the line.
* **Keys that arrive in pieces**, and an exception at any moment.
* **The memory layout at boot**, which depends on the amount of RAM.
* **Translations that are cached.** One page, the temporary window, shows one table
  after another; the same virtual pages serve every new process in turn. A forgotten
  `invlpg` or `kmemset` shows in another process, much later.
* **Memory that runs out in the middle** of creating a process, at any of the four
  or five frames it takes, with return values nobody looks at.
* **Handlers that do not return where they came from.** The timer handler enters on
  one stack and leaves on another, or starts a process and never leaves. EOI,
  interrupt flag and stack pointer have to be right on every such path.
* **A table of 16 handlers indexed from 32.**

PROJECT.json lists these and further hazards at their lines, with the properties
that cover them.

## 2. The modules

**SeqFilter** has the few operators on sequences and sets that the proofs need and
that are easy to reason about (`Filter` by counting, `Least`, `Nth`, `Distinct`).
`MCSched` has an assumption by which TLC confirms that `Filter` is `SelectSeq`.

**Sched** is the scheduler with its lists as sequences. Variables are the fields of
`Scheduler` and of the PCBs plus `irq_on`. `sched_timer_handler` is split into its
four paths: `FirstTick` (no PCB yet, `bootstrap_first_process`), `IdleTick` (nothing
happens), `ExpireTick` (demote, enqueue, pick, `context_switch`) and `AgeTick`
(charge and age). The EOI precedes the switch on every path, so the PIC is the same
after each step as before it and is left out.

*Blocking.* `sched_block_process` and `sched_unblock_process` have no caller in this
commit, and `sched_block_process` leaves `current_pcb` on the blocked PCB. If a tick
came before the caller had switched away, the PCB would be pushed on a ready queue
while it is linked in the waiting queue. The model gives the calls the one protocol
under which the lists survive: the caller disables interrupts, blocks itself and
switches away (`SwitchAway`, external) before interrupts are enabled. The constant
`Blocking` is the set of processes that do this; for the kernel as it stands it is
empty. What is shown about blocking is therefore a statement about the interface
under that protocol, not about existing callers.

**ListOps** has the functions of `list.c` as functions on a heap of `next` and
`prev` pointers, assignment by assignment. **LinkedList** calls them in every order
on a set of lists and nodes, and **Deques** is what they promise: double-ended
queues that share no element. The mapping reads a ring from its dummy node; that the
one implements the other is checked by a run and proved.

**SchedList** is the scheduler again, with its queues as rings of pointers and its
loops as loops (ageing visits node after node, saves `next` before it moves the
node), each a recursive function of the number of rounds. That it implements Sched is
checked by a run and proved, so what is proved of Sched holds of the pointers.

**Heap** models the chain of headers. The loop of `kfree` that merges neighbours is
given in closed form (`Coalesced`); `MCHeap` has the loop as written and an
assumption by which TLC compares the two on every short chain.

**VtermOps** has the functions of `vterm.c` on the terminal's data, **Vterm** calls
them in every order, **Typewriter** is what a typist may expect of them. **Console**
composes the terminal with the keyboard driver, the keyboard (external: bytes arrive
at any moment, keys repeat) and `kernel_panic`. Scancodes are the real ones; the two
character tables are cut down to a letter, a digit, backspace and newline. Colours
are modelled as one attribute. Loops (`vterm_write`, the lines of the panic screen,
the pops of `list_free`) are recursive functions over the number of rounds, so that
TLC computes them and the proofs unfold them. The processes kernel_main creates write to the
framebuffer themselves, past the terminal; that is not part of these models.

**BootMemory** follows `init_memory_management`: `pmm_init`, `paging_init`,
`kmalloc_init`, and then frames handed out and given back. The bitmap is not a
variable of its own but a part of memory (`mem`, the set of bits that are 1), so
that a page directory or a heap header placed on the same bytes overwrites it, as it
does on the machine. Numbers are the kernel's own; RAM sizes are what QEMU reports.
The processor also sets accessed bits in directory entries; that only adds marks and
is left out.

**Vmm** has `paging_init` (`PagingInit`), all of `vmm.c`, `create_process_stack` and
`create_pcb`, on a machine (`machine`) with a memory of frames of words, the PMM's set of used frames, and the
translations the CPU has cached (`tlb`), which a switch to another directory empties
(`LoadCr3`). A word is a page table entry or a piece of
data with its owner's name; a frame that was never written holds words that would
pass as entries (`present`, with a frame nobody gave out), so a missing `kmemset` is
seen. Every access goes through the cached translation if there is one, else through
the tables (`Access`, `Load`, `Store`, `Fill`); an access to a page that is not
mapped faults, and the machine stops. Directories and tables the code reaches
through their physical addresses are reached directly, which is right within the
identity-mapped 8 MB. The processes are created in the order of kernel_main. Between
creations callers of `vmm_get_new_page` and `vmm_free_page` (`Callers`, external:
the kernel has none but the creation of processes) hold pages, wherever the call
puts them or at an explicit address (below the words of the heap), and write to them. **Spaces** is what a process
and a caller may expect: their own program, stack or page, and nobody else's; Vmm is
checked and proved to implement it.

The heap lies over these tables (`boot_heap` below), and Vmm has it there. With the
memory of the Makefile, and with every multiple of 128 MB from 256 MB on, the bitmap
ends 16 bytes before the end of a frame, that frame becomes the kernel directory, and
its last four words (`HEAP`) are the first words of the heap; the words `OVERLAID` of
the first page table are further headers, lists and PCBs. `KmallocInit` writes the
header of the one free block, whose size and `is_free` are odd numbers: read as
entries, two words of the directory are present. So they stay until `sched_init`
takes the first block (`InitLists`, before any page is mapped; `Booted` is the state
after it). From then on the four words are the header of a block of 20 bytes that is
never freed and a pointer, and word 0 of the table, for page NULL, is a pointer too:
all even, so not present. Every other overlaid word may be odd or even after each
`create_pcb` and whenever the scheduler works on its lists (`Schedule`). The pages
these words were meant to map are low memory that the kernel does not use; with 4 GB
they are words 0 to 6 and 71 to 81 of the table, three times as many further on up to
word 306, and the PCBs from word 371 on.

**Isr** has the three handler tables of `isr.c`. The compiler places them one after
the other in `.bss`, in their order, so memory is one row of words,
`register_irq_handler` writes past the end of its table, and `registered` remembers
what was asked for.

**Kernel** composes Sched (by INSTANCE, with no blocking process) and Isr with the
PIC, the stubs of `interrupts.asm` and `ctxswitch.asm`, from `init_isr` to the
running system. `pc` names the code that is executed. A stack is a memory of frames
by depth, and popping leaves the frame where it was, as on the machine: a stale
stack pointer finds something. `TakeIrq` is the acceptance of an interrupt up to the
call of the handler, then come the steps of the handler, `context_switch` or
`bootstrap_first_process`, and `Return`. Between `popf` and `ret` of a first start
the CPU can be interrupted (`"starting"`). If a return or a switch finds a frame of
the wrong kind the machine is `"derailed"`. An exception ends in `"halted"`; the
panic screen itself is in Console. The keyboard handler is one step, its translation
of bytes is in Console.

What the models record of the code, as it is:

* Once the idle PCB has been picked, `sched_tick` never preempts it (`IdleIsFinal`).
  With `Blocking` empty it is never picked while a process exists.
* An age is not reset when a process is picked, and the tick that ends a slice ages
  nobody; starvation is still excluded as long as a slice has at least two ticks.
* Merging free blocks gives the merged block `sizeof(header)` plus the size of the
  last block only. Bytes are lost; blocks never overlap.
* A newline on the last row goes to the start of that row: `vterm_move_cursor`
  refuses the row below, so the scroll that follows is not reached.
* A shape set while the cursor is invisible is not applied when it is shown.
* With both shift keys held, releasing one of them ends shift; a repeating caps lock
  key toggles caps lock.
* If only the last process fails to be created, the kernel goes on without it; then
  one process is left, its first expired slice switches from it to itself, to the
  stack pointer of its first start, and the machine is derailed (`StacksBalanced`
  asks for all processes to be created).
* A creation that fails in the address space faults on page 0 and panics; one that
  fails in the stack returns NULL and leaves its frames marked.
* `vmm_free_page` unmaps and never gives a frame back.
* `vterm_init` goes back to STREAM after kernel_main has asked for BLOCK.

Definitions named in a comment "a slip for X" are wrong variants of X. No
specification uses them: they show, one per property, that the property fails when
the code is wrong in that way.

## 3. The runs

| run | instance | checks | states |
|---|---|---|---|
| `sched_kernel` | the kernel's two processes, slices 40 to 160, threshold 600 | `SliceFitsLevel`, `SwitchesToAnother`, `EveryProcessRuns` | 385,929 |
| `sched_blocking` | 3 processes, 3 levels, 2 processes block | `TypeOK`, `OneListPerPcb`, `SliceFitsLevel`, `IdleIsFinal`, `ReadyRuns` | 80,778 |
| `sched_list` | as `sched_blocking`, by pointers | `QueuesAreRings`, `ImplementsSched` | 80,778 |
| `linked_list` | 2 lists, 4 nodes | `TypeOK`, `WellFormed`, `ImplementsDeques` | 6,301 |
| `heap` | 71 bytes, requests of 0, 1, 5, 16 | `TypeOK`, `BlocksDisjoint`, `HeldIsAllocated`, `FullyMerged` | 56,773 |
| `boot_memory` | 4 GB, as the Makefile runs it; 10 frames held | `ReservedKept`, `HeldMarked` | 131 |
| `boot_heap` | 4 GB | `HeapUnshared`: violated | |
| `boot_small` | 128 MB | `ReservedKept`: violated | |
| `vterm` | 2 x 2 cells, every call, and typing of three letters and backspace | `TypeOK`, `HardwareCursor`, `BlankAhead`, `StreamShows`, `ImplementsTypewriter` | 61,570 |
| `console` | 2 rows of 1 cell, every kind of key, 2 bytes waiting, panic | `CaughtUp`, `CursorOnScreen`, `PanicReadable` | 378,624 |
| `vmm` | 3 processes, 2 callers, 10 memories of 5 to 22 frames, 2 words of a table under the heap | `TlbCoherent`, `NoStrayEntry`, `Private`, `OnlyLastMissing`, `ImplementsSpaces` | 22,982 |
| `kernel` | 2 processes and idle, 2 levels, 2 lines, 7 vectors | `HandlerFound`, `RunsClean`, `StacksBalanced`, `SwitchesApart`, `TicksArrive`, `KeysRead`, `ProcessesRun` | 25,312 |

Every run but the two marked ones passes. What they show:

* **Scheduler.** A PCB is linked in exactly the list that its state and priority
  name, through demotion, promotion, blocking and wake-up; a slice is never
  decremented past its end and never belongs to another level; with two or more
  processes no context switch goes from a PCB to itself; no ready process starves,
  even when two others block and wake so as to stay on the top level; in the kernel
  as it is every created process runs again and again.
* **Lists.** Every sequence of calls keeps the rings well formed in both directions
  and behaves as a set of double-ended queues; the scheduler's loops, pointer by
  pointer, implement the sequences of Sched.
* **Heap.** No call gives out memory that somebody holds or that lies outside the
  heap, and no two free neighbours remain.
* **Boot.** With the memory the Makefile gives the machine, no reservation in the
  bitmap is lost. Two runs end in a violation, where the memory map in
  `src/src/include/arch/i386/memory/paging.h` says otherwise:
  - `boot_heap`: the map shows the kernel heap, from a page-aligned start, as
    managed by `kmalloc` alone. `pmm_init` rounds the reserved frames down and
    reserves nothing for the heap, so the kernel's directory and page tables (frames
    0x417 to 0x419) lie in the memory that `kmalloc_init` takes over at 0x417FF0:
    the heap's first header is entries 1020 to 1022 of the directory and the blocks
    after it are entries of the first page table.
  - `boot_small`: the map shows the memory below 4 MB as reserved. With 128 MB or
    less the bitmap is smaller than a frame, the directory is placed on it and
    cleared, and frame 2 is handed out next. From the size at which the bitmap
    fills a frame on, this is proved not to happen (section 4).
* **Virtual memory.** With memory that ends in the creation of each of three
  processes: cached translations agree with the tables; address spaces share nothing
  but the kernel's two tables; processes and callers find their own words whatever
  happens around them; and when a creation fails without a fault it is the last one.
  That the heap lies over the kernel's tables harms none of this. `NoStrayEntry`
  holds from the first `kmalloc` on, and only then: between `kmalloc_init` and
  `sched_init` the directory has two present words that are no entries, for pages
  nobody touches. Afterwards no present word in a directory in use, or in a table
  that `vmm.c` made, is anything but an entry, and the search for a free page never
  reaches the words of the heap, which look like free places in the directory. Of
  the first page table the property says nothing: words of it are heap.
* **Kernel.** Every vector finds its handler although the tables overlap. Code that
  can be interrupted runs with interrupts enabled, nothing in service, and on the
  stack of the scheduler's current process. With every process created each switch
  resumes what the process left, also when a tick interrupts its very start. The
  fairness Sched assumes of the timer follows from that of the CPU and the PIC
  (`TicksArrive`), so `EveryProcessRuns` is about the machine; `ProcessesRun` says
  the same end to end: a process executes its own code again and again. Keys are
  read although the timer is more urgent.
* **Terminal and console.** The cursor stays on the screen, the hardware cursor and,
  in STREAM mode, the display stay in step, and typing behaves as on a typewriter.
  The driver's flags follow the keyboard, and a panic at any moment leaves its
  message readable. That every byte is read, and that IRQ 1 is acknowledged on each
  path of the handler but the one that finds no byte, is a matter of Kernel
  (`KeysRead`, `RunsClean`).

*Bounds.* `sched_kernel` uses the kernel's own constants and is exhaustive for it.
The runs with blocking shrink slices and threshold and keep what matters: at least
three levels, slices of at least two ticks (a shorter one would never age anybody)
and a threshold longer than the slices. Four nodes and two lists give every position
in a ring (first, middle, last, alone) with a second ring to confuse it with. The
heap's end leaves room for four small blocks, the least for a run of three free
blocks between two held ones; the sizes include zero, one that just allows a split
and one that just does not. Two rows and two columns have a first and a last of
each, and a position past the end; in Console one column is enough, so that every
character wraps or scrolls. `BUFFER_MAX` = 2 holds a prefixed key. In Console and
Kernel the machine may halt, and in Vmm it may fault, so these runs do not check for
deadlock.

In `vmm` directories and tables have 12 entries, four of the directory's under the
heap, and the identity map covers the first two tables as in the code. `MEMORIES` has
every size from the least with which `paging_init` works to one frame more than the
first process needs, so that each of its allocations is once the one that fails; then
one in which the second fails, one in which the third fails and one in which all
processes and the callers' pages fit. All of it is identity-mapped. `OVERLAID` has
word 0, which the creation of a process without an address space depends on, and one
that may be odd. `CALLS_MAX` = 2
bounds the pages callers take; taken at any moment, they shift every later
allocation. In `kernel` the ranges of vectors keep the code's proportions: interrupt
vectors beyond their table, in unused entries of the system calls. A stack never
holds more than three frames (`DEPTH`), and a push beyond them would show as
derailed. `BYTES_MAX` = 2 gives a byte that arrives while another is handled.

In BootMemory at most `MAX_HELD` = 10 frames are held at a time, three of them by
the kernel; frames are taken first fit, so more of them repeat the same pattern
until memory runs out.

*Fairness.* The timer keeps interrupting: `kernel_main` unmasks IRQ 0 and nothing
masks it again. Interrupts are disabled now and then, and the PIC keeps a tick that
arrives meanwhile, so the handler's fairness is strong. Boot and a blocking call run
to their end (weak fairness). In Kernel the CPU
executes what it has begun and the timer goes on (weak fairness). It takes an
interrupt that it could take again and again, since the PIC keeps the request
(strong fairness), and an interrupt does not keep a process from the three
instructions of its start for ever (strong fairness: a tick comes every 55 ms).
`KeysRead` also assumes `TicksApart`, that now and then no tick is waiting: a
handler takes far less than the time between two ticks. The liveness of Kernel is
stated for a machine that neither panics nor derails (`[]Alive`).

## 4. The proofs

`SchedProofs` proves, for every finite set of processes, number of levels, table of
positive slices and threshold:

* `TypeCorrect`: `Spec => []TypeOK`;
* `ListsIntact`: `Spec => []OneListPerPcb`;
* `SlicesFit`: `Spec => []SliceFitsLevel`;
* `IdleKeepsCpu`: `Spec => IdleIsFinal`, an action property;
* `SwitchesGoElsewhere`: `Spec => SwitchesToAnother`, an action property, for two
  processes (`TwoProcesses`) and numbers that fit together (`Patient`);
  `KernelIsPatient` shows that those of `sched.h` do.

The assumptions are those of Sched: the idle PCB is not a process and NULL is
neither, there is a level, slices and threshold are positive, and the first slice
(the literal 40) is at most that of level 0.

The inductive invariant `IInv` is `TypeOK`, `OneListPerPcb`, `SliceFitsLevel` and
the fact that the idle PCB owns the CPU only with interrupts enabled. None of the
three is inductive alone: which list a promoted PCB is unlinked from is only known
through its priority, the sequence of a queue keeps its type only because the ageing
loop meets processes and not the idle PCB, and the new slice is right only because a
PCB in a queue has the priority of that queue. `OneListPerPcb` is split into what it
says of the ready lists, of the waiting list and of the CPU, stated as operators of
their arguments (`ReadyLists`, `WaitList`, `Owner`) so that lemmas speak of
intermediate queues: `Enqueue`, `PickNext`, `Sleep` and `Wake` say what each list
operation preserves, `AgeingLists` and `DueProperties` what the ageing loop does,
and then there is one lemma per action. `SeqFilterProofs` has the lemmas on
`Filter`, `Least` and `Distinct`; since no induction over sequences is available,
`Filter` is defined by counting and its properties follow from cardinalities.

`SwitchesToAnother` is about numbers. When the slice of a process ends it is demoted
and pushed behind its new level, so it is picked again only if the other process waits
further down. That two processes never drift that far apart is the inductive
invariant `TurnInv`: on the way down the process that waits is on the level of the
running one or on the next (`Descending`), and then both stay on the two lowest levels
(`Low`). Promotion is what could upset it, and `Patient` is the condition that it
does not: there are two levels at most, or each level has a bound on the age at which it is
reached (`WaitBound`: the slices above it, added up, stay within the threshold) and
the longest slice is no longer than the threshold, so at most one promotion falls into
it. For the kernel the bounds are 0, 40, 120 and 240 against a threshold of 600.

`KernelProofs` proves of Kernel, for every set of processes, levels, slices and
layout of the tables:

* `HandlersFound` and `KernelHandlers`: `HandlerFound`, of Isr alone and of the whole
  kernel. The word of a vector is a word of the three tables (`SlotInMemory`) and two
  vectors never have the same word (`SlotsDiffer`): an interrupt vector lands at an
  entry of `syscall_handlers` below FIRST_SYSCALL, where no registration writes.
  `IsrAssumption` says which sizes and ranges are allowed;
* `KernelSchedules`: `Spec => S!Spec`, the refinement of Sched: every step is a step
  of the scheduler or leaves it alone. `KernelListsIntact` carries what SchedProofs
  shows over to the running kernel;
* `KernelRunsClean`: `Spec => []RunsClean`;
* `KernelStackShapes`: the stack of every created process has one of three shapes;
* `KernelSwitchesApart` and `KernelStacksBalanced`: `Spec => []SwitchesApart` and
  `Spec => []StacksBalanced`, for two processes and slices that are `Patient`
  (`TakeTurns`).

`RunsClean` speaks of the code outside handlers only. Its inductive invariant
`CleanInv` adds what is in service and whose stack is used at each point of a
handler (`InService`), that interrupts are enabled exactly in interruptible code
(`FlagFits`), that both lines have their handlers once they are unmasked
(`LinesServed`, which needs `HandlerFound` to conclude that they are the ones
dispatched), and that a byte waits whenever IRQ 1 is requested or handled
(`ByteWaits`). Without the last the handler could leave by the path that sends no
EOI. There is one lemma for each group of actions: boot, entry, handling.

`StackInv` says what lies on the stack in use at each point of the code (`OwnStack`)
and that every other stack waits in one of three states (`OthersParked`): never
started, interrupted in the middle of its start, or inside the switch of a timer
handler. It is preserved as long as no switch goes from a process to itself
(`SwitchesApart`, in `BalancedIfApart`). That does not hold for every number of
processes, slices and thresholds: alone, a process is switched to itself by its first
expired slice, and then the machine derails. For the kernel's two processes it
follows from `TurnInv`, which every step of the kernel preserves because it is a step
of the scheduler (`KernelSchedules`) or none; `ApartStep` adds that between the tick
that ends a slice and its switch nothing else touches `current_pcb`.

`LinkedListProofs` proves, for every set of lists and of nodes (`AddrAssumption`:
lists, nodes and NULL are different things), `LinkedListTypeCorrect`,
`LinkedListWellFormed` and `LinkedListImplements`: `Spec => ImplementsDeques`, the
refinement of Deques with results and error codes. The inductive invariant `LinkInv`
is that for every live list a numbering of its ring exists (`Ring`: position k is
linked to k + 1 and back), that rings share no node, and that a node on none has
both pointers NULL. `PushRings`, `RemoveRings`, `InitRings`, `FreeRings` and
`DrainedRings` (the loop of `list_free`) say what each call does to the numbering
of its own list and that it leaves the others alone; `RingRead` turns a numbering
into what the mapping reads, so `PushHeadReads`, `PushTailReads` and `RemoveReads`
speak of sequences, and there is one lemma per action.

`SchedListProofs` proves, for every number of processes and levels, all slices and
every threshold (`SchedAssumption`; `AddressAssumption`: list heads, PCBs and NULL
are different things), `SchedListRings`: `Spec => []QueuesAreRings`, and
`SchedListImplements`: `Spec => ImplementsSched`. `QueuesAreRings` is not inductive:
it does not say which list a PCB is on, and a push of a linked node, or a removal
through another list, would break a ring or a counter. The invariant `ListInv` (`SchedListInvariant`) is the
shape of the data (`Scheduler`, in which the lists are rings that share no node) and
the inductive invariant of SchedProofs for what the rings read, instantiated through
the refinement mapping. The lemmas of LinkedListProofs, instantiated for the lists of
the scheduler, say what a push, a removal and a pop make a list read (`Pushed`,
`Removed`, `PickStep`), and there is one lemma per action.

The hard part is `sched_tick`, which unlinks nodes from the ring it is walking and
appends them to the one above. `Aged(k, g, V)` describes the data after the processes
of `V` were visited: each level reads the ones that stayed, then the ones that came up
from the level below, and the fields are those of Sched's `AgeTick`. `AgeNodeStep`
adds one process to `V`, `Turn` says that n rounds of the while loop have visited the
first n nodes of the queue and that the saved `next_node` is node n + 1, although the
nodes before it may be gone, and `Below` that n rounds of the for loop have visited
levels 1 to n. The while loop ends within its rounds because a queue has no more nodes
than there are processes (`QueueFits`); a promoted process is not met again because
the level it goes to has been passed (`VisitedTo`).

`MemoryProofs` proves of Heap, for every size of heap, header and request,
`HeapTypeCorrect`, `HeapBlocksDisjoint`, `HeapHeldIsAllocated` and
`HeapFullyMerged`. `BlocksDisjoint` compares neighbours; the inductive invariant
`HeapInv` compares every two blocks of the chain, so that addresses are distinct and
`kfree` finds exactly the block that `kmalloc` gave out, and it says that the blocks
held are allocated ones (`Accounts`) and no two free ones are neighbours (`Merged`).

It also proves of BootMemory `BootReservedKept` and `BootHeldMarked`.
Both have a condition, `Room`: the bits of the reserved frames and of the next three
lie before the directory that the kernel puts on the end of the bitmap, and so many
frames exist. `RoomFrom128M` shows that with the kernel's numbers the condition holds
for every memory of at least 130948 KB (modulo 4 GB, the width of
`total_ram_bytes`), which is where the bitmap begins to fill a frame; `boot_small` is
a machine below that. The invariant `FramesInv` keeps the reserved marks, and the
place of the three frames between `paging_init` and `kmalloc_init`.

Of Vmm it proves, for every size of memory and tables with which the code can work
and every choice of overlaid words of reserved memory with word 0 among them
(`VmmAssumption`), every sequence of processes and every set of callers,
`CacheCoherent` (`TlbCoherent`), `NoStrayEntries` (`NoStrayEntry`), `SpacesPrivate`
(`Private`), `LastMissing` (`OnlyLastMissing`) and `SpacesImplemented`:
`VmmSpec => ImplementsSpaces`. `CALLS_MAX` plays no part in the proofs. All five
follow from one invariant, `VmmInv` (`VmmInvariant`). It says that either nothing has
happened since `kmalloc_init`, when the tables are not in order and no page is asked
for, or:

* `Good`: the tables of the kernel are in order. There is a map `pl` from frames to
  places such that every entry of the kernel's directory and tables above the
  identity map refers to a used frame whose place is that entry. So no two entries
  share a frame, and a page is never one of the tables that map it. The words of
  the heap in the directory, and page NULL, are not present. Only
  translations of pages above the identity map are cached, and they agree with the
  tables;
* every ready process has its address space (`SpaceAt`): its directory and table are
  in pages of the kernel, its program and stack in frames that no table of the kernel
  refers to (`Loose`), and all four have exactly the words they should;
* every caller's page is mapped and full of the caller's words (`HeldAt`);
* a creation that failed has left no free frame and no process follows it
  (`FailedLast`), and processes are created in the order of kernel_main.

`TlbCoherent` alone is not inductive: a store through a cached translation could hit
the very table the translation came from. It cannot because of `pl`. That the words
of the heap stay out of use rests on a count (`SlotExists`): there are fewer frames
than pages below them, so the first free page `vmm_get_new_page` finds is never in
them; and writing them changes no translation (`HeapStep`). Inside a call the
invariant is broken on purpose (a frame is in use before an entry refers to it, a
directory is half built), so the lemmas speak of machines and not of variables:
`Step(x, z, N, W, Q)` says what a piece of code leaves alone, that only the frames `W`
were written and the pages `Q` unmapped, and there is one lemma or more for each
function, on each of its paths: no frame left at the first or second allocation, a
table made or found. `Panics`, `Fails` and `Creates` are the three things `create_pcb` can come
to. A step of a caller
or of a running process only writes frames that belong to nobody else, and that is
what both `Private` and the mapping to Spaces need.

`VtermOpsProofs` and `TerminalProofs` prove, for every screen of fewer than 65536 cells
and every set of characters, colours and texts, `VtermTypeCorrect`,
`VtermHardwareCursor`, `VtermStreamShows`, `VtermBlankAhead` and `VtermImplements`:
`Spec => ImplementsTypewriter`. A call leaves the cursor on the screen, but in the
middle of one a full line has put it a row below, so `Raw` is the type inside a
function and `Terminal` the one between two; `Kept` is what a call promises of the
data before and after, and there is one lemma per function of `vterm.c`. The loop of
`vterm_write` is treated by an induction over a set of numbers. For the typist the
screen is one line of cells (`Place`, `Index`): `Types` and `Erased` say what a
letter and a backspace do to that line, whichever wraps and scrolls they cause; that
the cells at and after the cursor are blank (`Ahead`) is inductive because of them,
and so is the mapping to a step of Typewriter.

`TerminalProofs` also proves `ConsoleCaughtUp`, `ConsoleCursorOnScreen` and
`ConsolePanicReadable`. Its assumptions are on the tables: scancodes are 1 to 127
except 96 (whose release would be the prefix 0xE0), and the lines of the panic screen
have rows of their own, fit on them and contain no control characters. `DriverInv`
relates the flags of the driver to the bytes still waiting and to the keys held. The
panic screen needs what `Put` and `Written` say: a line that fits goes to its own
row, and the lines after it do not overwrite it.

Two facts about the prover shape the proofs. Its induction theorems take an operator,
which no backend can instantiate, so `SetInduction` in SeqFilterProofs is about a
set. And a CHOOSE is only ever used after a step that shows that what it chooses
exists.

Only model-checked: liveness (`ReadyRuns`, `EveryProcessRuns`, `TicksArrive`, `KeysRead`,
`ProcessesRun`), which the prover cannot treat.

## 5. Not modelled

* GDT: constant table written once. Of the IDT Kernel has the type of the gates.
* The failed multiboot check, which prints a letter and halts.
* `rw` bits of page table entries: all code runs in ring 0 with CR0.WP clear, where
  they forbid nothing.
* Programs of more than one page, and more than about 250 processes: the first would
  be overlaid by the stack, the second use physical addresses beyond the identity
  map as pointers. The kernel has three programs of less than 100 bytes.
* Of the heap over the page tables: memories whose bitmap does not end 16 bytes before
  the end of a frame, with other words of the heap in the directory, or none; and the
  contents of the heap as a heap, which is Heap.
* Calls of `sched_block_process` and `sched_unblock_process` by code that does not keep
  interrupts disabled in between, and `list_remove_node` on a list the node is not in:
  `sched.c` and `list.c` check neither. The first two have no caller in the kernel, and
  Sched assumes the only protocol under which they work; of the third, SchedList has
  every call that `sched.c` makes, and one on the wrong list would break
  `QueuesAreRings`.
* `pic_set_irq_mask`, `read_cr3`, `write_cr3`: no caller.
* `kmemset`, `kmemcpy` byte by byte (Vmm has them for whole pages), `kstring.c`,
  `io.c`, the text of messages, digits of numbers: data without control.

## 6. Plan

Done: Sched, ListOps, LinkedList, SchedList, Heap, BootMemory, Vterm, Console, Vmm,
Isr, Kernel; the proofs of the scheduler, the handler tables, the stacks and
switches, the lists with their refinement, the heap, the frames of the boot, the page
tables and address spaces with their refinement, the terminal with its refinement,
the console, and the refinement from SchedList to Sched. Nothing of the plan is left.
