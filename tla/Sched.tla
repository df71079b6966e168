------------------------------- MODULE Sched -------------------------------
(***************************************************************************)
(* The process scheduler of src/src/kernel/proc/sched.c: a multi-level     *)
(* feedback queue (MLFQ) driven by the timer interrupt, as kernel_main     *)
(* starts it (src/src/kernel/kernel.c).                                    *)
(*                                                                         *)
(* A process control block (PCB) is known by its name.  The intrusive      *)
(* lists are sequences of PCBs; module SchedList models them by their      *)
(* next/prev pointers and is proved to implement this module.              *)
(*                                                                         *)
(* Every function below runs with interrupts disabled (the boot code       *)
(* before sti, or a handler entered through an interrupt gate), so each is *)
(* one atomic step.  The timer handler acknowledges the PIC on every path  *)
(* (pic_send_eoi, before it switches), so the interrupt controller is in   *)
(* the same state after a step as before it.                               *)
(***************************************************************************)
EXTENDS Integers, Sequences, FiniteSets, SeqFilter

CONSTANTS
  Proc,             \* the processes kernel_main creates (p1, p2)
  Idle,             \* scheduler.idle_pcb
  NULL,             \* the null pointer
  MLFQ_LEVELS,      \* number of priority queues
  MLFQ_QUANTUMS,    \* time slice of each level, in ticks
  AGE_TICK_MAX,     \* ticks waited before a promotion
  FIRST_QUANTUM,    \* the literal 40 of create_pcb
  Blocking          \* processes whose code makes blocking calls

Level == 0 .. MLFQ_LEVELS - 1
PCB   == Proc \cup {Idle}

ASSUME ProcAssumption  == IsFiniteSet(Proc) /\ Idle \notin Proc /\ NULL \notin PCB
ASSUME LevelAssumption == MLFQ_LEVELS \in Nat \ {0}
ASSUME SliceAssumption == /\ MLFQ_QUANTUMS \in [Level -> Nat \ {0}]
                          /\ FIRST_QUANTUM \in 1..MLFQ_QUANTUMS[0]
ASSUME AgeAssumption   == AGE_TICK_MAX \in Nat \ {0}
ASSUME BlockAssumption == Blocking \subseteq Proc

VARIABLES
  priority_queues,    \* level |-> list of ready PCBs
  waiting_queue,      \* list of blocked PCBs
  current_pcb,        \* the PCB that owns the CPU, NULL before the first tick
  state,              \* pcb->state
  priority,           \* pcb->priority
  quantum_remaining,  \* pcb->quantum_remaining
  age_ticks,          \* pcb->age_ticks
  irq_on              \* interrupts are enabled (kernel_main has executed sti)

sched == <<priority_queues, waiting_queue, current_pcb>>
pcb   == <<state, priority, quantum_remaining, age_ticks>>
vars  == <<sched, pcb, irq_on>>

-----------------------------------------------------------------------------
(* Boot: sched_init, create_pcb and sched_enqueue, called by kernel_main.  *)

\* The state after sched_init.  create_pcb leaves the idle PCB READY and
\* nobody enqueues it.  A PCB not yet created is shown with the values that
\* create_pcb gives it and the state NEW.
Init ==
  /\ priority_queues = [l \in Level |-> <<>>]
  /\ waiting_queue = <<>>
  /\ current_pcb = NULL
  /\ state = [p \in PCB |-> IF p = Idle THEN "READY" ELSE "NEW"]
  /\ priority = [p \in PCB |-> 0]
  /\ quantum_remaining = [p \in PCB |-> FIRST_QUANTUM]
  /\ age_ticks = [p \in PCB |-> 0]
  /\ irq_on = FALSE

\* A slip for sched_enqueue: list_push_head where list_push_tail is meant.
EnqueueAtHead(queues, l, p) == [queues EXCEPT ![l] = <<p>> \o @]

\* sched_enqueue of a READY PCB whose priority is l.
sched_enqueue(queues, l, p) == [queues EXCEPT ![l] = Append(@, p)]

Created == {p \in Proc : state[p] # "NEW"}

\* create_pcb succeeds and kernel_main enqueues the new process.
CreateProcess(p) ==
  /\ ~irq_on
  /\ current_pcb = NULL
  /\ state[p] = "NEW"
  /\ state' = [state EXCEPT ![p] = "READY"]
  /\ priority_queues' = sched_enqueue(priority_queues, priority[p], p)
  /\ UNCHANGED <<waiting_queue, current_pcb, priority, quantum_remaining,
                 age_ticks, irq_on>>

\* kernel_main enables interrupts.  create_pcb returns NULL when no frame is
\* left for the stack, and sched_enqueue ignores NULL.  Frames are never
\* given back, so the creation after a failed one faults in vmm_map_frame:
\* only the last process can be missing when the kernel gets this far.
EnableInterrupts ==
  /\ ~irq_on
  /\ current_pcb = NULL
  /\ Cardinality(Proc \ Created) <= 1
  /\ irq_on' = TRUE
  /\ UNCHANGED <<sched, pcb>>

-----------------------------------------------------------------------------
(* sched_pick_next_process                                                 *)

NonEmpty(queues) == {l \in Level : queues[l] # <<>>}

\* A slip for NextPcb: the loop gives up after the first queue.
NextOfTopQueue(queues) == IF queues[0] = <<>> THEN Idle ELSE Head(queues[0])

\* The PCB at the head of the first non-empty queue, else the idle PCB.
NextPcb(queues) ==
  IF NonEmpty(queues) = {} THEN Idle ELSE Head(queues[Least(NonEmpty(queues))])

\* queues without the PCB that was picked from them.
WithoutNext(queues) ==
  [l \in Level |-> IF NonEmpty(queues) # {} /\ l = Least(NonEmpty(queues))
                   THEN Tail(queues[l]) ELSE queues[l]]

\* Pick from the given queues and make the picked PCB the running one; st is
\* the state table the caller has already updated.
sched_pick_next_process(queues, st) ==
  /\ priority_queues' = WithoutNext(queues)
  /\ current_pcb' = NextPcb(queues)
  /\ state' = [st EXCEPT ![NextPcb(queues)] = "RUNNING"]

-----------------------------------------------------------------------------
(* sched_timer_handler: the four paths through sched_tick.                 *)

\* The first tick: no PCB owns the CPU, bootstrap_first_process starts one.
FirstTick ==
  /\ irq_on
  /\ current_pcb = NULL
  /\ sched_pick_next_process(priority_queues, state)
  /\ UNCHANGED <<waiting_queue, priority, quantum_remaining, age_ticks, irq_on>>

\* The idle PCB is charged nothing and sched_tick returns at once.
IdleTick ==
  /\ irq_on
  /\ current_pcb = Idle
  /\ UNCHANGED vars

\* A slip for Charged: the test for the idle PCB is forgotten.
ChargedOrIdle == current_pcb # NULL

\* sched_tick charges a tick to a process, not to the idle PCB.
Charged == current_pcb \in Proc

\* The level a process drops to when its time slice is used up.
Demoted(p) == IF priority[p] < MLFQ_LEVELS - 1 THEN priority[p] + 1 ELSE priority[p]

\* The slice is used up: demote, enqueue, pick the next PCB, context_switch.
ExpireTick ==
  LET p == current_pcb
      l == Demoted(p)
  IN  /\ irq_on
      /\ Charged
      /\ quantum_remaining[p] = 1
      /\ priority' = [priority EXCEPT ![p] = l]
      /\ quantum_remaining' = [quantum_remaining EXCEPT ![p] = MLFQ_QUANTUMS[l]]
      /\ sched_pick_next_process(sched_enqueue(priority_queues, l, p),
                                 [state EXCEPT ![p] = "READY"])
      /\ UNCHANGED <<waiting_queue, age_ticks, irq_on>>

\* A slip for Ageing: the loop stops one level too early.
AgeingUpper == UNION {Range(priority_queues[l]) : l \in Level \ {0, MLFQ_LEVELS - 1}}

\* The PCBs the ageing loop visits: those queued below the top level.
Ageing == UNION {Range(priority_queues[l]) : l \in Level \ {0}}

\* The visited PCBs that have now waited long enough to be promoted.
Due == {p \in Ageing : age_ticks[p] + 1 >= AGE_TICK_MAX}

\* A slip for Stay: the promoted PCBs are not unlinked.
StayLinked(l) == priority_queues[l]

\* What the loop leaves on level l, and what it moves from level l to l - 1.
\* The loop visits the levels from 1 upwards and promotes to a level it has
\* already visited, so no PCB is aged twice.
Stay(l)    == IF l = 0 THEN priority_queues[0] ELSE Filter(priority_queues[l], Proc \ Due)
Promote(l) == IF l \in Level \ {0} THEN Filter(priority_queues[l], Due) ELSE <<>>

\* A slip for Slice: a promoted PCB keeps the slice of its old level.
SliceKept(q) ==
  IF q = current_pcb THEN quantum_remaining[q] - 1 ELSE quantum_remaining[q]

\* The slice left to q after the tick: a promoted PCB gets a new one, the
\* running PCB pays one tick.
Slice(q) ==
  IF q \in Due THEN MLFQ_QUANTUMS[priority[q] - 1]
  ELSE IF q = current_pcb THEN quantum_remaining[q] - 1
  ELSE quantum_remaining[q]

\* The slice is not used up: charge the running PCB one tick and age the
\* queues.  No switch.
AgeTick ==
  /\ irq_on
  /\ Charged
  /\ quantum_remaining[current_pcb] # 1
  /\ priority_queues' = [l \in Level |-> Stay(l) \o Promote(l + 1)]
  /\ age_ticks' = [q \in PCB |-> IF q \in Due THEN 0
                                 ELSE IF q \in Ageing THEN age_ticks[q] + 1
                                 ELSE age_ticks[q]]
  /\ priority' = [q \in PCB |-> IF q \in Due THEN priority[q] - 1 ELSE priority[q]]
  /\ quantum_remaining' = [q \in PCB |-> Slice(q)]
  /\ UNCHANGED <<waiting_queue, current_pcb, state, irq_on>>

sched_timer_handler == FirstTick \/ IdleTick \/ ExpireTick \/ AgeTick

-----------------------------------------------------------------------------
(* Blocking.  No code of this commit calls sched_block_process or          *)
(* sched_unblock_process, and sched_block_process does not take the caller *)
(* off the CPU.  They are modelled under the one protocol that keeps the   *)
(* lists intact: the caller disables interrupts, blocks itself, and picks  *)
(* the next PCB and switches to it, as the timer handler does, before      *)
(* interrupts are enabled again.  Blocking is empty for the kernel as it   *)
(* is.                                                                     *)

\* The running process, with interrupts disabled, puts itself to sleep.  It
\* still owns the CPU; the idle PCB and an empty CPU are refused.
sched_block_process ==
  LET p == current_pcb
  IN  /\ irq_on
      /\ p \in Blocking
      /\ state' = [state EXCEPT ![p] = "WAITING"]
      /\ waiting_queue' = Append(waiting_queue, p)
      /\ irq_on' = FALSE
      /\ UNCHANGED <<priority_queues, current_pcb, priority, quantum_remaining, age_ticks>>

\* The caller's part: sched_pick_next_process and context_switch, whose popf
\* enables interrupts again.
SwitchAway ==
  /\ ~irq_on
  /\ current_pcb # NULL
  /\ sched_pick_next_process(priority_queues, state)
  /\ irq_on' = TRUE
  /\ UNCHANGED <<waiting_queue, priority, quantum_remaining, age_ticks>>

\* The event p waits for arrives, in an interrupt handler.
sched_unblock_process(p) ==
  /\ irq_on
  /\ state[p] = "WAITING"
  /\ waiting_queue' = Filter(waiting_queue, Proc \ {p})
  /\ state' = [state EXCEPT ![p] = "READY"]
  /\ age_ticks' = [age_ticks EXCEPT ![p] = 0]
  /\ quantum_remaining' = [quantum_remaining EXCEPT ![p] = MLFQ_QUANTUMS[priority[p]]]
  /\ priority_queues' = sched_enqueue(priority_queues, priority[p], p)
  /\ UNCHANGED <<current_pcb, priority, irq_on>>

-----------------------------------------------------------------------------
Next ==
  \/ \E p \in Proc : CreateProcess(p)
  \/ EnableInterrupts
  \/ FirstTick
  \/ IdleTick
  \/ ExpireTick
  \/ AgeTick
  \/ sched_block_process
  \/ SwitchAway
  \/ \E p \in Blocking : sched_unblock_process(p)

Spec == Init /\ [][Next]_vars

\* The boot code and a blocking call run to their end.  The timer keeps
\* interrupting: nothing masks IRQ 0 after sti, and the PIC holds a tick that
\* arrives while interrupts are disabled until they are enabled again, which
\* is why its fairness is strong.
Fairness ==
  /\ WF_vars(\E p \in Proc : CreateProcess(p))
  /\ WF_vars(EnableInterrupts)
  /\ WF_vars(SwitchAway)
  /\ SF_vars(sched_timer_handler)

FairSpec == Spec /\ Fairness

-----------------------------------------------------------------------------
(* Properties.                                                             *)

States == {"NEW", "READY", "RUNNING", "WAITING"}

\* The type of every variable.
TypeOK ==
  /\ priority_queues \in [Level -> Seq(Proc)]
  /\ waiting_queue \in Seq(Proc)
  /\ current_pcb \in PCB \cup {NULL}
  /\ state \in [PCB -> States]
  /\ priority \in [PCB -> Level]
  /\ quantum_remaining \in [PCB -> Nat]
  /\ age_ticks \in [PCB -> Nat]
  /\ irq_on \in BOOLEAN

\* The one sched_node of a PCB is linked into at most one list, at most once,
\* and it is the list that the PCB's state and priority name; the running PCB
\* is linked nowhere, and the only other PCB that can own the CPU is one that
\* is switching away with interrupts disabled.  This is what list_push_tail and list_remove_node rely
\* on without checking it: a second push corrupts both lists.
OneListPerPcb ==
  /\ \A l \in Level : Distinct(priority_queues[l])
  /\ Distinct(waiting_queue)
  /\ \A p \in Proc :
       /\ \A l \in Level : p \in Range(priority_queues[l])
                             <=> state[p] = "READY" /\ priority[p] = l
       /\ p \in Range(waiting_queue) <=> state[p] = "WAITING"
       /\ state[p] = "RUNNING" => current_pcb = p
       /\ current_pcb = p => state[p] = IF irq_on THEN "RUNNING" ELSE "WAITING"

\* A process always has between one tick and the whole slice of its own level
\* left: the unsigned quantum_remaining-- of sched_tick never wraps, and no
\* change of level leaves a process with the slice of another level.  An age
\* never reaches the promotion threshold outside the ageing loop.
SliceFitsLevel ==
  \A p \in Proc : /\ quantum_remaining[p] \in 1..MLFQ_QUANTUMS[priority[p]]
                  /\ age_ticks[p] < AGE_TICK_MAX

\* A context_switch goes to another PCB.  context_switch is handed the stack
\* pointer of the new PCB before it saves the one of the old PCB: if both are
\* the same PCB it resumes that process from the stack pointer of an earlier
\* switch.  The scheduler does not test for it; with two or more processes
\* the order of the queues has to rule it out.
SwitchesToAnother ==
  [][ExpireTick /\ Created = Proc => current_pcb' # current_pcb]_vars

\* The idle PCB gets the CPU only when no process is ready, and keeps it for
\* good: sched_tick never charges it and never preempts it, so a process that
\* becomes ready later does not run.
IdleIsFinal ==
  [][/\ current_pcb = Idle => current_pcb' = Idle
     /\ current_pcb' = Idle /\ current_pcb # Idle =>
          \A p \in Proc : state[p] # "READY"]_vars

\* No starvation: a ready process gets the CPU, however low its level, unless
\* the idle PCB has taken the CPU for good.
ReadyRuns ==
  \A p \in Proc : (irq_on /\ state[p] = "READY") ~> (current_pcb = p \/ current_pcb = Idle)

\* In the kernel as it is, where no process blocks, every created process runs
\* again and again.
EveryProcessRuns ==
  \A p \in Proc : (irq_on /\ state[p] # "NEW") ~> (current_pcb = p)
=============================================================================
