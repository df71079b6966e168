----------------------------- MODULE SchedList -----------------------------
(***************************************************************************)
(* The scheduler of src/src/kernel/proc/sched.c down to the pointers of    *)
(* its lists.  Each C function is a function on the scheduler's data, in   *)
(* the shape of the code: the ageing loop walks a ring while it unlinks    *)
(* nodes from it, remembering the next node before it touches the current  *)
(* one.  A loop is a function of the number of rounds.  Sched states the   *)
(* same scheduler over sequences, in closed form; ImplementsSched says     *)
(* that the two agree.                                                     *)
(***************************************************************************)
EXTENDS Integers, Sequences, FiniteSets, SeqFilter

CONSTANTS
  Proc, Idle, NULL, MLFQ_LEVELS, MLFQ_QUANTUMS, AGE_TICK_MAX, FIRST_QUANTUM,
  Blocking,        \* as in Sched
  WaitingQueue     \* the address of scheduler.waiting_queue

Level == 0 .. MLFQ_LEVELS - 1
PCB   == Proc \cup {Idle}
Lists == Level \cup {WaitingQueue}

ASSUME SchedAssumption ==
  /\ IsFiniteSet(Proc) /\ Idle \notin Proc /\ Blocking \subseteq Proc
  /\ MLFQ_LEVELS \in Nat \ {0} /\ AGE_TICK_MAX \in Nat \ {0}
  /\ MLFQ_QUANTUMS \in [Level -> Nat \ {0}] /\ FIRST_QUANTUM \in 1..MLFQ_QUANTUMS[0]
ASSUME AddressAssumption ==
  WaitingQueue \notin Level /\ Lists \cap PCB = {} /\ NULL \notin Lists \cup PCB

\* scheduler.priority_queues[i] is at address i; a PCB's sched_node is at the
\* address that names the PCB, which is what container_of computes.
L == INSTANCE ListOps WITH List <- Lists, Node <- PCB

VARIABLES
  s,        \* the scheduler and the PCBs: links, current_pcb, state, priority,
            \* quantum_remaining, age_ticks
  irq_on    \* interrupts are enabled

vars == <<s, irq_on>>

-----------------------------------------------------------------------------
sched_enqueue(k, p) ==
  CASE k.state[p] = "READY"   -> [k EXCEPT !.links = L!list_push_tail(@, k.priority[p], p)]
    [] k.state[p] = "WAITING" -> [k EXCEPT !.links = L!list_push_tail(@, WaitingQueue, p)]
    [] OTHER                  -> k

\* The queues of the levels whose counter is not zero.
NonEmpty(k) == {i \in Level : k.links.size[i] > 0}

\* The PCB next leaves queue i and becomes the running one.
Run(k, next, h) == [k EXCEPT !.links = h, !.current_pcb = next, !.state[next] = "RUNNING"]

sched_pick_next_process(k) ==
  LET i == Least(NonEmpty(k))
  IN  IF NonEmpty(k) = {} THEN Run(k, Idle, k.links)
      ELSE Run(k, L!HeadNode(k.links, i), L!list_pop_head(k.links, i))

\* The slice of p is used up: demote it and put it back in a queue.
Expire(k, p) ==
  LET l == IF k.priority[p] < MLFQ_LEVELS - 1 THEN k.priority[p] + 1 ELSE k.priority[p]
  IN  [sched_enqueue([k EXCEPT !.state[p] = "READY", !.priority[p] = l,
                               !.quantum_remaining[p] = MLFQ_QUANTUMS[l]], p)
       EXCEPT !.current_pcb = NULL]

\* One turn of the ageing loop: p, found in queue i, is one tick older.
AgeNode(k, i, p) ==
  LET up == k.priority[p] - 1
  IN  IF k.age_ticks[p] + 1 < AGE_TICK_MAX
      THEN [k EXCEPT !.age_ticks[p] = @ + 1]
      ELSE [k EXCEPT !.age_ticks[p] = 0, !.priority[p] = up,
                     !.quantum_remaining[p] = MLFQ_QUANTUMS[up],
                     !.links = L!list_push_tail(L!list_remove_node(@, i, p), up, p)]

\* The while loop over queue i: next_node is read before the node is touched.
\* It visits no PCB twice, so it ends within as many rounds as there are PCBs.
AgeRound(w, i) ==
  IF w.node = i THEN w
  ELSE [k |-> AgeNode(w.k, i, w.node), node |-> w.k.links.next[w.node]]

AgeQueue(k, i) ==
  LET round[n \in 0..Cardinality(PCB)] ==
        IF n = 0 THEN [k |-> k, node |-> k.links.next[i]] ELSE AgeRound(round[n - 1], i)
  IN  round[Cardinality(PCB)].k

\* A slip for AgeAll: the queues are visited from the lowest up, so that a
\* promoted PCB is met again in the queue above.
AgeAllUpwards(k) ==
  LET after[i \in 0..MLFQ_LEVELS - 1] ==
        IF i = 0 THEN k ELSE AgeQueue(after[i - 1], MLFQ_LEVELS - i)
  IN  after[MLFQ_LEVELS - 1]

\* The for loop over the queues below the top level.
AgeAll(k) ==
  LET after[i \in 0..MLFQ_LEVELS - 1] == IF i = 0 THEN k ELSE AgeQueue(after[i - 1], i)
  IN  after[MLFQ_LEVELS - 1]

sched_tick(k) ==
  LET p == k.current_pcb
      charged == [k EXCEPT !.quantum_remaining[p] = @ - 1]
  IN  IF p \in {NULL, Idle} THEN k
      ELSE IF charged.quantum_remaining[p] = 0 THEN Expire(charged, p)
      ELSE AgeAll(charged)

sched_timer_handler(k) ==
  LET t == sched_tick(k)
  IN  IF t.current_pcb = NULL \/ k.current_pcb = NULL THEN sched_pick_next_process(t) ELSE t

sched_block_process(k) ==
  sched_enqueue([k EXCEPT !.state[k.current_pcb] = "WAITING"], k.current_pcb)

\* A slip for sched_unblock_process: the PCB is not unlinked first.
UnblockLinked(k, p) ==
  sched_enqueue([k EXCEPT !.state[p] = "READY", !.age_ticks[p] = 0,
                          !.quantum_remaining[p] = MLFQ_QUANTUMS[k.priority[p]]], p)

sched_unblock_process(k, p) ==
  sched_enqueue([k EXCEPT !.links = L!list_remove_node(@, WaitingQueue, p),
                          !.state[p] = "READY", !.age_ticks[p] = 0,
                          !.quantum_remaining[p] = MLFQ_QUANTUMS[k.priority[p]]], p)

-----------------------------------------------------------------------------
\* The list_init calls of sched_init.
InitLists ==
  LET made[n \in 0..MLFQ_LEVELS] ==
        IF n = 0 THEN L!NoLinks ELSE L!list_init(made[n - 1], n - 1)
  IN  L!list_init(made[MLFQ_LEVELS], WaitingQueue)

\* sched_init: every list empty, nobody on the CPU.
Init ==
  /\ s = [links |-> InitLists,
          current_pcb |-> NULL,
          state |-> [p \in PCB |-> IF p = Idle THEN "READY" ELSE "NEW"],
          priority |-> [p \in PCB |-> 0],
          quantum_remaining |-> [p \in PCB |-> FIRST_QUANTUM],
          age_ticks |-> [p \in PCB |-> 0]]
  /\ irq_on = FALSE

Created == {p \in Proc : s.state[p] # "NEW"}

\* kernel_main creates and enqueues a process, then enables interrupts; at most
\* the last creation has failed (see Sched).
CreateProcess(p) ==
  /\ ~irq_on /\ s.current_pcb = NULL
  /\ s.state[p] = "NEW"
  /\ s' = sched_enqueue([s EXCEPT !.state[p] = "READY"], p)
  /\ UNCHANGED irq_on

EnableInterrupts ==
  /\ ~irq_on /\ s.current_pcb = NULL
  /\ Cardinality(Proc \ Created) <= 1
  /\ irq_on' = TRUE
  /\ UNCHANGED s

TimerInterrupt == irq_on /\ s' = sched_timer_handler(s) /\ UNCHANGED irq_on

\* A process blocks itself with interrupts disabled and switches away, and an
\* interrupt handler wakes it (see Sched).
Block == irq_on /\ s.current_pcb \in Blocking /\ s' = sched_block_process(s) /\ irq_on' = FALSE
SwitchAway ==
  /\ ~irq_on /\ s.current_pcb # NULL
  /\ s' = sched_pick_next_process(s)
  /\ irq_on' = TRUE
Unblock(p) ==
  /\ irq_on
  /\ s.state[p] = "WAITING"
  /\ s' = sched_unblock_process(s, p)
  /\ UNCHANGED irq_on

Next ==
  \/ \E p \in Proc : CreateProcess(p)
  \/ EnableInterrupts
  \/ TimerInterrupt
  \/ Block
  \/ SwitchAway
  \/ \E p \in Blocking : Unblock(p)

Spec == Init /\ [][Next]_vars

-----------------------------------------------------------------------------
(* Properties.                                                             *)

\* Every queue is a closed ring with the right counter after every handler,
\* although the ageing loop unlinks nodes from the ring it is walking and
\* pushes them on another one; and the sched_node of a PCB that is in no queue
\* has NULL pointers.
QueuesAreRings ==
  /\ \A l \in Lists : L!IsRing(s.links, l)
  /\ \A p \in PCB : s.links.next[p] = NULL <=> s.state[p] \in {"NEW", "RUNNING"} \/ p = Idle

\* The queues of the levels, read back.
Queues(h) == [l \in Level |-> L!Contents(h, l)]

S == INSTANCE Sched WITH
       priority_queues   <- Queues(s.links),
       waiting_queue     <- L!Contents(s.links, WaitingQueue),
       current_pcb       <- s.current_pcb,
       state             <- s.state,
       priority          <- s.priority,
       quantum_remaining <- s.quantum_remaining,
       age_ticks         <- s.age_ticks

\* The scheduler over pointers does what the scheduler over sequences does:
\* the loops compute the closed forms of Sched, and no call finds a list that
\* is not the queue Sched says it is.
ImplementsSched == S!Spec
=============================================================================
