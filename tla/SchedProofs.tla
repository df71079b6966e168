---------------------------- MODULE SchedProofs ----------------------------
(***************************************************************************)
(* The safety properties of Sched, for every set of processes, number of   *)
(* levels, table of slices and ageing threshold its assumptions allow.     *)
(*                                                                         *)
(* OneListPerPcb and SliceFitsLevel need each other: an unlinked PCB is    *)
(* enqueued at the level its priority names, and a promotion never takes a *)
(* level below 0 only because the PCB was found in the queue of a level    *)
(* above 0.  IInv is their conjunction with the types and with the fact    *)
(* that the idle PCB never owns the CPU with interrupts disabled.          *)
(***************************************************************************)
EXTENDS Sched, SeqFilterProofs

\* The ready lists Q agree with the state table st and the priorities pr.
ReadyLists(Q, st, pr) ==
  /\ \A l \in Level : Distinct(Q[l])
  /\ \A p \in Proc : \A l \in Level :
       p \in Range(Q[l]) <=> st[p] = "READY" /\ pr[p] = l

\* The waiting list W agrees with the state table st.
WaitList(W, st) ==
  /\ Distinct(W)
  /\ \A p \in Proc : p \in Range(W) <=> st[p] = "WAITING"

\* The owner c of the CPU agrees with the state table st.
Owner(c, st, on) ==
  /\ \A p \in Proc : /\ st[p] = "RUNNING" => c = p
                     /\ c = p => st[p] = IF on THEN "RUNNING" ELSE "WAITING"

\* Slices and ages are within their limits.
Slices(quantum, pr, age) ==
  \A p \in Proc : /\ quantum[p] \in 1..MLFQ_QUANTUMS[pr[p]]
                  /\ age[p] < AGE_TICK_MAX

IInv == /\ TypeOK
        /\ OneListPerPcb
        /\ SliceFitsLevel
        /\ current_pcb = Idle => irq_on

-----------------------------------------------------------------------------
\* OneListPerPcb and SliceFitsLevel, in terms of the operators above.
LEMMA Parts ==
  /\ OneListPerPcb <=> /\ ReadyLists(priority_queues, state, priority)
                       /\ WaitList(waiting_queue, state)
                       /\ Owner(current_pcb, state, irq_on)
  /\ SliceFitsLevel <=> Slices(quantum_remaining, priority, age_ticks)
<1>1. OneListPerPcb <=> /\ ReadyLists(priority_queues, state, priority)
                        /\ WaitList(waiting_queue, state)
                        /\ Owner(current_pcb, state, irq_on)
  BY DEF OneListPerPcb, ReadyLists, WaitList, Owner
<1>2. SliceFitsLevel <=> Slices(quantum_remaining, priority, age_ticks)
  BY DEF SliceFitsLevel, Slices
<1> QED
  BY <1>1, <1>2

\* The same for the state after a step.
LEMMA PartsPrimed ==
  /\ OneListPerPcb' <=> /\ ReadyLists(priority_queues', state', priority')
                        /\ WaitList(waiting_queue', state')
                        /\ Owner(current_pcb', state', irq_on')
  /\ SliceFitsLevel' <=> Slices(quantum_remaining', priority', age_ticks')
<1>1. OneListPerPcb' <=> /\ ReadyLists(priority_queues', state', priority')
                         /\ WaitList(waiting_queue', state')
                         /\ Owner(current_pcb', state', irq_on')
  BY DEF OneListPerPcb, ReadyLists, WaitList, Owner
<1>2. SliceFitsLevel' <=> Slices(quantum_remaining', priority', age_ticks')
  BY DEF SliceFitsLevel, Slices
<1> QED
  BY <1>1, <1>2

\* Level 0 exists and levels are numbers.
LEMMA Levels ==
  /\ 0 \in Level
  /\ Level \in SUBSET Nat
  /\ Level \in SUBSET Int
  /\ IsFiniteSet(Level)
<1>1. MLFQ_LEVELS - 1 \in Nat
  BY LevelAssumption
<1>2. IsFiniteSet(Level)
  BY <1>1, FS_Interval DEF Level
<1> QED
  BY <1>1, <1>2 DEF Level

\* sched_pick_next_process takes the head of a ready list and leaves the lists
\* in agreement with the new state table, or finds no ready process.
LEMMA PickNext ==
  ASSUME NEW Q \in [Level -> Seq(Proc)], NEW st \in [PCB -> States],
         NEW pr \in [PCB -> Level],
         ReadyLists(Q, st, pr), \A p \in Proc : st[p] # "RUNNING"
  PROVE  /\ NextPcb(Q) \in PCB
         /\ WithoutNext(Q) \in [Level -> Seq(Proc)]
         /\ ReadyLists(WithoutNext(Q), [st EXCEPT ![NextPcb(Q)] = "RUNNING"], pr)
         /\ NextPcb(Q) \in Proc => st[NextPcb(Q)] = "READY"
         /\ NextPcb(Q) = Idle => \A p \in Proc : st[p] # "READY"
<1> DEFINE n   == NextPcb(Q)
           st2 == [st EXCEPT ![n] = "RUNNING"]
<1>1. CASE NonEmpty(Q) = {}
  <2>1. n = Idle /\ WithoutNext(Q) = Q
    BY <1>1 DEF NextPcb, WithoutNext
  <2>2. \A l \in Level : Range(Q[l]) = {}
    BY <1>1 DEF NonEmpty, Range
  <2>3. \A p \in Proc : st[p] # "READY"
    BY <2>2 DEF ReadyLists, PCB
  <2>4. \A p \in Proc : st2[p] = st[p]
    BY <2>1, ProcAssumption DEF PCB
  <2>5. ReadyLists(Q, st2, pr)
    BY <2>4 DEF ReadyLists
  <2> QED
    BY <2>1, <2>3, <2>5, ProcAssumption DEF PCB
<1>2. CASE NonEmpty(Q) # {}
  <2> DEFINE m  == Least(NonEmpty(Q))
             Q2 == WithoutNext(Q)
  <2>1. m \in Level /\ Q[m] # <<>>
    <3>1. NonEmpty(Q) \in SUBSET Int /\ IsFiniteSet(NonEmpty(Q))
      BY Levels, FS_Subset DEF NonEmpty
    <3>2. m \in NonEmpty(Q)
      BY <1>2, <3>1, LeastProperties
    <3> QED
      BY <3>2 DEF NonEmpty
  <2>2. /\ n = Head(Q[m])
        /\ Q2 = [l \in Level |-> IF l = m THEN Tail(Q[l]) ELSE Q[l]]
    BY <1>2 DEF NextPcb, WithoutNext
  <2> HIDE DEF m, n, Q2
  <2>3. Distinct(Q[m])
    BY <2>1 DEF ReadyLists
  <2>4. /\ n \in Range(Q[m]) /\ n \in Proc /\ Tail(Q[m]) \in Seq(Proc)
        /\ Distinct(Tail(Q[m])) /\ Range(Tail(Q[m])) = Range(Q[m]) \ {n}
    BY <2>1, <2>2, <2>3, TailDistinct
  <2>5. st[n] = "READY" /\ pr[n] = m
    BY <2>1, <2>4 DEF ReadyLists
  <2>6. Q2 \in [Level -> Seq(Proc)]
    BY <2>1, <2>2, <2>4
  <2>7. /\ Q2[m] = Tail(Q[m])
        /\ \A l \in Level : l # m => Q2[l] = Q[l]
    BY <2>1, <2>2
  <2>8. \A p \in Proc : st2[p] = IF p = n THEN "RUNNING" ELSE st[p]
    BY DEF PCB
  <2>9. ReadyLists(Q2, st2, pr)
    <3> HIDE DEF st2
    <3>1. \A l \in Level : Distinct(Q2[l])
      BY <2>4, <2>7 DEF ReadyLists
    <3>2. ASSUME NEW p \in Proc, NEW l \in Level
          PROVE  p \in Range(Q2[l]) <=> st2[p] = "READY" /\ pr[p] = l
      <4>1. p \in Range(Q[l]) <=> st[p] = "READY" /\ pr[p] = l
        BY DEF ReadyLists
      <4>2. CASE l = m
        BY <2>4, <2>7, <2>8, <4>1, <4>2
      <4>3. CASE l # m
        BY <2>5, <2>7, <2>8, <4>1, <4>3
      <4> QED
        BY <4>2, <4>3
    <3> QED
      BY <3>1, <3>2 DEF ReadyLists
  <2> QED
    BY <2>2, <2>4, <2>5, <2>6, <2>9, ProcAssumption DEF PCB, n, Q2
<1> QED
  BY <1>1, <1>2

\* Enqueueing a PCB that is on no list, at the level its priority names.
LEMMA Enqueue ==
  ASSUME NEW Q \in [Level -> Seq(Proc)], NEW st \in [PCB -> States],
         NEW pr \in [PCB -> Level], NEW p \in Proc, NEW l \in Level,
         ReadyLists(Q, st, pr), st[p] # "READY"
  PROVE  /\ sched_enqueue(Q, l, p) \in [Level -> Seq(Proc)]
         /\ ReadyLists(sched_enqueue(Q, l, p),
                       [st EXCEPT ![p] = "READY"], [pr EXCEPT ![p] = l])
<1> DEFINE Q2  == sched_enqueue(Q, l, p)
           st2 == [st EXCEPT ![p] = "READY"]
           pr2 == [pr EXCEPT ![p] = l]
<1>1. \A k \in Level : p \notin Range(Q[k])
  BY DEF ReadyLists
<1>2. /\ Append(Q[l], p) \in Seq(Proc)
      /\ Range(Append(Q[l], p)) = Range(Q[l]) \cup {p}
      /\ Distinct(Append(Q[l], p))
  BY <1>1, AppendDistinct DEF ReadyLists
<1>3. /\ Q2[l] = Append(Q[l], p)
      /\ \A k \in Level : k # l => Q2[k] = Q[k]
  BY DEF sched_enqueue
<1>4. Q2 \in [Level -> Seq(Proc)]
  BY <1>2 DEF sched_enqueue
<1>5. /\ st2[p] = "READY" /\ pr2[p] = l
      /\ \A q \in Proc : q # p => st2[q] = st[q] /\ pr2[q] = pr[q]
  BY DEF PCB
<1> HIDE DEF Q2, st2, pr2
<1>6. \A k \in Level : Distinct(Q2[k])
  BY <1>2, <1>3 DEF ReadyLists
<1>7. ASSUME NEW q \in Proc, NEW k \in Level
      PROVE  q \in Range(Q2[k]) <=> st2[q] = "READY" /\ pr2[q] = k
  <2>1. q \in Range(Q[k]) <=> st[q] = "READY" /\ pr[q] = k
    BY DEF ReadyLists
  <2>2. CASE k = l
    BY <1>1, <1>2, <1>3, <1>5, <2>1, <2>2
  <2>3. CASE k # l
    BY <1>1, <1>3, <1>5, <2>1, <2>3
  <2> QED
    BY <2>2, <2>3
<1>8. ReadyLists(Q2, st2, pr2)
  BY <1>6, <1>7 DEF ReadyLists
<1> QED
  BY <1>4, <1>8 DEF Q2, st2, pr2

\* A waiting list that gains a PCB going to sleep.
LEMMA Sleep ==
  ASSUME NEW W \in Seq(Proc), NEW st \in [PCB -> States], NEW p \in Proc,
         WaitList(W, st), st[p] # "WAITING"
  PROVE  /\ Append(W, p) \in Seq(Proc)
         /\ WaitList(Append(W, p), [st EXCEPT ![p] = "WAITING"])
<1>1. p \notin Range(W)
  BY DEF WaitList
<1>2. /\ Append(W, p) \in Seq(Proc)
      /\ Range(Append(W, p)) = Range(W) \cup {p}
      /\ Distinct(Append(W, p))
  BY <1>1, AppendDistinct DEF WaitList
<1> QED
  BY <1>2 DEF WaitList, PCB

\* A waiting list that loses a PCB being woken.
LEMMA Wake ==
  ASSUME NEW W \in Seq(Proc), NEW st \in [PCB -> States], NEW p \in Proc,
         WaitList(W, st)
  PROVE  /\ Filter(W, Proc \ {p}) \in Seq(Proc)
         /\ WaitList(Filter(W, Proc \ {p}), [st EXCEPT ![p] = "READY"])
<1>1. /\ Filter(W, Proc \ {p}) \in Seq(Proc)
      /\ Range(Filter(W, Proc \ {p})) = Range(W) \cap (Proc \ {p})
      /\ Distinct(Filter(W, Proc \ {p}))
  BY FilterProperties DEF WaitList
<1> QED
  BY <1>1 DEF WaitList, PCB

-----------------------------------------------------------------------------
LEMMA InitIInv == Init => IInv
<1> SUFFICES ASSUME Init PROVE IInv
  OBVIOUS
<1> USE DEF Init
<1>1. /\ \A l \in Level : Range(priority_queues[l]) = {} /\ Distinct(priority_queues[l])
      /\ Range(waiting_queue) = {} /\ Distinct(waiting_queue)
  BY DEF Range, Distinct
<1>2. /\ FIRST_QUANTUM \in Nat /\ FIRST_QUANTUM \in 1..MLFQ_QUANTUMS[0]
      /\ AGE_TICK_MAX \in Nat /\ 0 < AGE_TICK_MAX
  BY SliceAssumption, AgeAssumption, Levels
<1>3. TypeOK
  <2>1. <<>> \in Seq(Proc)
    BY EmptySeq
  <2>2. priority_queues \in [Level -> Seq(Proc)] /\ waiting_queue \in Seq(Proc)
    BY <2>1
  <2>3. state \in [PCB -> States] /\ irq_on \in BOOLEAN /\ current_pcb \in PCB \cup {NULL}
    BY DEF States
  <2>4. /\ priority \in [PCB -> Level]
        /\ quantum_remaining \in [PCB -> Nat] /\ age_ticks \in [PCB -> Nat]
    BY <1>2, Levels
  <2> QED
    BY <2>2, <2>3, <2>4 DEF TypeOK
<1>4. NULL # Idle /\ \A p \in Proc : p \in PCB /\ p # Idle /\ p # NULL
  BY ProcAssumption DEF PCB
<1>5. OneListPerPcb
  BY <1>1, <1>4 DEF OneListPerPcb
<1>6. SliceFitsLevel
  BY <1>2, <1>4 DEF SliceFitsLevel
<1> QED
  BY <1>3, <1>4, <1>5, <1>6 DEF IInv

LEMMA CreateProcessIInv ==
  ASSUME IInv, NEW p \in Proc, CreateProcess(p)
  PROVE  IInv'
<1> USE DEF CreateProcess
<1>0. p \in PCB /\ p # Idle /\ p # NULL
  BY ProcAssumption DEF PCB
<1>1. TypeOK /\ OneListPerPcb /\ SliceFitsLevel /\ priority[p] \in Level
  BY <1>0 DEF IInv, TypeOK
<1>2. /\ priority_queues' \in [Level -> Seq(Proc)]
      /\ ReadyLists(priority_queues', state', [priority EXCEPT ![p] = priority[p]])
  BY <1>1, Parts, Enqueue DEF TypeOK
<1>3. [priority EXCEPT ![p] = priority[p]] = priority
  BY <1>1 DEF TypeOK
<1>4. WaitList(waiting_queue, state')
  BY <1>0, <1>1, Parts DEF WaitList, TypeOK
<1>5. Owner(current_pcb, state', irq_on)
  BY <1>0, <1>1, Parts, ProcAssumption DEF Owner, TypeOK, PCB
<1>6. TypeOK'
  BY <1>1, <1>2 DEF TypeOK, States
<1>7. OneListPerPcb' /\ SliceFitsLevel'
  BY <1>1, <1>2, <1>3, <1>4, <1>5, Parts, PartsPrimed
<1> QED
  BY <1>6, <1>7 DEF IInv

LEMMA EnableInterruptsIInv ==
  ASSUME IInv, EnableInterrupts
  PROVE  IInv'
<1>1. TypeOK'
  BY DEF IInv, TypeOK, EnableInterrupts, sched, pcb
<1>2. Owner(current_pcb', state', irq_on')
  BY Parts, ProcAssumption DEF IInv, Owner, EnableInterrupts, sched, pcb, PCB
<1>3. OneListPerPcb' /\ SliceFitsLevel'
  BY <1>2, Parts, PartsPrimed DEF IInv, EnableInterrupts, sched, pcb
<1> QED
  BY <1>1, <1>3 DEF IInv, EnableInterrupts

\* A step that picks the next PCB when no process is marked RUNNING, and ends
\* with interrupts enabled.
LEMMA PickIInv ==
  ASSUME NEW Q \in [Level -> Seq(Proc)], NEW st \in [PCB -> States],
         sched_pick_next_process(Q, st), irq_on' = TRUE,
         waiting_queue' = waiting_queue, waiting_queue \in Seq(Proc),
         priority' \in [PCB -> Level], quantum_remaining' \in [PCB -> Nat],
         age_ticks' \in [PCB -> Nat],
         ReadyLists(Q, st, priority'), WaitList(waiting_queue, st),
         \A p \in Proc : st[p] # "RUNNING",
         Slices(quantum_remaining', priority', age_ticks')
  PROVE  IInv'
<1> DEFINE n == NextPcb(Q)
<1>1. /\ n \in PCB
      /\ WithoutNext(Q) \in [Level -> Seq(Proc)]
      /\ ReadyLists(WithoutNext(Q), [st EXCEPT ![n] = "RUNNING"], priority')
      /\ n \in Proc => st[n] = "READY"
  BY PickNext
<1>2. /\ priority_queues' = WithoutNext(Q) /\ current_pcb' = n
      /\ state' = [st EXCEPT ![n] = "RUNNING"]
  BY DEF sched_pick_next_process
<1> HIDE DEF n
<1>3. \A p \in Proc : state'[p] = IF p = n THEN "RUNNING" ELSE st[p]
  BY <1>2 DEF PCB
<1>4. state' \in [PCB -> States]
  BY <1>1, <1>2 DEF States
<1>5. TypeOK'
  BY <1>1, <1>2, <1>4 DEF TypeOK
<1>6. WaitList(waiting_queue', state')
  BY <1>1, <1>3 DEF WaitList
<1>7. Owner(current_pcb', state', irq_on')
  BY <1>2, <1>3 DEF Owner
<1>8. OneListPerPcb' /\ SliceFitsLevel'
  BY <1>1, <1>2, <1>6, <1>7, PartsPrimed
<1> QED
  BY <1>5, <1>8 DEF IInv

\* With interrupts disabled, or before the first tick, no process is RUNNING.
LEMMA NobodyRuns ==
  ASSUME IInv, ~irq_on \/ current_pcb = NULL
  PROVE  \A p \in Proc : state[p] # "RUNNING"
<1>1. Owner(current_pcb, state, irq_on)
  BY Parts DEF IInv
<1> QED
  BY <1>1, ProcAssumption DEF Owner, PCB

LEMMA FirstTickIInv ==
  ASSUME IInv, FirstTick
  PROVE  IInv'
<1>1. \A p \in Proc : state[p] # "RUNNING"
  BY NobodyRuns DEF FirstTick
<1>2. /\ priority_queues \in [Level -> Seq(Proc)] /\ state \in [PCB -> States]
      /\ waiting_queue \in Seq(Proc) /\ priority \in [PCB -> Level]
      /\ quantum_remaining \in [PCB -> Nat] /\ age_ticks \in [PCB -> Nat]
  BY DEF IInv, TypeOK
<1>3. /\ ReadyLists(priority_queues, state, priority)
      /\ WaitList(waiting_queue, state)
      /\ Slices(quantum_remaining, priority, age_ticks)
  BY Parts DEF IInv
<1> QED
  BY <1>1, <1>2, <1>3, PickIInv DEF FirstTick

LEMMA SwitchAwayIInv ==
  ASSUME IInv, SwitchAway
  PROVE  IInv'
<1>1. \A p \in Proc : state[p] # "RUNNING"
  BY NobodyRuns DEF SwitchAway
<1>2. /\ priority_queues \in [Level -> Seq(Proc)] /\ state \in [PCB -> States]
      /\ waiting_queue \in Seq(Proc) /\ priority \in [PCB -> Level]
      /\ quantum_remaining \in [PCB -> Nat] /\ age_ticks \in [PCB -> Nat]
  BY DEF IInv, TypeOK
<1>3. /\ ReadyLists(priority_queues, state, priority)
      /\ WaitList(waiting_queue, state)
      /\ Slices(quantum_remaining, priority, age_ticks)
  BY Parts DEF IInv
<1> QED
  BY <1>1, <1>2, <1>3, PickIInv DEF SwitchAway

\* A stuttering step, which is what IdleTick is.
LEMMA StutterIInv ==
  ASSUME IInv, UNCHANGED vars
  PROVE  IInv'
<1>1. TypeOK'
  BY DEF IInv, TypeOK, vars, sched, pcb
<1>2. OneListPerPcb' /\ SliceFitsLevel'
  BY Parts, PartsPrimed DEF IInv, vars, sched, pcb
<1> QED
  BY <1>1, <1>2 DEF IInv, vars, sched

LEMMA ExpireTickIInv ==
  ASSUME IInv, ExpireTick
  PROVE  IInv'
<1> DEFINE p   == current_pcb
           l   == Demoted(p)
           Q   == sched_enqueue(priority_queues, l, p)
           st  == [state EXCEPT ![p] = "READY"]
<1>1. /\ irq_on /\ p \in Proc
      /\ priority' = [priority EXCEPT ![p] = l]
      /\ quantum_remaining' = [quantum_remaining EXCEPT ![p] = MLFQ_QUANTUMS[l]]
      /\ sched_pick_next_process(Q, st)
      /\ waiting_queue' = waiting_queue /\ age_ticks' = age_ticks /\ irq_on' = irq_on
  BY DEF ExpireTick, Charged
<1> HIDE DEF p
<1>2. /\ priority_queues \in [Level -> Seq(Proc)] /\ state \in [PCB -> States]
      /\ waiting_queue \in Seq(Proc) /\ priority \in [PCB -> Level]
      /\ quantum_remaining \in [PCB -> Nat] /\ age_ticks \in [PCB -> Nat]
      /\ irq_on = TRUE
  BY <1>1 DEF IInv, TypeOK
<1>3. /\ ReadyLists(priority_queues, state, priority)
      /\ WaitList(waiting_queue, state)
      /\ Owner(current_pcb, state, irq_on)
      /\ Slices(quantum_remaining, priority, age_ticks)
  BY Parts DEF IInv
<1>4. p \in PCB /\ priority[p] \in Level
  BY <1>1, <1>2 DEF PCB
<1>5. l \in Level
  BY <1>4, LevelAssumption DEF Demoted, Level
<1>6. state[p] = "RUNNING" /\ \A q \in Proc : state[q] = "RUNNING" => q = p
  BY <1>1, <1>2, <1>3 DEF Owner, p
<1> HIDE DEF l
<1>7. Q \in [Level -> Seq(Proc)] /\ ReadyLists(Q, st, priority')
  BY <1>1, <1>2, <1>3, <1>5, <1>6, Enqueue
<1>8. /\ st \in [PCB -> States]
      /\ \A q \in Proc : st[q] = IF q = p THEN "READY" ELSE state[q]
  BY <1>2, <1>4 DEF States, PCB
<1> HIDE DEF Q, st
<1>9. WaitList(waiting_queue, st)
  BY <1>3, <1>6, <1>8 DEF WaitList
<1>10. \A q \in Proc : st[q] # "RUNNING"
  BY <1>6, <1>8
<1>11. MLFQ_QUANTUMS[l] \in Nat \ {0}
  BY <1>5, SliceAssumption
<1>12. priority' \in [PCB -> Level] /\ quantum_remaining' \in [PCB -> Nat]
  BY <1>1, <1>2, <1>5, <1>11
<1>13. Slices(quantum_remaining', priority', age_ticks')
  <2> SUFFICES ASSUME NEW q \in Proc
               PROVE  /\ quantum_remaining'[q] \in 1..MLFQ_QUANTUMS[priority'[q]]
                      /\ age_ticks'[q] < AGE_TICK_MAX
    BY DEF Slices
  <2>1. q \in PCB
    BY DEF PCB
  <2>2. CASE q = p
    BY <1>1, <1>2, <1>3, <1>11, <2>1, <2>2 DEF Slices
  <2>3. CASE q # p
    BY <1>1, <1>2, <1>3, <2>1, <2>3 DEF Slices
  <2> QED
    BY <2>2, <2>3
<1> QED
  BY <1>1, <1>2, <1>7, <1>8, <1>9, <1>10, <1>12, <1>13, PickIInv

LEMMA BlockIInv ==
  ASSUME IInv, sched_block_process
  PROVE  IInv'
<1> DEFINE p == current_pcb
<1>1. /\ irq_on /\ p \in Proc
      /\ state' = [state EXCEPT ![p] = "WAITING"]
      /\ waiting_queue' = Append(waiting_queue, p)
      /\ irq_on' = FALSE
      /\ UNCHANGED <<priority_queues, current_pcb, priority, quantum_remaining, age_ticks>>
  BY BlockAssumption DEF sched_block_process
<1>2. p \in PCB /\ p # Idle
  BY <1>1, ProcAssumption DEF PCB
<1>3. /\ ReadyLists(priority_queues, state, priority)
      /\ WaitList(waiting_queue, state)
      /\ Owner(current_pcb, state, irq_on)
      /\ Slices(quantum_remaining, priority, age_ticks)
      /\ TypeOK
  BY Parts DEF IInv
<1>4. state[p] = "RUNNING" /\ \A q \in Proc : state[q] = "RUNNING" => q = p
  BY <1>1, <1>3 DEF Owner
<1>5. \A q \in Proc : state'[q] = IF q = p THEN "WAITING" ELSE state[q]
  BY <1>1, <1>3 DEF TypeOK, PCB
<1>6. waiting_queue' \in Seq(Proc) /\ WaitList(waiting_queue', state')
  BY <1>1, <1>3, <1>4, Sleep DEF TypeOK
<1>7. ReadyLists(priority_queues', state', priority')
  BY <1>1, <1>3, <1>4, <1>5 DEF ReadyLists
<1>8. Owner(current_pcb', state', irq_on')
  BY <1>1, <1>4, <1>5 DEF Owner
<1>9. state' \in [PCB -> States]
  BY <1>1, <1>3 DEF TypeOK, States
<1>10. TypeOK'
  BY <1>1, <1>3, <1>6, <1>9 DEF TypeOK
<1>11. OneListPerPcb' /\ SliceFitsLevel'
  BY <1>1, <1>3, <1>6, <1>7, <1>8, PartsPrimed
<1> QED
  BY <1>1, <1>2, <1>10, <1>11 DEF IInv

LEMMA UnblockIInv ==
  ASSUME IInv, NEW p \in Proc, sched_unblock_process(p)
  PROVE  IInv'
<1>1. /\ irq_on /\ state[p] = "WAITING"
      /\ waiting_queue' = Filter(waiting_queue, Proc \ {p})
      /\ state' = [state EXCEPT ![p] = "READY"]
      /\ age_ticks' = [age_ticks EXCEPT ![p] = 0]
      /\ quantum_remaining' = [quantum_remaining EXCEPT ![p] = MLFQ_QUANTUMS[priority[p]]]
      /\ priority_queues' = sched_enqueue(priority_queues, priority[p], p)
      /\ UNCHANGED <<current_pcb, priority, irq_on>>
  BY DEF sched_unblock_process
<1>2. p \in PCB
  BY DEF PCB
<1>3. /\ ReadyLists(priority_queues, state, priority)
      /\ WaitList(waiting_queue, state)
      /\ Owner(current_pcb, state, irq_on)
      /\ Slices(quantum_remaining, priority, age_ticks)
      /\ TypeOK
  BY Parts DEF IInv
<1>4. priority[p] \in Level /\ [priority EXCEPT ![p] = priority[p]] = priority
  BY <1>2, <1>3 DEF TypeOK
<1>5. priority_queues' \in [Level -> Seq(Proc)] /\ ReadyLists(priority_queues', state', priority')
  <2>1. /\ priority_queues \in [Level -> Seq(Proc)] /\ state \in [PCB -> States]
        /\ priority \in [PCB -> Level]
    BY <1>3 DEF TypeOK
  <2>2. /\ priority_queues' \in [Level -> Seq(Proc)]
        /\ ReadyLists(priority_queues', state', [priority EXCEPT ![p] = priority[p]])
    BY <1>1, <1>3, <1>4, <2>1, Enqueue
  <2> QED
    BY <1>1, <1>4, <2>2
<1>6. waiting_queue' \in Seq(Proc) /\ WaitList(waiting_queue', state')
  BY <1>1, <1>3, Wake DEF TypeOK
<1>7. \A q \in Proc : state'[q] = IF q = p THEN "READY" ELSE state[q]
  BY <1>1, <1>3 DEF TypeOK, PCB
<1>8. Owner(current_pcb', state', irq_on')
  BY <1>1, <1>3, <1>7 DEF Owner
<1>9. MLFQ_QUANTUMS[priority[p]] \in Nat \ {0}
  BY <1>4, SliceAssumption
<1>10. /\ state' \in [PCB -> States]
       /\ quantum_remaining' \in [PCB -> Nat] /\ age_ticks' \in [PCB -> Nat]
  BY <1>1, <1>3, <1>9 DEF TypeOK, States
<1>11. TypeOK'
  BY <1>1, <1>3, <1>5, <1>6, <1>10 DEF TypeOK
<1>12. Slices(quantum_remaining', priority', age_ticks')
  <2> SUFFICES ASSUME NEW q \in Proc
               PROVE  /\ quantum_remaining'[q] \in 1..MLFQ_QUANTUMS[priority'[q]]
                      /\ age_ticks'[q] < AGE_TICK_MAX
    BY DEF Slices
  <2>1. q \in PCB
    BY DEF PCB
  <2>2. CASE q = p
    BY <1>1, <1>3, <1>9, <2>1, <2>2, AgeAssumption DEF TypeOK
  <2>3. CASE q # p
    BY <1>1, <1>3, <2>1, <2>3 DEF Slices, TypeOK
  <2> QED
    BY <2>2, <2>3
<1>13. OneListPerPcb' /\ SliceFitsLevel'
  BY <1>5, <1>6, <1>8, <1>12, PartsPrimed
<1> QED
  BY <1>1, <1>11, <1>13 DEF IInv

\* The ageing loop: a PCB that is due moves one level up, every other ready
\* PCB stays, and no list gains a duplicate.
LEMMA AgeingLists ==
  ASSUME TypeOK, ReadyLists(priority_queues, state, priority), NEW l \in Level
  PROVE  /\ Stay(l) \o Promote(l + 1) \in Seq(Proc)
         /\ Distinct(Stay(l) \o Promote(l + 1))
         /\ Range(Stay(l) \o Promote(l + 1)) =
              (IF l = 0 THEN Range(priority_queues[0]) ELSE Range(priority_queues[l]) \ Due)
              \cup (IF l + 1 \in Level THEN Range(priority_queues[l + 1]) \cap Due ELSE {})
<1>1. \A k \in Level : priority_queues[k] \in Seq(Proc) /\ Distinct(priority_queues[k])
  BY DEF TypeOK, ReadyLists
<1>2. l \in Nat /\ l + 1 # 0 /\ l # l + 1 /\ 0 \in Level
  BY Levels
<1>3. /\ Stay(l) \in Seq(Proc) /\ Distinct(Stay(l))
      /\ Range(Stay(l)) = IF l = 0 THEN Range(priority_queues[0])
                          ELSE Range(priority_queues[l]) \ Due
  <2>1. CASE l = 0
    BY <1>1, <2>1 DEF Stay
  <2>2. CASE l # 0
    <3>1. /\ Stay(l) \in Seq(Proc) /\ Distinct(Stay(l))
          /\ Range(Stay(l)) = Range(priority_queues[l]) \cap (Proc \ Due)
      BY <1>1, <2>2, FilterProperties DEF Stay
    <3>2. Range(priority_queues[l]) \in SUBSET Proc
      BY <1>1, RangeOfSeq
    <3> QED
      BY <2>2, <3>1, <3>2
  <2> QED
    BY <2>1, <2>2
<1>4. /\ Promote(l + 1) \in Seq(Proc) /\ Distinct(Promote(l + 1))
      /\ Range(Promote(l + 1)) = IF l + 1 \in Level THEN Range(priority_queues[l + 1]) \cap Due
                                 ELSE {}
  <2>1. CASE l + 1 \in Level
    <3>1. Promote(l + 1) = Filter(priority_queues[l + 1], Due)
      BY <1>2, <2>1 DEF Promote
    <3> QED
      BY <1>1, <2>1, <3>1, FilterProperties
  <2>2. CASE l + 1 \notin Level
    <3>1. Promote(l + 1) = <<>>
      BY <2>2 DEF Promote
    <3>2. <<>> \in Seq(Proc) /\ Distinct(<<>>) /\ Range(<<>>) = {}
      BY EmptySeq DEF Distinct, Range
    <3> QED
      BY <2>2, <3>1, <3>2
  <2> QED
    BY <2>1, <2>2
<1>5. Range(Stay(l)) \cap Range(Promote(l + 1)) = {}
  <2> SUFFICES ASSUME NEW q \in Range(Stay(l)), q \in Range(Promote(l + 1))
               PROVE  FALSE
    OBVIOUS
  <2>1. q \in Range(priority_queues[l]) /\ l + 1 \in Level /\ q \in Range(priority_queues[l + 1])
    BY <1>3, <1>4
  <2>2. q \in Proc
    BY <1>1, <2>1, RangeOfSeq
  <2> QED
    BY <1>2, <2>1, <2>2 DEF ReadyLists
<1> QED
  BY <1>3, <1>4, <1>5, ConcatDistinct

\* A PCB that is due is a ready process of a level above 0.
LEMMA DueProperties ==
  ASSUME TypeOK, ReadyLists(priority_queues, state, priority)
  PROVE  \A q \in PCB :
           /\ q \in Ageing => q \in Proc /\ state[q] = "READY" /\ priority[q] # 0
           /\ q \in Due <=> q \in Ageing /\ age_ticks[q] + 1 >= AGE_TICK_MAX
           /\ q \in Due => priority[q] - 1 \in Level
<1> SUFFICES ASSUME NEW q \in PCB
             PROVE  /\ q \in Ageing => q \in Proc /\ state[q] = "READY" /\ priority[q] # 0
                    /\ q \in Due <=> q \in Ageing /\ age_ticks[q] + 1 >= AGE_TICK_MAX
                    /\ q \in Due => priority[q] - 1 \in Level
  OBVIOUS
<1>1. ASSUME q \in Ageing
      PROVE  q \in Proc /\ state[q] = "READY" /\ priority[q] # 0
  <2>1. PICK l \in Level \ {0} : q \in Range(priority_queues[l])
    BY <1>1 DEF Ageing
  <2>2. q \in Proc
    BY <2>1, RangeOfSeq DEF TypeOK
  <2> QED
    BY <2>1, <2>2 DEF ReadyLists
<1>2. q \in Due <=> q \in Ageing /\ age_ticks[q] + 1 >= AGE_TICK_MAX
  BY DEF Due
<1>3. priority[q] # 0 => priority[q] - 1 \in Level
  BY LevelAssumption DEF TypeOK, Level
<1> QED
  BY <1>1, <1>2, <1>3

LEMMA AgeTickIInv ==
  ASSUME IInv, AgeTick
  PROVE  IInv'
<1> DEFINE p == current_pcb
<1>1. /\ irq_on /\ p \in Proc /\ quantum_remaining[p] # 1
      /\ priority_queues' = [l \in Level |-> Stay(l) \o Promote(l + 1)]
      /\ age_ticks' = [q \in PCB |-> IF q \in Due THEN 0
                                     ELSE IF q \in Ageing THEN age_ticks[q] + 1
                                     ELSE age_ticks[q]]
      /\ priority' = [q \in PCB |-> IF q \in Due THEN priority[q] - 1 ELSE priority[q]]
      /\ quantum_remaining' = [q \in PCB |->
                                IF q \in Due THEN MLFQ_QUANTUMS[priority[q] - 1]
                                ELSE IF q = p THEN quantum_remaining[q] - 1
                                ELSE quantum_remaining[q]]
      /\ UNCHANGED <<waiting_queue, current_pcb, state, irq_on>>
  BY DEF AgeTick, Charged, Slice
<1> HIDE DEF p
<1>2. /\ ReadyLists(priority_queues, state, priority)
      /\ WaitList(waiting_queue, state)
      /\ Owner(current_pcb, state, irq_on)
      /\ Slices(quantum_remaining, priority, age_ticks)
      /\ TypeOK
  BY Parts DEF IInv
<1>3. \A q \in PCB :
        /\ q \in Ageing => q \in Proc /\ state[q] = "READY" /\ priority[q] # 0
        /\ q \in Due <=> q \in Ageing /\ age_ticks[q] + 1 >= AGE_TICK_MAX
        /\ q \in Due => priority[q] - 1 \in Level
  BY <1>2, DueProperties
<1>4. \A l \in Level :
        /\ priority_queues'[l] \in Seq(Proc) /\ Distinct(priority_queues'[l])
        /\ Range(priority_queues'[l]) =
             (IF l = 0 THEN Range(priority_queues[0]) ELSE Range(priority_queues[l]) \ Due)
             \cup (IF l + 1 \in Level THEN Range(priority_queues[l + 1]) \cap Due ELSE {})
  BY <1>1, <1>2, AgeingLists
<1>5. priority_queues' \in [Level -> Seq(Proc)]
  BY <1>1, <1>4
<1>6. ASSUME NEW q \in Proc, NEW l \in Level
      PROVE  q \in Range(priority_queues'[l]) <=> state'[q] = "READY" /\ priority'[q] = l
  <2>1. \A k \in Level : q \in Range(priority_queues[k]) <=> state[q] = "READY" /\ priority[q] = k
    BY <1>2 DEF ReadyLists
  <2>2. q \in PCB /\ priority[q] \in Level /\ priority[q] \in Nat /\ l \in Nat
    BY <1>2, Levels DEF TypeOK, PCB
  <2>3. /\ priority'[q] = IF q \in Due THEN priority[q] - 1 ELSE priority[q]
        /\ state'[q] = state[q]
    BY <1>1, <2>2
  <2>4. q \in Due => state[q] = "READY" /\ priority[q] # 0
    BY <1>3, <2>2
  <2>5. CASE q \in Due
    <3>1. q \notin Range(priority_queues[0])
      BY <2>1, <2>4, <2>5, Levels
    <3>2. q \in Range(priority_queues'[l])
            <=> l + 1 \in Level /\ q \in Range(priority_queues[l + 1])
      BY <1>4, <2>5, <3>1
    <3>3. q \in Range(priority_queues'[l]) <=> l + 1 = priority[q]
      BY <2>1, <2>2, <2>4, <2>5, <3>2
    <3> QED
      BY <2>2, <2>3, <2>4, <2>5, <3>3
  <2>6. CASE q \notin Due
    <3>1. q \in Range(priority_queues'[l]) <=> q \in Range(priority_queues[l])
      BY <1>4, <2>6
    <3> QED
      BY <2>1, <2>3, <2>6, <3>1
  <2> QED
    BY <2>5, <2>6
<1>7. ReadyLists(priority_queues', state', priority')
  BY <1>4, <1>6 DEF ReadyLists
<1>8. \A q \in PCB : /\ quantum_remaining[q] \in Nat /\ age_ticks[q] \in Nat
                     /\ priority[q] \in Level
  BY <1>2 DEF TypeOK
<1>9. quantum_remaining[p] \in Nat \ {0, 1} /\ p \in PCB
  <2>1. p \in PCB /\ MLFQ_QUANTUMS[priority[p]] \in Nat
    BY <1>1, <1>8, SliceAssumption DEF PCB
  <2>2. quantum_remaining[p] \in 1..MLFQ_QUANTUMS[priority[p]]
    BY <1>1, <1>2 DEF Slices
  <2> QED
    BY <1>1, <2>1, <2>2
<1>10. \A l \in Level : MLFQ_QUANTUMS[l] \in Nat \ {0}
  BY SliceAssumption
<1>11. priority' \in [PCB -> Level]
  BY <1>1, <1>3, <1>8
<1>12. age_ticks' \in [PCB -> Nat]
  BY <1>1, <1>8
<1>13. quantum_remaining' \in [PCB -> Nat]
  <2>1. ASSUME NEW q \in PCB PROVE quantum_remaining'[q] \in Nat
    <3>1. CASE q \in Due
      BY <1>1, <1>3, <1>10, <3>1
    <3>2. CASE q \notin Due
      BY <1>1, <1>8, <1>9, <3>2
    <3> QED
      BY <3>1, <3>2
  <2> QED
    BY <1>1, <2>1
<1>14. TypeOK'
  BY <1>1, <1>2, <1>5, <1>11, <1>12, <1>13 DEF TypeOK
<1>15. ASSUME NEW q \in Proc
       PROVE  /\ quantum_remaining'[q] \in 1..MLFQ_QUANTUMS[priority'[q]]
              /\ age_ticks'[q] < AGE_TICK_MAX
  <2>1. /\ q \in PCB /\ quantum_remaining[q] \in 1..MLFQ_QUANTUMS[priority[q]]
        /\ age_ticks[q] < AGE_TICK_MAX /\ MLFQ_QUANTUMS[priority[q]] \in Nat
    BY <1>2, <1>8, <1>10 DEF Slices, PCB
  <2>2. AGE_TICK_MAX \in Nat \ {0} /\ age_ticks[q] \in Nat
    BY <1>8, <2>1, AgeAssumption
  <2>3. CASE q \in Due
    BY <1>1, <1>3, <1>10, <2>1, <2>2, <2>3
  <2>4. CASE q \notin Due
    <3>1. age_ticks'[q] < AGE_TICK_MAX
      BY <1>1, <1>3, <2>1, <2>2, <2>4
    <3>2. priority'[q] = priority[q]
      BY <1>1, <2>1, <2>4
    <3>3. quantum_remaining'[q] = IF q = p THEN quantum_remaining[q] - 1 ELSE quantum_remaining[q]
      BY <1>1, <2>1, <2>4
    <3>4. quantum_remaining'[q] \in 1..MLFQ_QUANTUMS[priority[q]]
      BY <1>8, <1>9, <2>1, <3>3
    <3> QED
      BY <3>1, <3>2, <3>4
  <2> QED
    BY <2>3, <2>4
<1>16. Slices(quantum_remaining', priority', age_ticks')
  BY <1>15 DEF Slices
<1>17. OneListPerPcb' /\ SliceFitsLevel'
  BY <1>1, <1>2, <1>7, <1>16, PartsPrimed
<1> QED
  BY <1>1, <1>14, <1>17 DEF IInv

-----------------------------------------------------------------------------
LEMMA NextIInv == IInv /\ [Next]_vars => IInv'
<1> SUFFICES ASSUME IInv, [Next]_vars PROVE IInv'
  OBVIOUS
<1>1. CASE \E p \in Proc : CreateProcess(p)
  BY <1>1, CreateProcessIInv
<1>2. CASE EnableInterrupts
  BY <1>2, EnableInterruptsIInv
<1>3. CASE FirstTick
  BY <1>3, FirstTickIInv
<1>4. CASE IdleTick
  BY <1>4, StutterIInv DEF IdleTick
<1>5. CASE ExpireTick
  BY <1>5, ExpireTickIInv
<1>6. CASE AgeTick
  BY <1>6, AgeTickIInv
<1>7. CASE sched_block_process
  BY <1>7, BlockIInv
<1>8. CASE SwitchAway
  BY <1>8, SwitchAwayIInv
<1>9. CASE \E p \in Blocking : sched_unblock_process(p)
  BY <1>9, UnblockIInv, BlockAssumption
<1>10. CASE UNCHANGED vars
  BY <1>10, StutterIInv
<1> QED
  BY <1>1, <1>2, <1>3, <1>4, <1>5, <1>6, <1>7, <1>8, <1>9, <1>10 DEF Next

\* The PCB at the head of a ready list, or the idle PCB, is a PCB.
LEMMA NextIsPcb ==
  ASSUME NEW Q \in [Level -> Seq(Proc)]
  PROVE  NextPcb(Q) \in PCB
<1>1. CASE NonEmpty(Q) = {}
  BY <1>1 DEF NextPcb, PCB
<1>2. CASE NonEmpty(Q) # {}
  <2>1. NonEmpty(Q) \in SUBSET Int /\ IsFiniteSet(NonEmpty(Q))
    BY Levels, FS_Subset DEF NonEmpty
  <2>2. Least(NonEmpty(Q)) \in NonEmpty(Q)
    BY <1>2, <2>1, LeastProperties
  <2>3. Q[Least(NonEmpty(Q))] \in Seq(Proc) /\ Q[Least(NonEmpty(Q))] # <<>>
    BY <2>2 DEF NonEmpty
  <2> QED
    BY <1>2, <2>3, TailDistinct DEF NextPcb, PCB
<1> QED
  BY <1>1, <1>2

\* A tick that picks a PCB gives the CPU to one.
LEMMA TickPicks ==
  ASSUME IInv, FirstTick \/ ExpireTick
  PROVE  current_pcb' \in PCB
<1>0. priority_queues \in [Level -> Seq(Proc)] /\ priority \in [PCB -> Level]
  BY DEF IInv, TypeOK
<1>1. CASE FirstTick
  BY <1>0, <1>1, NextIsPcb DEF FirstTick, sched_pick_next_process
<1>2. CASE ExpireTick
  <2> DEFINE p == current_pcb
             l == Demoted(p)
             Q == sched_enqueue(priority_queues, l, p)
  <2>1. p \in Proc /\ current_pcb' = NextPcb(Q)
    BY <1>2 DEF ExpireTick, Charged, sched_pick_next_process
  <2>2. l \in Level
    BY <1>0, <2>1, LevelAssumption DEF Demoted, Level, PCB
  <2> HIDE DEF l
  <2>3. Append(priority_queues[l], p) \in Seq(Proc)
    BY <1>0, <2>1, <2>2, AppendDistinct
  <2>4. Q \in [Level -> Seq(Proc)]
    BY <1>0, <2>2, <2>3 DEF sched_enqueue
  <2> QED
    BY <2>1, <2>4, NextIsPcb
<1> QED
  BY <1>1, <1>2

\* The inductive invariant holds in every state of the scheduler.
THEOREM Inductive == Spec => []IInv
<1> QED
  BY InitIInv, NextIInv, PTL DEF Spec

\* Every variable of the scheduler keeps its type.
THEOREM TypeCorrect == Spec => []TypeOK
<1>1. IInv => TypeOK
  BY DEF IInv
<1> QED
  BY <1>1, Inductive, PTL

\* The sched_node of a PCB is never pushed while it is linked, so the unchecked
\* list_push_tail and list_remove_node of sched.c never corrupt a list.
THEOREM ListsIntact == Spec => []OneListPerPcb
<1>1. IInv => OneListPerPcb
  BY DEF IInv
<1> QED
  BY <1>1, Inductive, PTL

\* The countdown of sched_tick never wraps below zero, and demotion, promotion
\* and wake-up all leave a process with the slice of the level it is on.
THEOREM SlicesFit == Spec => []SliceFitsLevel
<1>1. IInv => SliceFitsLevel
  BY DEF IInv
<1> QED
  BY <1>1, Inductive, PTL

\* The idle PCB is picked only when nothing is ready, and is never preempted.
THEOREM IdleKeepsCpu == Spec => IdleIsFinal
<1> DEFINE Keeps == /\ current_pcb = Idle => current_pcb' = Idle
                    /\ current_pcb' = Idle /\ current_pcb # Idle =>
                         \A p \in Proc : state[p] # "READY"
<1>1. IInv /\ [Next]_vars => [Keeps]_vars
  <2> SUFFICES ASSUME IInv, Next PROVE Keeps
    OBVIOUS
  <2>1. Idle # NULL /\ Idle \notin Proc
    BY ProcAssumption DEF PCB
  <2>2. /\ priority_queues \in [Level -> Seq(Proc)] /\ state \in [PCB -> States]
        /\ priority \in [PCB -> Level] /\ ReadyLists(priority_queues, state, priority)
    BY Parts DEF IInv, TypeOK
  <2>3. ASSUME ~irq_on \/ current_pcb = NULL, sched_pick_next_process(priority_queues, state),
               current_pcb # Idle
        PROVE  Keeps
    <3>1. \A p \in Proc : state[p] # "RUNNING"
      BY <2>3, NobodyRuns
    <3> QED
      BY <2>2, <2>3, <3>1, PickNext DEF sched_pick_next_process
  <2>4. CASE FirstTick
    BY <2>1, <2>3, <2>4 DEF FirstTick
  <2>5. CASE SwitchAway
    BY <2>3, <2>5 DEF SwitchAway, IInv
  <2>6. CASE ExpireTick
    <3> DEFINE p  == current_pcb
               l  == Demoted(p)
               Q  == sched_enqueue(priority_queues, l, p)
    <3>1. p \in Proc /\ current_pcb' = NextPcb(Q) /\ p \in PCB
      BY <2>6 DEF ExpireTick, Charged, sched_pick_next_process, PCB
    <3>2. l \in Level
      BY <2>2, <3>1, LevelAssumption DEF Demoted, Level
    <3> HIDE DEF l
    <3>3. /\ Q \in [Level -> Seq(Proc)]
          /\ ReadyLists(Q, [state EXCEPT ![p] = "READY"], [priority EXCEPT ![p] = l])
      <4>1. state[p] # "READY"
        <5>1. Owner(current_pcb, state, irq_on)
          BY Parts DEF IInv
        <5> QED
          BY <3>1, <5>1 DEF Owner
      <4> QED
        BY <2>2, <3>1, <3>2, <4>1, Enqueue
    <3>4. NextPcb(Q) # Idle
      <4> DEFINE st == [state EXCEPT ![p] = "READY"]
                 pr == [priority EXCEPT ![p] = l]
      <4>1. st \in [PCB -> States] /\ pr \in [PCB -> Level] /\ st[p] = "READY"
        BY <2>2, <3>1, <3>2 DEF States
      <4>2. \A q \in Proc : st[q] # "RUNNING"
        <5>1. Owner(current_pcb, state, irq_on)
          BY Parts DEF IInv
        <5> QED
          BY <2>2, <3>1, <5>1 DEF Owner, PCB
      <4> HIDE DEF st, pr, Q
      <4>3. ReadyLists(Q, st, pr) /\ Q \in [Level -> Seq(Proc)]
        BY <3>3 DEF st, pr
      <4>4. NextPcb(Q) = Idle => \A q \in Proc : st[q] # "READY"
        BY <4>1, <4>2, <4>3, PickNext
      <4> QED
        BY <3>1, <4>1, <4>4
    <3> QED
      BY <2>1, <3>1, <3>4
  <2>7. ASSUME current_pcb' = current_pcb PROVE Keeps
    BY <2>7
  <2>8. CASE \/ \E p \in Proc : CreateProcess(p)
             \/ EnableInterrupts \/ IdleTick \/ AgeTick \/ sched_block_process
             \/ \E p \in Blocking : sched_unblock_process(p)
    BY <2>7, <2>8 DEF CreateProcess, EnableInterrupts, IdleTick, AgeTick, vars, sched,
                      sched_block_process, sched_unblock_process
  <2> QED
    BY <2>4, <2>5, <2>6, <2>8 DEF Next
<1> QED
  BY <1>1, Inductive, PTL DEF Spec, IdleIsFinal

-----------------------------------------------------------------------------
(* Two processes take turns.  A slice demotes, so a process could overtake *)
(* the other by more than one level and, at the end of its slice, be picked *)
(* again, if the other was promoted too early or too often.                *)

\* The kernel creates two processes, and nothing blocks.
TwoProcesses == Blocking = {} /\ \E p, q : p # q /\ Proc = {p, q}

\* W bounds the age at which a process reaches a level for the first time, by the
\* slices of the other process on the levels above; no promotion is due before
\* both are at the bottom, and at most one within a slice there.
WaitBound(W) ==
  /\ W \in [Level -> Nat]
  /\ \A l \in Level \ {0} : W[l - 1] + MLFQ_QUANTUMS[l - 1] <= W[l] /\ W[l] <= AGE_TICK_MAX
  /\ MLFQ_QUANTUMS[MLFQ_LEVELS - 1] <= AGE_TICK_MAX

\* With two levels the promotions cannot harm.
Patient == MLFQ_LEVELS <= 2 \/ \E W \in [Level -> Nat] : WaitBound(W)

\* The kernel's numbers (sched.h) are such numbers.
THEOREM KernelIsPatient ==
  ASSUME MLFQ_LEVELS = 4, AGE_TICK_MAX = 600,
         \A l \in Level : MLFQ_QUANTUMS[l] = 40 * (l + 1)
  PROVE  Patient
<1> DEFINE W == [l \in Level |-> IF l = 0 THEN 0 ELSE IF l = 1 THEN 40 ELSE IF l = 2 THEN 120 ELSE 240]
<1>1. Level = {0, 1, 2, 3}
  BY DEF Level
<1>2. W[0] = 0 /\ W[1] = 40 /\ W[2] = 120 /\ W[3] = 240 /\ W \in [Level -> Nat]
  BY <1>1
<1>3. /\ MLFQ_QUANTUMS[0] = 40 /\ MLFQ_QUANTUMS[1] = 80 /\ MLFQ_QUANTUMS[2] = 120
      /\ MLFQ_QUANTUMS[3] = 160
  BY <1>1
<1> HIDE DEF W
<1>4. ASSUME NEW l \in Level \ {0}
      PROVE  W[l - 1] + MLFQ_QUANTUMS[l - 1] <= W[l] /\ W[l] <= AGE_TICK_MAX
  <2>1. CASE l = 1
    BY <1>2, <1>3, <2>1
  <2>2. CASE l = 2
    BY <1>2, <1>3, <2>2
  <2>3. CASE l = 3
    BY <1>2, <1>3, <2>3
  <2> QED BY <1>1, <2>1, <2>2, <2>3
<1>5. WaitBound(W)
  BY <1>2, <1>3, <1>4 DEF WaitBound
<1> QED BY <1>2, <1>5 DEF Patient

\* The ticks the slice of p has used.
Used(p) == MLFQ_QUANTUMS[priority[p]] - quantum_remaining[p]

\* On the way down w waits on the level of the running process r or on the next.
Descending(r, w, W) ==
  /\ priority[r] < MLFQ_LEVELS - 1
  /\ priority[w] = priority[r] \/ priority[w] = priority[r] + 1
  /\ age_ticks[w] <= W[priority[r]] + Used(r)
  /\ age_ticks[r] <= W[priority[w]]

\* Then both stay on the two lowest levels: a promotion to the upper of them
\* happens in the slice of r, and the next would come after its end.
Low(r, w) ==
  /\ priority[r] >= MLFQ_LEVELS - 2 /\ priority[w] >= MLFQ_LEVELS - 2
  /\ priority[w] = MLFQ_LEVELS - 2 /\ priority[w] > 0 => age_ticks[w] <= Used(r)

TurnInv(W) ==
  /\ IInv
  /\ \A p \in Proc : state[p] # "WAITING"
  /\ current_pcb = NULL => \A p \in Proc : priority[p] = 0 /\ age_ticks[p] = 0
  /\ \A r, w \in Proc : r # w /\ current_pcb = r /\ state[w] # "NEW" =>
       Low(r, w) \/ (MLFQ_LEVELS > 2 /\ Descending(r, w, W))

\* What the steps below use of the numbers.
Numbers(W) ==
  /\ MLFQ_LEVELS \in Nat \ {0} /\ AGE_TICK_MAX \in Nat \ {0}
  /\ \A l \in Level : l \in Nat /\ l <= MLFQ_LEVELS - 1 /\ MLFQ_QUANTUMS[l] \in Nat \ {0}
  /\ \A l \in Nat : l <= MLFQ_LEVELS - 1 => l \in Level
  /\ MLFQ_LEVELS > 2 =>
       /\ \A l \in Level : W[l] \in Nat
       /\ \A l \in Level : l < MLFQ_LEVELS - 1 =>
            W[l] + MLFQ_QUANTUMS[l] <= W[l + 1] /\ W[l + 1] <= AGE_TICK_MAX
       /\ \A l \in Level : l >= MLFQ_LEVELS - 2 => MLFQ_QUANTUMS[l] <= AGE_TICK_MAX

LEMMA NumbersHold ==
  ASSUME NEW W, MLFQ_LEVELS <= 2 \/ WaitBound(W)
  PROVE  Numbers(W)
<1>1. MLFQ_LEVELS \in Nat \ {0} /\ AGE_TICK_MAX \in Nat \ {0}
  BY LevelAssumption, AgeAssumption
<1>2. \A l \in Level : l \in Nat /\ l <= MLFQ_LEVELS - 1 /\ MLFQ_QUANTUMS[l] \in Nat \ {0}
  BY <1>1, SliceAssumption DEF Level
<1>3. \A l \in Nat : l <= MLFQ_LEVELS - 1 => l \in Level
  BY <1>1 DEF Level
<1>4. ASSUME MLFQ_LEVELS > 2
      PROVE  /\ \A l \in Level : W[l] \in Nat
             /\ \A l \in Level : l < MLFQ_LEVELS - 1 =>
                  W[l] + MLFQ_QUANTUMS[l] <= W[l + 1] /\ W[l + 1] <= AGE_TICK_MAX
             /\ \A l \in Level : l >= MLFQ_LEVELS - 2 => MLFQ_QUANTUMS[l] <= AGE_TICK_MAX
  <2>1. WaitBound(W)
    BY <1>1, <1>4
  <2>2. \A l \in Level : W[l] \in Nat
    BY <2>1 DEF WaitBound
  <2>3. ASSUME NEW l \in Level, l < MLFQ_LEVELS - 1
        PROVE  W[l] + MLFQ_QUANTUMS[l] <= W[l + 1] /\ W[l + 1] <= AGE_TICK_MAX
    <3>1. l + 1 \in Level \ {0} /\ (l + 1) - 1 = l
      BY <1>1, <1>2, <1>3, <2>3
    <3> QED BY <2>1, <3>1 DEF WaitBound
  <2>4. ASSUME NEW l \in Level, l >= MLFQ_LEVELS - 2
        PROVE  MLFQ_QUANTUMS[l] <= AGE_TICK_MAX
    <3>1. CASE l = MLFQ_LEVELS - 1
      BY <2>1, <3>1 DEF WaitBound
    <3>2. CASE l # MLFQ_LEVELS - 1
      <4>1. l \in Nat /\ l < MLFQ_LEVELS - 1 /\ l + 1 \in Level
        BY <1>1, <1>2, <1>3, <3>2
      <4>2. W[l] \in Nat /\ W[l + 1] \in Nat /\ MLFQ_QUANTUMS[l] \in Nat
        BY <1>2, <2>2, <4>1
      <4> QED BY <1>1, <2>3, <4>1, <4>2
    <3> QED BY <3>1, <3>2
  <2> QED BY <2>2, <2>3, <2>4
<1> QED BY <1>1, <1>2, <1>3, <1>4 DEF Numbers

\* A tick that ends a slice picks a process that was ready or the one whose
\* slice ended, and not the latter if a process was ready on the level it drops
\* to or above: the queue serves those that came first.
LEMMA ExpirePicks ==
  ASSUME IInv, ExpireTick
  PROVE  /\ current_pcb' \in Proc
         /\ current_pcb' # current_pcb => state[current_pcb'] = "READY"
         /\ \A w \in Proc : /\ w # current_pcb /\ state[w] = "READY"
                           /\ priority[w] <= Demoted(current_pcb)
                           => current_pcb' # current_pcb
<1> DEFINE p == current_pcb
           l == Demoted(p)
           Q == sched_enqueue(priority_queues, l, p)
           st == [state EXCEPT ![p] = "READY"]
           pr == [priority EXCEPT ![p] = l]
<1>1. p \in Proc /\ current_pcb' = NextPcb(Q) /\ p \in PCB
  BY DEF ExpireTick, Charged, sched_pick_next_process, PCB
<1>2. /\ priority_queues \in [Level -> Seq(Proc)] /\ state \in [PCB -> States]
      /\ priority \in [PCB -> Level] /\ ReadyLists(priority_queues, state, priority)
      /\ Owner(current_pcb, state, irq_on)
  BY Parts DEF IInv, TypeOK
<1>3. l \in Level
  BY <1>1, <1>2, LevelAssumption DEF Demoted, Level
<1>4. state[p] # "READY" /\ \A q \in Proc : state[q] = "RUNNING" => q = p
  BY <1>1, <1>2 DEF Owner
<1> HIDE DEF l
<1>5. Q \in [Level -> Seq(Proc)] /\ ReadyLists(Q, st, pr)
  BY <1>1, <1>2, <1>3, <1>4, Enqueue
<1>6. /\ st \in [PCB -> States] /\ pr \in [PCB -> Level] /\ st[p] = "READY"
      /\ \A q \in Proc : q # p => st[q] = state[q] /\ st[q] # "RUNNING"
  BY <1>1, <1>2, <1>3, <1>4 DEF States, PCB
<1>7. \A k \in Level : p \notin Range(priority_queues[k])
  BY <1>1, <1>2, <1>4 DEF ReadyLists
<1>8. /\ Q[l] = Append(priority_queues[l], p)
      /\ \A k \in Level : k # l => Q[k] = priority_queues[k]
  BY <1>2, <1>3 DEF sched_enqueue
<1> HIDE DEF p, st, pr, Q
<1>9. /\ NextPcb(Q) \in PCB
      /\ NextPcb(Q) \in Proc => st[NextPcb(Q)] = "READY"
      /\ NextPcb(Q) = Idle => \A q \in Proc : st[q] # "READY"
  <2>1. \A q \in Proc : st[q] # "RUNNING"
    BY <1>6
  <2> QED BY <1>5, <1>6, <2>1, PickNext
<1>10. NextPcb(Q) \in Proc
  BY <1>1, <1>6, <1>9 DEF PCB
<1>11. ASSUME NEW w \in Proc, w # p, state[w] = "READY", priority[w] <= l
       PROVE  NextPcb(Q) # p
  <2> DEFINE k == priority[w]
             m == Least(NonEmpty(Q))
  <2>1. k \in Level /\ w \in Range(priority_queues[k])
    BY <1>2, <1>11 DEF ReadyLists, PCB
  <2>2. priority_queues[k] # <<>>
    BY <2>1 DEF Range
  <2>3. Q[k] # <<>>
    <3>1. CASE k = l
      <4>1. Range(Q[l]) = Range(priority_queues[l]) \cup {p}
        BY <1>1, <1>2, <1>3, <1>8, AppendDistinct
      <4> QED BY <3>1, <4>1 DEF Range
    <3>2. CASE k # l
      BY <1>8, <2>1, <2>2, <3>2
    <3> QED BY <3>1, <3>2
  <2>4. k \in NonEmpty(Q)
    BY <2>1, <2>3 DEF NonEmpty
  <2>5. NonEmpty(Q) \in SUBSET Int /\ IsFiniteSet(NonEmpty(Q))
    BY Levels, FS_Subset DEF NonEmpty
  <2> HIDE DEF k
  <2>6. m \in NonEmpty(Q) /\ m <= k
    BY <2>4, <2>5, LeastProperties
  <2>7. NextPcb(Q) = Head(Q[m])
    BY <2>4 DEF NextPcb
  <2> HIDE DEF m
  <2>8. m \in Level /\ Q[m] # <<>>
    BY <2>6 DEF NonEmpty
  <2>9. CASE m = l
    <3>0. k \in Nat /\ l \in Nat /\ k <= l
      BY <1>3, <1>11, <2>1, Levels DEF k
    <3>1. k = l
      BY <2>6, <2>9, <3>0
    <3>2. /\ priority_queues[l] \in Seq(Proc) /\ priority_queues[l] # <<>>
      BY <1>2, <1>3, <2>2, <3>1
    <3>3. Head(Append(priority_queues[l], p)) = Head(priority_queues[l])
      <4>1. /\ Append(priority_queues[l], p) \in Seq(Proc)
            /\ \A i \in 1..Len(priority_queues[l]) :
                  Append(priority_queues[l], p)[i] = priority_queues[l][i]
        BY <1>1, <3>2, AppendProperties
      <4>2. Len(priority_queues[l]) \in Nat /\ Len(priority_queues[l]) >= 1
        BY <3>2, LenProperties, EmptySeq
      <4>3. Append(priority_queues[l], p)[1] = priority_queues[l][1]
        BY <4>1, <4>2
      <4>4. ASSUME NEW s \in Seq(Proc) PROVE Head(s) = s[1]
        OBVIOUS
      <4> QED BY <3>2, <4>1, <4>3, <4>4
    <3>4. Head(priority_queues[l]) \in Range(priority_queues[l])
      BY <3>2, TailDistinct
    <3> QED BY <1>3, <1>7, <1>8, <2>7, <2>9, <3>3, <3>4
  <2>10. CASE m # l
    <3>1. Q[m] = priority_queues[m]
      BY <1>8, <2>8, <2>10
    <3>2. Head(priority_queues[m]) \in Range(priority_queues[m])
      BY <1>2, <2>8, <3>1, TailDistinct
    <3> QED BY <1>7, <2>7, <2>8, <3>1, <3>2
  <2> QED BY <2>9, <2>10
<1> QED
  BY <1>1, <1>6, <1>9, <1>10, <1>11 DEF p, l

\* What TurnInv says of the running process r and another process w.
LEMMA Turn ==
  ASSUME NEW W, TurnInv(W), Numbers(W), NEW r \in Proc, NEW w \in Proc,
         current_pcb = r, w # r, state[w] # "NEW"
  PROVE  /\ state[w] = "READY"
         /\ priority[r] \in Level /\ priority[w] \in Level
         /\ priority[r] \in Nat /\ priority[r] <= MLFQ_LEVELS - 1
         /\ priority[w] \in Nat /\ priority[w] <= MLFQ_LEVELS - 1
         /\ age_ticks[r] \in Nat /\ age_ticks[w] \in Nat
         /\ quantum_remaining[r] \in 1..MLFQ_QUANTUMS[priority[r]]
         /\ quantum_remaining[w] \in 1..MLFQ_QUANTUMS[priority[w]]
         /\ MLFQ_QUANTUMS[priority[r]] \in Nat /\ MLFQ_QUANTUMS[priority[w]] \in Nat
         /\ Low(r, w) \/ (MLFQ_LEVELS > 2 /\ Descending(r, w, W))
<1>1. IInv /\ r \in PCB /\ w \in PCB
  BY DEF TurnInv, PCB
<1>2. /\ Owner(current_pcb, state, irq_on) /\ Slices(quantum_remaining, priority, age_ticks)
      /\ TypeOK
  BY <1>1, Parts DEF IInv
<1>3. state[w] = "READY"
  <2>1. state[w] \in States /\ state[w] # "RUNNING"
    BY <1>1, <1>2 DEF Owner, TypeOK
  <2>2. state[w] # "WAITING"
    BY DEF TurnInv
  <2> QED BY <2>1, <2>2 DEF States
<1>4. /\ priority[r] \in Level /\ priority[w] \in Level
      /\ age_ticks[r] \in Nat /\ age_ticks[w] \in Nat
  BY <1>1, <1>2 DEF TypeOK
<1>5. /\ priority[r] \in Nat /\ priority[r] <= MLFQ_LEVELS - 1
      /\ priority[w] \in Nat /\ priority[w] <= MLFQ_LEVELS - 1
      /\ MLFQ_QUANTUMS[priority[r]] \in Nat /\ MLFQ_QUANTUMS[priority[w]] \in Nat
  BY <1>4 DEF Numbers
<1>6. /\ quantum_remaining[r] \in 1..MLFQ_QUANTUMS[priority[r]]
      /\ quantum_remaining[w] \in 1..MLFQ_QUANTUMS[priority[w]]
  BY <1>2 DEF Slices
<1>7. Low(r, w) \/ (MLFQ_LEVELS > 2 /\ Descending(r, w, W))
  BY DEF TurnInv
<1> QED BY <1>3, <1>4, <1>5, <1>6, <1>7

\* The process that waits is not below the level the running one drops to.
LEMMA TurnPicks ==
  ASSUME NEW W, TurnInv(W), Numbers(W), ExpireTick,
         NEW w \in Proc, w # current_pcb, state[w] # "NEW"
  PROVE  current_pcb' # current_pcb
<1> DEFINE r == current_pcb
<1>0. r \in Proc
  BY DEF ExpireTick, Charged
<1>1. /\ state[w] = "READY"
      /\ priority[r] \in Nat /\ priority[r] <= MLFQ_LEVELS - 1
      /\ priority[w] \in Nat /\ priority[w] <= MLFQ_LEVELS - 1
      /\ Low(r, w) \/ (MLFQ_LEVELS > 2 /\ Descending(r, w, W))
      /\ MLFQ_LEVELS \in Nat
  BY <1>0, Turn DEF Numbers
<1>2. priority[w] <= Demoted(r)
  <2>1. CASE Low(r, w)
    BY <1>1, <2>1 DEF Low, Demoted
  <2>2. CASE Descending(r, w, W)
    BY <1>1, <2>2 DEF Descending, Demoted
  <2> QED BY <1>1, <2>1, <2>2
<1>3. IInv
  BY DEF TurnInv
<1> QED BY <1>1, <1>2, <1>3, ExpirePicks

\* The end of a slice: the other process runs, and the two are one step further
\* down, or low.
LEMMA TurnExpire ==
  ASSUME NEW W, TwoProcesses, TurnInv(W), Numbers(W), ExpireTick
  PROVE  TurnInv(W)'
<1>0. PICK r \in Proc, n \in Proc : r = current_pcb /\ n = current_pcb'
  <2>1. current_pcb \in Proc /\ current_pcb' \in Proc
    BY ExpirePicks DEF ExpireTick, Charged, TurnInv
  <2> QED BY <2>1
<1>1. /\ r \in Proc /\ r \in PCB
      /\ priority' = [priority EXCEPT ![r] = Demoted(r)]
      /\ quantum_remaining' = [quantum_remaining EXCEPT ![r] = MLFQ_QUANTUMS[Demoted(r)]]
      /\ quantum_remaining[r] = 1
      /\ age_ticks' = age_ticks
  BY <1>0 DEF ExpireTick, PCB
<1>2. IInv /\ IInv'
  BY ExpireTickIInv DEF TurnInv
<1>3. n \in Proc /\ n \in PCB /\ n # NULL /\ (n # r => state[n] = "READY")
  BY <1>0, <1>2, ExpirePicks, ProcAssumption DEF PCB
<1>4. \A p \in Proc : state'[p] \in {"RUNNING", "READY", state[p]} /\ (p # r /\ p # n => state'[p] = state[p])
  BY <1>0, <1>1, <1>2 DEF ExpireTick, sched_pick_next_process, IInv, TypeOK, PCB
<1>5. \A p \in Proc : state'[p] # "WAITING"
  BY <1>4 DEF TurnInv
<1>6. ASSUME NEW w \in Proc, w # n, state'[w] # "NEW"
      PROVE  (Low(n, w) \/ (MLFQ_LEVELS > 2 /\ Descending(n, w, W)))'
  <2>1. CASE n = r
    BY <1>0, <1>1, <1>4, <1>6, <2>1, TurnPicks
  <2>2. CASE n # r
    <3>1. w = r
      BY <1>1, <1>3, <1>6, <2>2 DEF TwoProcesses
    <3>2. /\ priority[r] \in Level /\ priority[n] \in Level
          /\ priority[r] \in Nat /\ priority[r] <= MLFQ_LEVELS - 1
          /\ priority[n] \in Nat /\ priority[n] <= MLFQ_LEVELS - 1
          /\ age_ticks[r] \in Nat /\ age_ticks[n] \in Nat
          /\ quantum_remaining[n] \in 1..MLFQ_QUANTUMS[priority[n]]
          /\ MLFQ_QUANTUMS[priority[r]] \in Nat /\ MLFQ_QUANTUMS[priority[n]] \in Nat
          /\ Low(r, n) \/ (MLFQ_LEVELS > 2 /\ Descending(r, n, W))
      <4>1. state[n] # "NEW"
        BY <1>3, <2>2
      <4> QED BY <1>0, <2>2, <4>1, Turn
    <3>3. priority \in [PCB -> Level] /\ quantum_remaining \in [PCB -> Nat]
      BY <1>2 DEF IInv, TypeOK
    <3>4. /\ priority'[r] = Demoted(r) /\ priority'[n] = priority[n]
          /\ quantum_remaining'[n] = quantum_remaining[n]
          /\ age_ticks'[r] = age_ticks[r] /\ age_ticks'[n] = age_ticks[n]
      BY <1>1, <1>3, <2>2, <3>3
    <3>5. MLFQ_LEVELS \in Nat \ {0}
      BY DEF Numbers
    <3> DEFINE a == priority[r]
               b == priority[n]
               u == MLFQ_QUANTUMS[b] - quantum_remaining[n]
    <3>6. u \in Nat
      BY <3>2
    <3>7. CASE Low(r, n)
      <4>1. priority'[r] = MLFQ_LEVELS - 1 /\ priority'[n] >= MLFQ_LEVELS - 2
        BY <3>2, <3>4, <3>5, <3>7 DEF Low, Demoted
      <4>2. /\ priority'[n] >= MLFQ_LEVELS - 2 /\ priority'[r] >= MLFQ_LEVELS - 2
            /\ priority'[r] # MLFQ_LEVELS - 2
        BY <3>5, <4>1
      <4>3. Low(n, r)'
        BY <4>2 DEF Low
      <4> QED BY <3>1, <4>3
    <3>8. CASE MLFQ_LEVELS > 2 /\ Descending(r, n, W)
      <4>1. /\ a < MLFQ_LEVELS - 1 /\ (b = a \/ b = a + 1)
            /\ age_ticks[n] <= W[a] + (MLFQ_QUANTUMS[a] - 1)
            /\ age_ticks[r] <= W[b]
        BY <1>1, <3>8 DEF Descending, Used
      <4>2. priority'[r] = a + 1 /\ a + 1 \in Level
        BY <3>2, <3>4, <3>5, <4>1 DEF Demoted, Numbers
      <4>3. /\ W[a] \in Nat /\ W[b] \in Nat /\ W[a + 1] \in Nat
            /\ W[a] + MLFQ_QUANTUMS[a] <= W[a + 1]
        BY <3>2, <3>8, <4>1, <4>2 DEF Numbers
      <4>4. age_ticks[n] <= W[a + 1]
        BY <3>2, <4>1, <4>3
      <4>5. CASE b < MLFQ_LEVELS - 1
        <5>1. a + 1 = b \/ a + 1 = b + 1
          BY <3>2, <4>1
        <5>2. age_ticks[r] <= W[b] + u
          BY <3>2, <3>6, <4>1, <4>3
        <5> HIDE DEF a, b
        <5>3. priority'[n] = b /\ u = MLFQ_QUANTUMS[b] - quantum_remaining[n]
          BY <3>4 DEF b
        <5> HIDE DEF u
        <5>4. Used(n)' = u
          BY <3>4, <5>3 DEF Used
        <5>5. Descending(n, r, W)'
          BY <3>4, <4>2, <4>4, <4>5, <5>1, <5>2, <5>3, <5>4 DEF Descending
        <5> QED BY <3>1, <3>8, <5>5
      <4>6. CASE b >= MLFQ_LEVELS - 1
        <5>1. priority'[n] = MLFQ_LEVELS - 1 /\ priority'[r] = MLFQ_LEVELS - 1
          BY <3>2, <3>4, <3>5, <4>1, <4>2, <4>6
        <5>2. /\ priority'[n] >= MLFQ_LEVELS - 2 /\ priority'[r] >= MLFQ_LEVELS - 2
              /\ priority'[r] # MLFQ_LEVELS - 2
          BY <3>5, <5>1
        <5>3. Low(n, r)'
          BY <5>2 DEF Low
        <5> QED BY <3>1, <5>3
      <4> QED BY <3>2, <3>5, <4>5, <4>6
    <3> QED BY <3>2, <3>7, <3>8
  <2> QED BY <2>1, <2>2
<1> QED
  BY <1>0, <1>2, <1>3, <1>5, <1>6 DEF TurnInv

\* A tick within a slice: only the waiting process ages, and it is promoted at
\* most once, from the lowest level.
LEMMA TurnAge ==
  ASSUME NEW W, TurnInv(W), Numbers(W), AgeTick
  PROVE  TurnInv(W)'
<1>0. PICK r \in Proc : r = current_pcb
  BY DEF AgeTick, Charged
<1>1. /\ r \in Proc /\ r \in PCB /\ r # NULL /\ quantum_remaining[r] # 1
      /\ age_ticks' = [q \in PCB |-> IF q \in Due THEN 0
                                     ELSE IF q \in Ageing THEN age_ticks[q] + 1
                                     ELSE age_ticks[q]]
      /\ priority' = [q \in PCB |-> IF q \in Due THEN priority[q] - 1 ELSE priority[q]]
      /\ quantum_remaining' = [q \in PCB |-> Slice(q)]
      /\ current_pcb' = current_pcb /\ state' = state
  BY <1>0, ProcAssumption DEF AgeTick, PCB
<1>2. IInv /\ IInv'
  BY AgeTickIInv DEF TurnInv
<1>3. \A q \in PCB :
        /\ q \in Ageing => q \in Proc /\ state[q] = "READY" /\ priority[q] # 0
        /\ q \in Due <=> q \in Ageing /\ age_ticks[q] + 1 >= AGE_TICK_MAX
  BY <1>2, Parts, DueProperties DEF IInv
<1>4. r \notin Ageing /\ r \notin Due
  <2>1. state[r] # "READY"
    BY <1>0, <1>1, <1>2, Parts DEF IInv, Owner
  <2> QED BY <1>1, <1>3, <2>1
<1>5. /\ priority'[r] = priority[r] /\ age_ticks'[r] = age_ticks[r]
      /\ quantum_remaining'[r] = quantum_remaining[r] - 1
  BY <1>0, <1>1, <1>4 DEF Slice
<1>6. ASSUME NEW w \in Proc, w # r, state[w] # "NEW"
      PROVE  (Low(r, w) \/ (MLFQ_LEVELS > 2 /\ Descending(r, w, W)))'
  <2>1. /\ priority[r] \in Level /\ priority[w] \in Level
        /\ priority[r] \in Nat /\ priority[r] <= MLFQ_LEVELS - 1
        /\ priority[w] \in Nat /\ priority[w] <= MLFQ_LEVELS - 1
        /\ age_ticks[r] \in Nat /\ age_ticks[w] \in Nat
        /\ quantum_remaining[r] \in 1..MLFQ_QUANTUMS[priority[r]]
        /\ MLFQ_QUANTUMS[priority[r]] \in Nat
        /\ Low(r, w) \/ (MLFQ_LEVELS > 2 /\ Descending(r, w, W))
        /\ w \in PCB
    BY <1>0, <1>6, Turn DEF PCB
  <2>2. MLFQ_LEVELS \in Nat \ {0} /\ AGE_TICK_MAX \in Nat \ {0}
    BY DEF Numbers
  <2> DEFINE a == priority[r]
             b == priority[w]
             u == MLFQ_QUANTUMS[a] - quantum_remaining[r]
  <2>3. Used(r) = u /\ Used(r)' = u + 1 /\ u \in Nat /\ u + 1 < MLFQ_QUANTUMS[a]
    BY <1>1, <1>5, <2>1 DEF Used
  <2>4. /\ w \in Due => priority'[w] = b - 1 /\ age_ticks'[w] = 0 /\ b # 0
                        /\ age_ticks[w] + 1 >= AGE_TICK_MAX
        /\ w \notin Due => priority'[w] = b /\ age_ticks'[w] <= age_ticks[w] + 1
    BY <1>1, <1>3, <2>1
  <2> HIDE DEF u
  <2>5. CASE MLFQ_LEVELS <= 2
    <3>1. priority'[w] \in Nat /\ priority'[r] \in Nat
      BY <1>5, <2>1, <2>4
    <3>2. /\ priority'[r] >= MLFQ_LEVELS - 2 /\ priority'[w] >= MLFQ_LEVELS - 2
          /\ ~(priority'[w] = MLFQ_LEVELS - 2 /\ priority'[w] > 0)
      BY <2>2, <2>5, <3>1
    <3>3. Low(r, w)'
      BY <1>1, <3>2 DEF Low
    <3> QED BY <3>3
  <2>6. CASE MLFQ_LEVELS > 2 /\ Low(r, w)
    <3>1. /\ a >= MLFQ_LEVELS - 2 /\ b >= MLFQ_LEVELS - 2
          /\ b = MLFQ_LEVELS - 2 => age_ticks[w] <= u
      BY <2>1, <2>2, <2>3, <2>6 DEF Low
    <3>2. MLFQ_QUANTUMS[a] <= AGE_TICK_MAX
      BY <2>1, <2>6, <3>1 DEF Numbers
    <3>3. priority'[w] >= MLFQ_LEVELS - 2
      BY <2>1, <2>2, <2>3, <2>4, <3>1, <3>2
    <3>4. priority'[w] = MLFQ_LEVELS - 2 => age_ticks'[w] <= u + 1
      <4>1. age_ticks'[w] \in Nat
        BY <1>1, <2>1
      <4> QED BY <2>1, <2>2, <2>3, <2>4, <3>1, <3>2, <3>3, <4>1
    <3>5. Low(r, w)'
      BY <1>1, <1>5, <2>3, <3>1, <3>3, <3>4 DEF Low
    <3> QED BY <3>5
  <2>7. CASE MLFQ_LEVELS > 2 /\ Descending(r, w, W)
    <3>1. /\ a < MLFQ_LEVELS - 1 /\ (b = a \/ b = a + 1)
          /\ age_ticks[w] <= W[a] + u /\ age_ticks[r] <= W[b]
      BY <2>3, <2>7 DEF Descending
    <3>2. /\ W[a] \in Nat /\ W[a] + MLFQ_QUANTUMS[a] <= AGE_TICK_MAX
      <4>1. a + 1 \in Level
        BY <2>1, <2>2, <3>1 DEF Numbers
      <4>2. /\ W[a] \in Nat /\ W[a + 1] \in Nat
            /\ W[a] + MLFQ_QUANTUMS[a] <= W[a + 1] /\ W[a + 1] <= AGE_TICK_MAX
        BY <2>1, <2>7, <3>1, <4>1 DEF Numbers
      <4> QED BY <2>1, <2>2, <4>2
    <3>3. w \notin Due
      BY <2>1, <2>2, <2>3, <2>4, <3>1, <3>2
    <3>4. age_ticks'[w] <= W[a] + (u + 1)
      <4>1. age_ticks'[w] \in Nat
        BY <1>1, <2>1
      <4> QED BY <2>1, <2>3, <2>4, <3>1, <3>2, <3>3, <4>1
    <3>5. Descending(r, w, W)'
      BY <1>1, <1>5, <2>3, <2>4, <3>1, <3>3, <3>4 DEF Descending
    <3> QED BY <2>7, <3>5
  <2> QED BY <2>1, <2>2, <2>5, <2>6, <2>7
<1> QED
  BY <1>0, <1>1, <1>2, <1>6 DEF TurnInv

\* The first tick: both processes are on the top level and have not aged.
LEMMA TurnFirst ==
  ASSUME NEW W, TurnInv(W), Numbers(W), FirstTick
  PROVE  TurnInv(W)'
<1>1. IInv /\ IInv' /\ current_pcb' # NULL
  BY FirstTickIInv, TickPicks, ProcAssumption DEF TurnInv
<1>2. /\ \A p \in Proc : priority[p] = 0 /\ age_ticks[p] = 0
      /\ priority' = priority /\ age_ticks' = age_ticks
      /\ quantum_remaining' = quantum_remaining
  BY DEF FirstTick, TurnInv
<1>3. \A p \in Proc : state'[p] # "WAITING"
  <2>1. \A p \in Proc : state'[p] \in {"RUNNING", state[p]}
    BY <1>1 DEF FirstTick, sched_pick_next_process, IInv, TypeOK, PCB
  <2> QED BY <2>1 DEF TurnInv
<1>4. ASSUME NEW r \in Proc, NEW w \in Proc
      PROVE  (Low(r, w) \/ (MLFQ_LEVELS > 2 /\ Descending(r, w, W)))'
  <2>1. 0 \in Level /\ MLFQ_LEVELS \in Nat \ {0} /\ MLFQ_QUANTUMS[0] \in Nat
    BY Levels DEF Numbers
  <2>2. priority'[r] = 0 /\ priority'[w] = 0 /\ age_ticks'[r] = 0 /\ age_ticks'[w] = 0
    BY <1>2
  <2>3. CASE MLFQ_LEVELS <= 2
    <3>1. 0 >= MLFQ_LEVELS - 2
      BY <2>1, <2>3
    <3> QED BY <2>2, <3>1 DEF Low
  <2>4. CASE MLFQ_LEVELS > 2
    <3>1. Used(r)' \in Nat
      <4>1. quantum_remaining'[r] \in 1..MLFQ_QUANTUMS[priority'[r]]
        BY <1>1 DEF IInv, SliceFitsLevel
      <4> QED BY <2>1, <2>2, <4>1 DEF Used
    <3>2. W[0] \in Nat
      BY <2>1, <2>4 DEF Numbers
    <3>3. /\ 0 < MLFQ_LEVELS - 1 /\ 0 <= W[0] + Used(r)' /\ 0 <= W[0]
      BY <2>1, <2>4, <3>1, <3>2
    <3>4. Descending(r, w, W)'
      BY <2>2, <3>3 DEF Descending
    <3> QED BY <2>4, <3>4
  <2> QED BY <2>1, <2>3, <2>4
<1> QED BY <1>1, <1>3, <1>4 DEF TurnInv

LEMMA TurnInductive ==
  ASSUME NEW W, TwoProcesses, Numbers(W)
  PROVE  /\ Init => TurnInv(W)
         /\ TurnInv(W) /\ [Next]_vars => TurnInv(W)'
<1>1. ASSUME Init PROVE TurnInv(W)
  <2>1. IInv
    BY <1>1, InitIInv
  <2>2. /\ \A p \in Proc : state[p] # "WAITING" /\ priority[p] = 0 /\ age_ticks[p] = 0
        /\ current_pcb \notin Proc
    BY <1>1, ProcAssumption DEF Init, PCB
  <2> QED BY <2>1, <2>2 DEF TurnInv
<1>2. ASSUME TurnInv(W), [Next]_vars PROVE TurnInv(W)'
  <2>1. IInv'
    BY <1>2, NextIInv DEF TurnInv
  <2>2. CASE \E p \in Proc : CreateProcess(p)
    <3>1. PICK p \in Proc : CreateProcess(p)
      BY <2>2
    <3>2. \A q \in Proc : state'[q] # "WAITING"
      <4>1. \A q \in Proc : state'[q] \in {"READY", state[q]}
        BY <1>2, <3>1 DEF CreateProcess, TurnInv, IInv, TypeOK, PCB
      <4> QED BY <1>2, <4>1 DEF TurnInv
    <3>3. /\ current_pcb' = NULL /\ current_pcb' \notin Proc
          /\ \A q \in Proc : priority'[q] = 0 /\ age_ticks'[q] = 0
      BY <1>2, <3>1, ProcAssumption DEF CreateProcess, TurnInv, PCB
    <3> QED BY <2>1, <3>2, <3>3 DEF TurnInv
  <2>3. CASE UNCHANGED <<sched, pcb>>
    BY <1>2, <2>1, <2>3 DEF TurnInv, Low, Descending, Used, sched, pcb
  <2>4. CASE EnableInterrupts
    BY <2>3, <2>4 DEF EnableInterrupts
  <2>5. CASE FirstTick
    BY <1>2, <2>5, TurnFirst
  <2>6. CASE IdleTick \/ UNCHANGED vars
    BY <2>3, <2>6 DEF IdleTick, vars
  <2>7. CASE ExpireTick
    BY <1>2, <2>7, TurnExpire
  <2>8. CASE AgeTick
    BY <1>2, <2>8, TurnAge
  <2>9. CASE sched_block_process \/ \E p \in Blocking : sched_unblock_process(p)
    BY <2>9 DEF TwoProcesses, sched_block_process
  <2>10. CASE SwitchAway
    <3>1. ~irq_on /\ current_pcb # NULL
      BY <2>10 DEF SwitchAway
    <3>2. /\ current_pcb \in PCB \cup {NULL} /\ (current_pcb = Idle => irq_on)
          /\ \A p \in Proc : state[p] # "WAITING"
          /\ Owner(current_pcb, state, irq_on)
      BY <1>2, Parts DEF TurnInv, IInv, TypeOK
    <3> QED BY <3>1, <3>2 DEF Owner, PCB
  <2> QED
    BY <1>2, <2>2, <2>4, <2>5, <2>6, <2>7, <2>8, <2>9, <2>10 DEF Next
<1> QED BY <1>1, <1>2

\* With the two processes the kernel creates and slices that fit the ageing
\* threshold, as the kernel's do, no context_switch is asked to switch from a
\* process to itself.
THEOREM SwitchesGoElsewhere ==
  ASSUME TwoProcesses, Patient
  PROVE  Spec => SwitchesToAnother
<1>1. PICK W : Numbers(W)
  BY NumbersHold DEF Patient
<1>2. Init => TurnInv(W)
  BY <1>1, TurnInductive
<1>3. TurnInv(W) /\ [Next]_vars => TurnInv(W)'
  BY <1>1, TurnInductive
<1>4. TurnInv(W) => [ExpireTick /\ Created = Proc => current_pcb' # current_pcb]_vars
  <2> SUFFICES ASSUME TurnInv(W), ExpireTick, Created = Proc
               PROVE  current_pcb' # current_pcb
    OBVIOUS
  <2>1. PICK w \in Proc : w # current_pcb
    BY DEF TwoProcesses
  <2>2. state[w] # "NEW"
    BY DEF Created
  <2> QED BY <1>1, <2>1, <2>2, TurnPicks
<1> QED
  BY <1>2, <1>3, <1>4, PTL DEF Spec, SwitchesToAnother
=============================================================================
