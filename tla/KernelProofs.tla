---------------------------- MODULE KernelProofs ----------------------------
(***************************************************************************)
(* Proofs about the running kernel, for every set of processes and every   *)
(* layout of the handler tables.                                           *)
(*                                                                         *)
(* Kernel composes Isr and Sched: each of its steps is a step of either or *)
(* leaves it alone, so what is proved of the parts holds of the whole.     *)
(* RunsClean is about the whole, and needs to know what is in service and  *)
(* whose stack is used at each point of a handler (CleanInv).              *)
(***************************************************************************)
EXTENDS Kernel, Sequences, TLAPS

-----------------------------------------------------------------------------
(* The handler tables, for every size of the three arrays and every range  *)
(* of vectors that Isr allows, the code's among them.                      *)

\* The word in which the handler of a vector is looked up.
SlotOf(v) ==
  IF v < FIRST_IRQ THEN CpuSlot(v)
  ELSE IF v < FIRST_SYSCALL THEN IrqSlot(v)
  ELSE SyscallSlot(v)

IsrInv == IsrTypeOK /\ HandlerFound

\* An interrupt vector runs past the end of irq_handlers, but its word is still
\* a word of the three arrays.
LEMMA SlotInMemory ==
  ASSUME NEW v \in Vector
  PROVE  SlotOf(v) \in Word
BY IsrAssumption DEF SlotOf, CpuSlot, IrqSlot, SyscallSlot, Vector, Word

\* Two vectors have two words: the words past the end of irq_handlers belong to
\* entries of syscall_handlers below the first system call, which no
\* registration accepts.
LEMMA SlotsDiffer ==
  ASSUME NEW v \in Vector, NEW w \in Vector, SlotOf(v) = SlotOf(w)
  PROVE  v = w
BY IsrAssumption DEF SlotOf, CpuSlot, IrqSlot, SyscallSlot, Vector

\* master_exception_handler reads the word in which the registration wrote.
LEMMA DispatchReadsSlot ==
  ASSUME NEW v \in Vector
  PROVE  Dispatched(v) = handlers[SlotOf(v)]
BY DEF Dispatched, SlotOf, CpuSlot, IrqSlot, SyscallSlot

\* Each of the three registrations writes the word of its vector or nothing.
LEMMA RegistrationWritesSlot ==
  ASSUME NEW v \in Vector, NEW h \in Handler,
         register_cpu_handler(v, h) \/ register_irq_handler(v, h) \/ register_syscall_handler(v, h)
  PROVE  \/ /\ handlers' = [handlers EXCEPT ![SlotOf(v)] = h]
            /\ registered' = [registered EXCEPT ![v] = h]
         \/ UNCHANGED isr
BY IsrAssumption DEF register_cpu_handler, register_irq_handler, register_syscall_handler,
                     Register, SlotOf, Vector

\* init_isr establishes the invariant.
LEMMA IsrInitial == init_isr => IsrInv
<1> SUFFICES ASSUME init_isr PROVE IsrInv
  OBVIOUS
<1>1. IsrTypeOK
  BY DEF init_isr, IsrTypeOK, Handler
<1>2. ASSUME NEW v \in Vector PROVE Dispatched(v) = registered[v]
  <2>1. (SlotOf(v) < FIRST_IRQ) = (v < FIRST_IRQ)
    BY IsrAssumption DEF SlotOf, CpuSlot, IrqSlot, SyscallSlot, Vector
  <2>2. handlers[SlotOf(v)] = registered[v]
    BY <2>1, SlotInMemory DEF init_isr
  <2> QED BY <2>2, DispatchReadsSlot
<1> QED BY <1>1, <1>2 DEF IsrInv, HandlerFound

\* A registration changes what its own vector is dispatched to and nothing else.
LEMMA IsrStep == IsrInv /\ [IsrNext]_isr => IsrInv'
<1> SUFFICES ASSUME IsrInv, [IsrNext]_isr PROVE IsrInv'
  OBVIOUS
<1>1. ASSUME UNCHANGED isr PROVE IsrInv'
  BY <1>1 DEF IsrInv, IsrTypeOK, HandlerFound, Dispatched, isr
<1>2. ASSUME NEW v \in Vector, NEW h \in Handler,
             handlers' = [handlers EXCEPT ![SlotOf(v)] = h],
             registered' = [registered EXCEPT ![v] = h]
      PROVE  IsrInv'
  <2>1. IsrTypeOK'
    BY <1>2, SlotInMemory DEF IsrInv, IsrTypeOK
  <2>2. ASSUME NEW w \in Vector PROVE (Dispatched(w) = registered[w])'
    <3>1. Dispatched(w)' = handlers'[SlotOf(w)]
      BY DEF Dispatched, SlotOf, CpuSlot, IrqSlot, SyscallSlot
    <3>2. handlers'[SlotOf(w)] = IF w = v THEN h ELSE handlers[SlotOf(w)]
      BY <1>2, SlotInMemory, SlotsDiffer DEF IsrInv, IsrTypeOK
    <3>3. registered'[w] = IF w = v THEN h ELSE registered[w]
      BY <1>2 DEF IsrInv, IsrTypeOK
    <3> QED BY <3>1, <3>2, <3>3, DispatchReadsSlot DEF IsrInv, HandlerFound
  <2> QED BY <2>1, <2>2 DEF IsrInv, HandlerFound
<1> QED BY <1>1, <1>2, RegistrationWritesSlot DEF IsrNext

\* Whatever is registered, in whatever order: every vector is dispatched to the
\* handler last registered for it.
THEOREM HandlersFound == IsrSpec => []HandlerFound
<1>1. IsrInv => HandlerFound
  BY DEF IsrInv
<1> QED BY <1>1, IsrInitial, IsrStep, PTL DEF IsrSpec

-----------------------------------------------------------------------------
(* What runs.                                                              *)

\* The proofs about the scheduler, for the processes of the kernel.
SP == INSTANCE SchedProofs WITH Blocking <- {}

BootCode == {"boot_memory", "boot_processes", "boot_timer", "boot_sti"}

\* A byte waits whenever the keyboard requests an interrupt or has it handled,
\* and it does one thing at a time, so its handler never leaves by the return
\* that sends no EOI.
ByteWaits ==
  /\ bytes \in Nat
  /\ 1 \in irr => bytes > 0 /\ pc # "keyboard_handler"
  /\ pc = "keyboard_handler" => bytes > 0

\* Interrupts are enabled in the code that can be interrupted, and only there.
FlagFits == iflag <=> pc \in Interruptible

\* Both lines have their handler before interrupts are enabled, for good.
LinesServed ==
  /\ pc \notin {"boot_memory", "boot_processes", "halted"} =>
       registered[IrqVector(1)] = "keyboard_handler"
  /\ pc \notin {"boot_memory", "boot_processes", "boot_timer", "halted"} =>
       registered[IrqVector(0)] = "sched_timer_handler"

\* What is in service at each point, and whose stack is used.
InService ==
  /\ pc \in BootCode \cup Interruptible \cup {"return", "keyboard_handler", "sched_timer_handler"}
       => cpu = current_pcb
  /\ pc \in BootCode \cup Interruptible \cup {"return", "bootstrap_first_process", "context_switch"}
       => in_service = {}
  /\ pc = "keyboard_handler" => in_service = {1}
  /\ pc = "sched_timer_handler" => in_service = {0}

CleanInv == IsrInv /\ ByteWaits /\ FlagFits /\ LinesServed /\ InService

-----------------------------------------------------------------------------
(* The parts.                                                              *)

\* The two lines have vectors of interrupts, and the page fault one of an
\* exception.
LEMMA Vectors ==
  /\ PAGE_FAULT \in Vector /\ PAGE_FAULT < FIRST_IRQ
  /\ \A n \in {0, 1} : IrqVector(n) \in Vector /\ IrqVector(n) >= FIRST_IRQ
                                               /\ IrqVector(n) < FIRST_SYSCALL
  /\ IrqVector(0) # IrqVector(1)
BY IsrAssumption, KernelAssumption DEF Vector, IrqVector

\* A step of the kernel registers a handler or leaves the tables alone.
LEMMA StepRegisters == [Next]_vars => [IsrNext]_isr
<1> SUFFICES ASSUME [Next]_vars PROVE [IsrNext]_isr
  OBVIOUS
<1>1. CASE RegisterPageFault
  BY <1>1, Vectors DEF RegisterPageFault, BootStep, IsrNext, Handler
<1>2. CASE RegisterKeyboard
  BY <1>2, Vectors DEF RegisterKeyboard, BootStep, IsrNext, Handler
<1>3. CASE RegisterTimer
  BY <1>3, Vectors DEF RegisterTimer, BootStep, IsrNext, Handler
<1>4. CASE RegisterSyscall
  BY <1>4, IsrAssumption DEF RegisterSyscall, IsrNext, Handler
<1>5. CASE CreateProcess \/ EnableInterrupts \/ TimerEdge \/ KeyByte \/ TakeIrq(0) \/ TakeIrq(1)
  BY <1>5 DEF CreateProcess, EnableInterrupts, TimerEdge, KeyByte, TakeIrq, isr
<1>6. CASE Handling
  BY <1>6 DEF Handling, KeyboardHandler, TickFirst, TickExpire, TickStay, Tick, Return,
              bootstrap_first_process, context_switch, Resume, StartProcess, isr
<1>7. CASE Exception
  BY <1>7 DEF Exception, isr
<1>8. CASE UNCHANGED vars
  BY <1>8 DEF vars, isr
<1> QED BY <1>1, <1>2, <1>3, <1>4, <1>5, <1>6, <1>7, <1>8 DEF Next, Boot

\* The kernel uses the handler tables as Isr describes.
LEMMA KernelRegisters == Spec => IsrSpec
<1>1. Init => init_isr
  BY DEF Init
<1> QED BY <1>1, StepRegisters, PTL DEF Spec, IsrSpec

\* In the running kernel every vector reaches the handler registered for it.
THEOREM KernelHandlers == Spec => []HandlerFound
BY KernelRegisters, HandlersFound, PTL

\* A step of the kernel is a step of the scheduler or leaves it alone: nothing
\* but the boot code and the timer handler touches its queues.
LEMMA StepSchedules == [Next]_vars => [S!Next]_(S!vars)
<1> SUFFICES ASSUME [Next]_vars PROVE [S!Next]_(S!vars)
  OBVIOUS
<1>0. sched' = sched => UNCHANGED S!vars
  BY DEF sched, S!vars, S!sched, S!pcb
<1>1. CASE RegisterPageFault \/ RegisterKeyboard \/ RegisterTimer \/ RegisterSyscall
  BY <1>1, <1>0 DEF RegisterPageFault, RegisterKeyboard, RegisterTimer, RegisterSyscall, BootStep
<1>2. CASE CreateProcess \/ EnableInterrupts
  BY <1>2 DEF CreateProcess, EnableInterrupts, S!Next
<1>3. CASE TimerEdge \/ KeyByte \/ TakeIrq(0) \/ TakeIrq(1) \/ Exception
  BY <1>3, <1>0 DEF TimerEdge, KeyByte, TakeIrq, Exception
<1>4. CASE TickFirst \/ TickExpire \/ TickStay
  BY <1>4 DEF TickFirst, TickExpire, TickStay, Tick, S!Next
<1>5. CASE KeyboardHandler \/ Return \/ StartProcess \/ bootstrap_first_process \/ context_switch
  BY <1>5, <1>0 DEF KeyboardHandler, Return, StartProcess, bootstrap_first_process,
                    context_switch, Resume
<1>6. CASE UNCHANGED vars
  BY <1>6, <1>0 DEF vars
<1> QED BY <1>1, <1>2, <1>3, <1>4, <1>5, <1>6 DEF Next, Boot, Handling

\* The kernel, with its interrupts, stacks and switches, implements the
\* scheduler of Sched with no blocking process: what SchedProofs proves of the
\* lists and slices holds while keys, ticks and switches interleave.
THEOREM KernelSchedules == Spec => S!Spec
<1>1. Init => S!Init
  BY DEF Init
<1> QED BY <1>1, StepSchedules, PTL DEF Spec, S!Spec

-----------------------------------------------------------------------------
(* The proofs about the scheduler apply to the kernel.  S and SP instantiate *)
(* the same definitions; the lemmas show it where a proof needs it.          *)

\* The cardinality of SP is that of S.
LEMMA SameCardinality ==
  ASSUME NEW K PROVE S!Cardinality(K) = SP!Cardinality(K)
BY DEF S!Cardinality, SP!Cardinality

\* So is the n-th position of a set.
LEMMA SameNth ==
  ASSUME NEW K, NEW k PROVE S!Nth(K, k) = SP!Nth(K, k)
BY SameCardinality DEF S!Nth, SP!Nth, S!Rank, SP!Rank

\* So is what a filter keeps of a sequence.
LEMMA SameFilter ==
  ASSUME NEW s, NEW T PROVE S!Filter(s, T) = SP!Filter(s, T)
BY SameCardinality, SameNth DEF S!Filter, SP!Filter, S!Positions, SP!Positions

\* So are the sets of levels, PCBs and states.
LEMMA SameSets == S!Level = SP!Level /\ S!PCB = SP!PCB /\ S!States = SP!States
BY DEF S!Level, SP!Level, S!PCB, SP!PCB, S!States, SP!States

\* So is picking the next PCB.
LEMMA SamePick ==
  ASSUME NEW Q, NEW st
  PROVE  S!sched_pick_next_process(Q, st) <=> SP!sched_pick_next_process(Q, st)
<1>1. S!NonEmpty(Q) = SP!NonEmpty(Q)
  BY DEF S!NonEmpty, SP!NonEmpty, S!Level, SP!Level
<1>2. S!NextPcb(Q) = SP!NextPcb(Q)
  BY <1>1, SameNth DEF S!NextPcb, SP!NextPcb, S!Least, SP!Least
<1>3. S!WithoutNext(Q) = SP!WithoutNext(Q)
  BY <1>1, SameNth DEF S!WithoutNext, SP!WithoutNext, S!Least, SP!Least, S!Level, SP!Level
<1> QED
  BY <1>2, <1>3 DEF S!sched_pick_next_process, SP!sched_pick_next_process

\* So is a tick that uses up the slice.
LEMMA SameExpire == S!ExpireTick <=> SP!ExpireTick
BY SamePick DEF S!ExpireTick, SP!ExpireTick, S!sched_enqueue, SP!sched_enqueue,
                S!Demoted, SP!Demoted, S!Charged, SP!Charged

\* So is a tick that ages the queues.
LEMMA SameAge == S!AgeTick <=> SP!AgeTick
<1>1. S!Ageing = SP!Ageing
  BY DEF S!Ageing, SP!Ageing, S!Level, SP!Level, S!Range, SP!Range
<1>2. S!Due = SP!Due
  BY <1>1 DEF S!Due, SP!Due
<1>3. \A l : S!Stay(l) = SP!Stay(l)
  BY <1>2, SameFilter DEF S!Stay, SP!Stay
<1>4. \A l : S!Promote(l) = SP!Promote(l)
  BY <1>2, SameFilter DEF S!Promote, SP!Promote, S!Level, SP!Level
<1>5. \A q : S!Slice(q) = SP!Slice(q)
  BY <1>2 DEF S!Slice, SP!Slice
<1>6. [l \in S!Level |-> S!Stay(l) \o S!Promote(l + 1)]
        = [l \in SP!Level |-> SP!Stay(l) \o SP!Promote(l + 1)]
  BY <1>3, <1>4, SameSets
<1>7. [q \in S!PCB |-> S!Slice(q)] = [q \in SP!PCB |-> SP!Slice(q)]
  BY <1>5, SameSets
<1> QED
  BY <1>1, <1>2, <1>6, <1>7, SameSets DEF S!AgeTick, SP!AgeTick, S!Charged, SP!Charged

\* A step of the kernel's scheduler is one that SchedProofs speaks about.
LEMMA SameNext == [S!Next]_(S!vars) => [SP!Next]_(SP!vars)
<1> SUFFICES ASSUME [S!Next]_(S!vars) PROVE [SP!Next]_(SP!vars)
  OBVIOUS
<1>0. UNCHANGED S!vars => UNCHANGED SP!vars
  BY DEF S!vars, SP!vars, S!sched, SP!sched, S!pcb, SP!pcb
<1>1. CASE \E p \in Proc : S!CreateProcess(p)
  BY <1>1 DEF S!CreateProcess, SP!CreateProcess, S!sched_enqueue, SP!sched_enqueue, SP!Next
<1>2. CASE S!EnableInterrupts
  BY <1>2, SameCardinality DEF S!EnableInterrupts, SP!EnableInterrupts, S!Created, SP!Created,
                               S!sched, S!pcb, SP!sched, SP!pcb, SP!Next
<1>3. CASE S!FirstTick
  BY <1>3, SamePick DEF S!FirstTick, SP!FirstTick, SP!Next
<1>4. CASE S!ExpireTick
  BY <1>4, SameExpire DEF SP!Next
<1>5. CASE S!AgeTick
  BY <1>5, SameAge DEF SP!Next
<1>6. CASE S!sched_block_process
  BY <1>6 DEF S!sched_block_process
<1>7. CASE S!SwitchAway
  BY <1>7, SamePick DEF S!SwitchAway, SP!SwitchAway, SP!Next
<1>8. CASE S!IdleTick \/ UNCHANGED S!vars
  BY <1>0, <1>8 DEF S!IdleTick
<1> QED
  BY <1>1, <1>2, <1>3, <1>4, <1>5, <1>6, <1>7, <1>8 DEF S!Next

\* The parameters of the kernel are ones SchedProofs speaks about.
LEMMA SchedParameters ==
  /\ SP!IsFiniteSet(Proc) /\ Idle \notin Proc /\ NULL \notin SP!PCB
  /\ MLFQ_LEVELS \in Nat \ {0} /\ AGE_TICK_MAX \in Nat \ {0}
  /\ MLFQ_QUANTUMS \in [SP!Level -> Nat \ {0}] /\ FIRST_QUANTUM \in 1..MLFQ_QUANTUMS[0]
BY SchedAssumption DEF SP!IsFiniteSet, IsFiniteSet, SP!PCB, SP!Level

\* The inductive invariant of SchedProofs in every state of the kernel.
LEMMA KernelSchedInv == Spec => []SP!IInv
<1>1. Init => SP!IInv
  <2>1. S!Init => SP!Init
    BY DEF S!Init, SP!Init, S!Level, SP!Level, S!PCB, SP!PCB
  <2>2. SP!Init => SP!IInv
    BY SchedParameters, SP!InitIInv
  <2> QED
    BY <2>1, <2>2 DEF Init
<1>2. SP!IInv /\ [SP!Next]_(SP!vars) => SP!IInv'
  BY SchedParameters, SP!NextIInv
<1>3. SP!IInv /\ [Next]_vars => SP!IInv'
  BY <1>2, StepSchedules, SameNext
<1> QED
  BY <1>1, <1>3, PTL DEF Spec

\* While interrupts, keys and switches interleave, the variables of the scheduler
\* keep their types, no PCB is ever linked twice, and every slice fits its level.
THEOREM KernelListsIntact == Spec => [](S!TypeOK /\ S!OneListPerPcb /\ S!SliceFitsLevel)
<1>1. SP!IInv => S!TypeOK /\ S!OneListPerPcb /\ S!SliceFitsLevel
  BY SameSets DEF SP!IInv, S!TypeOK, SP!TypeOK, S!OneListPerPcb, SP!OneListPerPcb,
                  S!SliceFitsLevel, SP!SliceFitsLevel, S!Distinct, SP!Distinct, S!Range, SP!Range
<1> QED
  BY <1>1, KernelSchedInv, PTL

-----------------------------------------------------------------------------
(* Handlers from their entry to their return.                              *)

\* The kernel starts with nothing requested, nothing in service and interrupts
\* disabled.
LEMMA CleanInitial == Init => CleanInv
<1> SUFFICES ASSUME Init PROVE CleanInv
  OBVIOUS
<1>1. IsrInv
  BY IsrInitial DEF Init
<1>2. ByteWaits
  BY DEF Init, ByteWaits
<1>3. FlagFits
  BY DEF Init, FlagFits, Interruptible
<1>4. LinesServed
  BY DEF Init, LinesServed, BootCode
<1>5. InService
  BY DEF Init, InService, S!Init
<1> QED BY <1>1, <1>2, <1>3, <1>4, <1>5 DEF CleanInv

\* No step takes a handler from a line that has it.
LEMMA LinesStayServed ==
  ASSUME IsrInv, IsrInv', [IsrNext]_isr, [Next]_vars,
         ~RegisterPageFault, ~RegisterKeyboard, ~RegisterTimer
  PROVE  \A n \in {0, 1} : registered'[IrqVector(n)] = registered[IrqVector(n)]
<1>1. CASE RegisterSyscall
  <2>1. PICK v \in SyscallVectors : register_syscall_handler(v, "syscall")
    BY <1>1 DEF RegisterSyscall
  <2>2. v \in Vector
    BY IsrAssumption
  <2>3. CASE v >= FIRST_SYSCALL
    <3>1. \A n \in {0, 1} : IrqVector(n) # v
      BY <2>2, <2>3, Vectors, IsrAssumption DEF Vector
    <3> QED BY <2>1, <2>2, <2>3, <3>1, Vectors
            DEF register_syscall_handler, Register, IsrInv, IsrTypeOK
  <2>4. CASE ~(v >= FIRST_SYSCALL)
    BY <2>1, <2>4 DEF register_syscall_handler, Register, isr
  <2> QED BY <2>3, <2>4
<1>2. CASE UNCHANGED isr
  BY <1>2 DEF isr
<1>3. CASE CreateProcess \/ EnableInterrupts \/ TimerEdge \/ KeyByte \/ TakeIrq(0) \/ TakeIrq(1)
  BY <1>3 DEF CreateProcess, EnableInterrupts, TimerEdge, KeyByte, TakeIrq, isr
<1>4. CASE Handling
  BY <1>4 DEF Handling, KeyboardHandler, TickFirst, TickExpire, TickStay, Tick, Return,
              bootstrap_first_process, context_switch, Resume, StartProcess, isr
<1>5. CASE Exception
  BY <1>5 DEF Exception, isr
<1> QED BY <1>1, <1>2, <1>3, <1>4, <1>5 DEF Next, Boot, vars, isr

\* The boot code, with interrupts disabled.
LEMMA BootClean == CleanInv /\ IsrInv' /\ (Boot \/ RegisterSyscall) => CleanInv'
<1> SUFFICES ASSUME CleanInv, IsrInv', Boot \/ RegisterSyscall PROVE CleanInv'
  OBVIOUS
<1> USE DEF CleanInv
<1>0. [Next]_vars /\ [IsrNext]_isr
  BY StepRegisters DEF Next
<1>1. CASE RegisterPageFault
  <2>1. LinesServed' /\ InService'
    BY <1>1 DEF RegisterPageFault, BootStep, sched, LinesServed, InService, BootCode
  <2>2. ByteWaits' /\ FlagFits'
    BY <1>1 DEF RegisterPageFault, BootStep, ByteWaits, FlagFits, Interruptible
  <2> QED BY <2>1, <2>2
<1>2. CASE RegisterKeyboard
  <2>1. registered'[IrqVector(1)] = "keyboard_handler"
    BY <1>2, Vectors DEF RegisterKeyboard, BootStep, register_irq_handler, Register,
                         IsrInv, IsrTypeOK
  <2>2. LinesServed' /\ InService'
    BY <1>2, <2>1 DEF RegisterKeyboard, BootStep, sched, LinesServed, InService, BootCode
  <2>3. ByteWaits' /\ FlagFits'
    BY <1>2 DEF RegisterKeyboard, BootStep, ByteWaits, FlagFits, Interruptible
  <2> QED BY <2>2, <2>3
<1>3. CASE RegisterTimer
  <2>1. /\ registered'[IrqVector(0)] = "sched_timer_handler"
        /\ registered'[IrqVector(1)] = registered[IrqVector(1)]
    BY <1>3, Vectors DEF RegisterTimer, BootStep, register_irq_handler, Register,
                         IsrInv, IsrTypeOK
  <2>2. LinesServed' /\ InService'
    BY <1>3, <2>1 DEF RegisterTimer, BootStep, sched, LinesServed, InService, BootCode
  <2>3. ByteWaits' /\ FlagFits'
    BY <1>3 DEF RegisterTimer, BootStep, ByteWaits, FlagFits, Interruptible
  <2> QED BY <2>2, <2>3
<1>4. CASE CreateProcess
  <2>1. current_pcb' = current_pcb
    BY <1>4 DEF CreateProcess, S!CreateProcess
  <2> QED BY <1>4, <2>1 DEF CreateProcess, isr, cpuvars, LinesServed, InService, ByteWaits, FlagFits
<1>5. CASE EnableInterrupts
  <2>1. current_pcb' = current_pcb
    BY <1>5 DEF EnableInterrupts, S!EnableInterrupts, S!sched
  <2>2. LinesServed' /\ InService'
    BY <1>5, <2>1 DEF EnableInterrupts, isr, LinesServed, InService, BootCode, Interruptible
  <2>3. ByteWaits' /\ FlagFits'
    BY <1>5 DEF EnableInterrupts, ByteWaits, FlagFits, Interruptible
  <2> QED BY <2>2, <2>3
<1>6. CASE RegisterSyscall /\ ~RegisterPageFault /\ ~RegisterKeyboard /\ ~RegisterTimer
  <2>1. LinesServed'
    BY <1>0, <1>6, LinesStayServed DEF RegisterSyscall, cpuvars, LinesServed
  <2>2. ByteWaits' /\ FlagFits' /\ InService'
    BY <1>6 DEF RegisterSyscall, sched, cpuvars, ByteWaits, FlagFits, InService
  <2> QED BY <2>1, <2>2
<1> QED BY <1>1, <1>2, <1>3, <1>4, <1>5, <1>6 DEF Boot

\* Requests, and the entry of a handler.
LEMMA EntryClean ==
  CleanInv /\ IsrInv' /\ (TimerEdge \/ KeyByte \/ TakeIrq(0) \/ TakeIrq(1)) => CleanInv'
<1> SUFFICES ASSUME CleanInv, IsrInv', TimerEdge \/ KeyByte \/ TakeIrq(0) \/ TakeIrq(1)
             PROVE  CleanInv'
  OBVIOUS
<1> USE DEF CleanInv
<1>1. CASE TimerEdge
  BY <1>1 DEF TimerEdge, isr, sched, cpuvars, ByteWaits, FlagFits, LinesServed, InService
<1>2. CASE KeyByte
  BY <1>2 DEF KeyByte, isr, sched, cpuvars, ByteWaits, FlagFits, LinesServed, InService
<1>3. ASSUME NEW n \in {0, 1}, TakeIrq(n) PROVE CleanInv'
  <2>1. pc \in Interruptible /\ in_service = {} /\ cpu = current_pcb
    BY <1>3 DEF TakeIrq, FlagFits, InService
  <2>2. Dispatched(IrqVector(n)) = IF n = 0 THEN "sched_timer_handler" ELSE "keyboard_handler"
    BY <2>1, Vectors DEF IsrInv, HandlerFound, LinesServed, Interruptible, BootCode
  <2>3. pc' = IF n = 0 THEN "sched_timer_handler" ELSE "keyboard_handler"
    BY <1>3, <2>2 DEF TakeIrq
  <2>4. InService'
    BY <1>3, <2>1, <2>3 DEF TakeIrq, sched, InService, BootCode, Interruptible
  <2>5. ByteWaits'
    BY <1>3, <2>3 DEF TakeIrq, Deliverable, ByteWaits
  <2>6. FlagFits'
    BY <1>3, <2>3 DEF TakeIrq, GateFlag, FlagFits, Interruptible
  <2>7. LinesServed'
    BY <1>3, <2>1 DEF TakeIrq, isr, LinesServed, Interruptible, BootCode
  <2> QED BY <2>4, <2>5, <2>6, <2>7
<1> QED BY <1>1, <1>2, <1>3

\* The handlers, the switches and the return to what was interrupted.
LEMMA HandlingClean == CleanInv /\ IsrInv' /\ Handling => CleanInv'
<1> SUFFICES ASSUME CleanInv, IsrInv', Handling PROVE CleanInv'
  OBVIOUS
<1> USE DEF CleanInv
<1>1. CASE KeyboardHandler
  <2>1. bytes > 0 /\ pic_send_eoi(in_service) = {}
    BY <1>1 DEF KeyboardHandler, ByteWaits, InService, pic_send_eoi
  <2>2. ByteWaits'
    BY <1>1, <2>1 DEF KeyboardHandler, ByteWaits
  <2>3. InService'
    BY <1>1, <2>1 DEF KeyboardHandler, sched, InService, BootCode, Interruptible
  <2>4. FlagFits' /\ LinesServed'
    BY <1>1 DEF KeyboardHandler, isr, FlagFits, LinesServed, BootCode, Interruptible
  <2> QED BY <2>2, <2>3, <2>4
<1>2. ASSUME NEW next \in {"bootstrap_first_process", "context_switch", "return"},
             pc = "sched_timer_handler", pc' = next,
             next = "return" => current_pcb' = current_pcb,
             in_service' = pic_send_eoi(in_service),
             UNCHANGED <<isr, cpu, esp, stack, kernel_stack_ptr, iflag, irr, bytes>>
      PROVE  CleanInv'
  <2>1. pic_send_eoi(in_service) = {}
    BY <1>2 DEF InService, pic_send_eoi
  <2>2. InService'
    BY <1>2, <2>1 DEF InService, BootCode, Interruptible
  <2>3. ByteWaits' /\ FlagFits' /\ LinesServed'
    BY <1>2 DEF isr, ByteWaits, FlagFits, LinesServed, BootCode, Interruptible
  <2> QED BY <2>2, <2>3
<1>3. CASE TickFirst
  BY <1>2, <1>3 DEF TickFirst, Tick
<1>4. CASE TickExpire
  BY <1>2, <1>4 DEF TickExpire, Tick
<1>5. CASE TickStay
  <2>1. current_pcb' = current_pcb
    BY <1>5 DEF TickStay, Tick, S!IdleTick, S!AgeTick, S!vars, S!sched
  <2> QED BY <1>2, <1>5, <2>1 DEF TickStay, Tick
<1>6. ASSUME NEW depth, NEW memory,
             pc \in {"bootstrap_first_process", "context_switch"},
             Resume(current_pcb, depth, memory)
      PROVE  CleanInv'
  <2>1. pc' \in {"starting", "return", "derailed"} /\ cpu' = current_pcb' /\ in_service' = {}
    BY <1>6 DEF Resume, sched, InService
  <2>2. FlagFits'
    BY <1>6 DEF Resume, FlagFits, Interruptible
  <2>3. InService'
    BY <2>1 DEF InService, BootCode, Interruptible
  <2>4. ByteWaits' /\ LinesServed'
    BY <1>6, <2>1 DEF Resume, isr, ByteWaits, LinesServed, BootCode
  <2> QED BY <2>2, <2>3, <2>4
<1>7. CASE bootstrap_first_process
  BY <1>6, <1>7 DEF bootstrap_first_process
<1>8. CASE context_switch
  BY <1>6, <1>8 DEF context_switch
<1>9. CASE Return
  <2>1. (pc' \in Interruptible /\ iflag') \/ (pc' = "derailed" /\ ~iflag')
    BY <1>9 DEF Return, FlagFits, Interruptible
  <2>2. FlagFits'
    BY <1>9, <2>1 DEF Return, FlagFits, Interruptible
  <2>3. InService'
    BY <1>9, <2>1 DEF Return, sched, InService, BootCode, Interruptible
  <2>4. ByteWaits' /\ LinesServed'
    BY <1>9, <2>1 DEF Return, isr, ByteWaits, LinesServed, BootCode, Interruptible
  <2> QED BY <2>2, <2>3, <2>4
<1>10. CASE StartProcess
  <2>1. FlagFits' /\ ByteWaits'
    BY <1>10 DEF StartProcess, FlagFits, ByteWaits, Interruptible
  <2>2. InService' /\ LinesServed'
    BY <1>10 DEF StartProcess, isr, sched, InService, LinesServed, BootCode, Interruptible
  <2> QED BY <2>1, <2>2
<1> QED BY <1>1, <1>3, <1>4, <1>5, <1>7, <1>8, <1>9, <1>10 DEF Handling

\* Every step keeps CleanInv.
LEMMA CleanStep == CleanInv /\ [Next]_vars => CleanInv'
<1> SUFFICES ASSUME CleanInv, [Next]_vars PROVE CleanInv'
  OBVIOUS
<1>1. IsrInv'
  BY StepRegisters, IsrStep DEF CleanInv
<1>2. CASE Exception
  <2>1. pc' = "halted" /\ ~iflag' /\ bytes' = bytes /\ irr' = irr
    BY <1>2 DEF Exception
  <2> QED BY <1>1, <2>1 DEF CleanInv, ByteWaits, FlagFits, LinesServed, InService,
                            BootCode, Interruptible
<1>3. CASE UNCHANGED vars
  BY <1>1, <1>3 DEF CleanInv, vars, isr, sched, cpuvars, ByteWaits, FlagFits, LinesServed, InService
<1> QED BY <1>1, <1>2, <1>3, BootClean, EntryClean, HandlingClean DEF Next

\* Whatever ticks, keys and switches come in whatever order: code that can be
\* interrupted runs with interrupts enabled, with nothing in service and on the
\* stack of the current process.
THEOREM KernelRunsClean == Spec => []RunsClean
<1>1. CleanInv => RunsClean
  BY DEF CleanInv, FlagFits, InService, RunsClean
<1> QED BY <1>1, CleanInitial, CleanStep, PTL DEF Spec

-----------------------------------------------------------------------------
(* Stacks.                                                                 *)

Frames == {"free", "start", "run", "starting", "ctx"}

\* What can be in the memory of a stack.  Its second frame is the one of an
\* interrupt at the start of a process or of a switch, its third one of a switch.
StackType ==
  /\ stack \in [Owners -> [DEPTH -> Frames]]
  /\ \A o \in Owners : /\ stack[o][2] \in {"free", "starting", "ctx"}
                       /\ stack[o][3] \in {"free", "ctx"}
  /\ kernel_stack_ptr \in [PCB -> DEPTH]
  /\ cpu \in Owners

\* The frame of an interrupt is on top of the stack s of depth d.
Entered(s, d) ==
  \/ d = 1 /\ s[1] = "run"
  \/ d = 2 /\ s[1] = "start" /\ s[2] = "starting"

\* The stack in use at each point.  A switch from a process to itself may return
\* into what another switch left there.
OwnStack ==
  /\ pc \in BootCode \cup {"run"} => esp = 0
  /\ pc = "starting" => esp = 1 /\ stack[cpu][1] = "start"
  /\ pc \in {"keyboard_handler", "sched_timer_handler", "bootstrap_first_process", "context_switch"}
       => Entered(stack[cpu], esp)
  /\ pc = "return" => Entered(stack[cpu], esp) \/ (esp = 2 /\ stack[cpu][2] = "ctx")
  /\ pc = "bootstrap_first_process" => cpu = NULL
  /\ pc \in {"bootstrap_first_process", "context_switch"} => current_pcb \in PCB

OthersParked ==
  pc \notin {"halted", "derailed"} =>
    \A p \in PCB \ {cpu} : Parked(stack[p], kernel_stack_ptr[p])

StackInv == StackType /\ OwnStack /\ OthersParked

\* An interrupt is taken in code that can be interrupted, and reaches the handler
\* of its line.
LEMMA TakenIrq ==
  ASSUME CleanInv, NEW n \in {0, 1}, TakeIrq(n)
  PROVE  pc \in Interruptible /\ pc' \in {"sched_timer_handler", "keyboard_handler"}
<1>1. pc \in Interruptible
  BY DEF CleanInv, TakeIrq, FlagFits
<1>2. Dispatched(IrqVector(n)) = IF n = 0 THEN "sched_timer_handler" ELSE "keyboard_handler"
  BY <1>1, Vectors DEF CleanInv, IsrInv, HandlerFound, LinesServed, Interruptible, BootCode
<1> QED
  BY <1>1, <1>2 DEF TakeIrq

\* The boot code leaves every process at its start.
LEMMA StackInitial == Init => StackInv
<1> SUFFICES ASSUME Init PROVE StackInv
  OBVIOUS
<1>1. StackType
  BY DEF Init, StackType, Owners, DEPTH, Frames
<1>2. OwnStack
  BY DEF Init, OwnStack, BootCode
<1>3. OthersParked
  BY SchedAssumption DEF Init, OthersParked, Parked, PCB, Owners, DEPTH
<1> QED BY <1>1, <1>2, <1>3 DEF StackInv

\* A step that neither pushes nor pops.
LEMMA StackKept ==
  ASSUME StackInv, UNCHANGED <<cpu, stack, kernel_stack_ptr>>,
         pc' \notin {"halted", "derailed"} => pc \notin {"halted", "derailed"},
         OwnStack'
  PROVE  StackInv'
BY DEF StackInv, StackType, OthersParked

\* Pushing a frame touches one place of one stack.
LEMMA PushedFrame ==
  ASSUME StackType, esp \in {0, 1, 2}, NEW frame \in Frames,
         esp = 1 => frame \in {"starting", "ctx"}, esp = 2 => frame = "ctx"
  PROVE  /\ Pushed(frame) \in [Owners -> [DEPTH -> Frames]]
         /\ \A o \in Owners : /\ Pushed(frame)[o][2] \in {"free", "starting", "ctx"}
                              /\ Pushed(frame)[o][3] \in {"free", "ctx"}
         /\ Pushed(frame)[cpu][esp + 1] = frame
         /\ \A d \in DEPTH : d # esp + 1 => Pushed(frame)[cpu][d] = stack[cpu][d]
         /\ \A o \in Owners \ {cpu} : Pushed(frame)[o] = stack[o]
<1> DEFINE m == Pushed(frame)
           s == [stack[cpu] EXCEPT ![esp + 1] = frame]
<1>1. cpu \in Owners /\ stack \in [Owners -> [DEPTH -> Frames]] /\ esp + 1 \in DEPTH
  BY DEF StackType, DEPTH
<1>2. stack[cpu] \in [DEPTH -> Frames]
  BY <1>1
<1>3. s \in [DEPTH -> Frames] /\ s[esp + 1] = frame
      /\ \A d \in DEPTH : d # esp + 1 => s[d] = stack[cpu][d]
  BY <1>1, <1>2
<1>4. m = [stack EXCEPT ![cpu] = s]
  BY DEF Pushed
<1> HIDE DEF m, s
<1>5. /\ m \in [Owners -> [DEPTH -> Frames]] /\ m[cpu] = s
      /\ \A o \in Owners \ {cpu} : m[o] = stack[o]
  BY <1>1, <1>3, <1>4
<1>6. s[2] \in {"free", "starting", "ctx"} /\ s[3] \in {"free", "ctx"}
  BY <1>1, <1>3 DEF StackType, DEPTH
<1>7. \A o \in Owners : m[o][2] \in {"free", "starting", "ctx"} /\ m[o][3] \in {"free", "ctx"}
  BY <1>1, <1>5, <1>6 DEF StackType
<1> QED
  BY <1>3, <1>5, <1>7 DEF m

\* The boot code uses the boot stack and pushes nothing that stays.
LEMMA BootStacks == StackInv /\ (Boot \/ RegisterSyscall) => StackInv'
<1> SUFFICES ASSUME StackInv, Boot \/ RegisterSyscall PROVE StackInv'
  OBVIOUS
<1>0. OwnStack
  BY DEF StackInv
<1>1. CASE RegisterPageFault \/ RegisterKeyboard \/ RegisterTimer
  <2>1. /\ pc \in BootCode /\ pc' \in BootCode /\ esp' = esp
        /\ UNCHANGED <<cpu, stack, kernel_stack_ptr>>
    BY <1>1 DEF RegisterPageFault, RegisterKeyboard, RegisterTimer, BootStep, BootCode
  <2>2. OwnStack'
    BY <1>0, <2>1 DEF OwnStack, BootCode
  <2> QED BY <2>1, <2>2, StackKept DEF BootCode
<1>2. CASE EnableInterrupts
  <2>1. /\ pc = "boot_sti" /\ pc' = "run" /\ esp' = esp
        /\ UNCHANGED <<cpu, stack, kernel_stack_ptr>>
    BY <1>2 DEF EnableInterrupts
  <2>2. OwnStack'
    BY <1>0, <2>1 DEF OwnStack, BootCode
  <2> QED BY <2>1, <2>2, StackKept
<1>3. CASE CreateProcess \/ RegisterSyscall
  <2>1. /\ pc' = pc /\ esp' = esp /\ UNCHANGED <<cpu, stack, kernel_stack_ptr>>
        /\ current_pcb' = current_pcb
    BY <1>3 DEF CreateProcess, RegisterSyscall, cpuvars, sched, S!CreateProcess
  <2>2. OwnStack'
    BY <1>0, <2>1 DEF OwnStack
  <2> QED BY <2>1, <2>2, StackKept
<1> QED BY <1>1, <1>2, <1>3 DEF Boot

\* An interrupt pushes its frame on the empty stack of a process that runs, or
\* on the context of one that starts.
LEMMA EntryStacks ==
  StackInv /\ CleanInv /\ (TimerEdge \/ KeyByte \/ TakeIrq(0) \/ TakeIrq(1)) => StackInv'
<1> SUFFICES ASSUME StackInv, CleanInv, TimerEdge \/ KeyByte \/ TakeIrq(0) \/ TakeIrq(1)
             PROVE  StackInv'
  OBVIOUS
<1>0. StackType /\ OwnStack /\ OthersParked
  BY DEF StackInv
<1>1. CASE TimerEdge \/ KeyByte
  <2>1. /\ pc' = pc /\ esp' = esp /\ UNCHANGED <<cpu, stack, kernel_stack_ptr>>
        /\ current_pcb' = current_pcb
    BY <1>1 DEF TimerEdge, KeyByte, cpuvars, sched
  <2>2. OwnStack'
    BY <1>0, <2>1 DEF OwnStack
  <2> QED BY <2>1, <2>2, StackKept
<1>2. ASSUME NEW n \in {0, 1}, TakeIrq(n) PROVE StackInv'
  <2>1. pc \in {"run", "starting"} /\ pc' \in {"sched_timer_handler", "keyboard_handler"}
    BY <1>2, TakenIrq DEF Interruptible
  <2>2. /\ stack' = Pushed(pc) /\ esp' = esp + 1
        /\ UNCHANGED <<cpu, kernel_stack_ptr>>
    BY <1>2 DEF TakeIrq
  <2>3. \/ pc = "run" /\ esp = 0
        \/ pc = "starting" /\ esp = 1 /\ stack[cpu][1] = "start"
    BY <1>0, <2>1 DEF OwnStack
  <2>4. pc \in Frames /\ esp \in {0, 1, 2} /\ (esp = 1 => pc \in {"starting", "ctx"}) /\ esp # 2
    BY <2>1, <2>3 DEF Frames
  <2>5. /\ Pushed(pc) \in [Owners -> [DEPTH -> Frames]]
        /\ \A o \in Owners : /\ Pushed(pc)[o][2] \in {"free", "starting", "ctx"}
                             /\ Pushed(pc)[o][3] \in {"free", "ctx"}
        /\ Pushed(pc)[cpu][esp + 1] = pc
        /\ \A d \in DEPTH : d # esp + 1 => Pushed(pc)[cpu][d] = stack[cpu][d]
        /\ \A o \in Owners \ {cpu} : Pushed(pc)[o] = stack[o]
    BY <1>0, <2>4, PushedFrame
  <2>6. StackType'
    BY <1>0, <2>2, <2>5 DEF StackType
  <2>7. Entered(stack'[cpu], esp')
    BY <2>2, <2>3, <2>5 DEF Entered, DEPTH
  <2>8. OwnStack'
    BY <2>1, <2>2, <2>7 DEF OwnStack, BootCode
  <2>9. OthersParked'
    BY <1>0, <2>1, <2>2, <2>5 DEF OthersParked, Owners
  <2> QED BY <2>6, <2>8, <2>9 DEF StackInv
<1> QED BY <1>1, <1>2

\* A handler that does not switch leaves the stack as the interrupt left it.
LEMMA HandlerStacks ==
  StackInv /\ CleanInv /\ SP!IInv /\ (KeyboardHandler \/ TickFirst \/ TickExpire \/ TickStay)
    => StackInv'
<1> SUFFICES ASSUME StackInv, CleanInv, SP!IInv,
                    KeyboardHandler \/ TickFirst \/ TickExpire \/ TickStay
             PROVE  StackInv'
  OBVIOUS
<1>0. OwnStack /\ InService
  BY DEF StackInv, CleanInv
<1>1. CASE KeyboardHandler \/ TickStay
  <2>1. /\ pc \in {"keyboard_handler", "sched_timer_handler"} /\ pc' = "return"
        /\ esp' = esp /\ UNCHANGED <<cpu, stack, kernel_stack_ptr>>
    BY <1>1 DEF KeyboardHandler, TickStay, Tick
  <2>2. OwnStack'
    BY <1>0, <2>1 DEF OwnStack, BootCode
  <2> QED BY <2>1, <2>2, StackKept
<1>2. CASE TickFirst \/ TickExpire
  <2>1. /\ pc = "sched_timer_handler" /\ pc' \in {"bootstrap_first_process", "context_switch"}
        /\ esp' = esp /\ UNCHANGED <<cpu, stack, kernel_stack_ptr>>
    BY <1>2 DEF TickFirst, TickExpire, Tick
  <2>2. current_pcb' \in PCB
    <3>1. SP!FirstTick \/ SP!ExpireTick
      BY <1>2, SamePick, SameExpire DEF TickFirst, TickExpire, Tick, S!FirstTick, SP!FirstTick
    <3>2. current_pcb' \in SP!PCB
      BY <3>1, SchedParameters, SP!TickPicks
    <3> QED BY <3>2 DEF SP!PCB, PCB
  <2>3. pc' = "bootstrap_first_process" => cpu = NULL
    BY <1>0, <1>2 DEF TickFirst, TickExpire, Tick, S!FirstTick, InService
  <2>4. OwnStack'
    BY <1>0, <2>1, <2>2, <2>3 DEF OwnStack, BootCode
  <2> QED BY <2>1, <2>4, StackKept
<1> QED BY <1>1, <1>2

\* The return to what was interrupted, and the start of a process.
LEMMA ReturnStacks == StackInv /\ (Return \/ StartProcess \/ Exception) => StackInv'
<1> SUFFICES ASSUME StackInv, Return \/ StartProcess \/ Exception PROVE StackInv'
  OBVIOUS
<1>0. StackType /\ OwnStack
  BY DEF StackInv
<1>1. CASE Return
  <2>1. pc = "return" /\ UNCHANGED <<cpu, stack, kernel_stack_ptr>>
    BY <1>1 DEF Return
  <2>2. \/ pc' = "derailed"
        \/ pc' \in Interruptible /\ pc' = stack[cpu][esp] /\ esp' = esp - 1
    BY <1>1 DEF Return
  <2>3. \/ esp = 1 /\ stack[cpu][1] = "run"
        \/ esp = 2 /\ stack[cpu][1] = "start" /\ stack[cpu][2] = "starting"
        \/ esp = 2 /\ stack[cpu][2] = "ctx"
    BY <1>0, <2>1 DEF OwnStack, Entered
  <2>4. \/ pc' = "derailed"
        \/ pc' = "run" /\ esp' = 0
        \/ pc' = "starting" /\ esp' = 1 /\ stack[cpu][1] = "start"
    BY <2>2, <2>3 DEF Interruptible
  <2>5. OwnStack'
    BY <2>1, <2>4 DEF OwnStack, BootCode
  <2> QED BY <2>1, <2>5, StackKept
<1>2. CASE StartProcess
  <2>1. pc = "starting" /\ pc' = "run" /\ esp = 1 /\ esp' = esp - 1
        /\ UNCHANGED <<cpu, stack, kernel_stack_ptr>>
    BY <1>0, <1>2 DEF StartProcess, OwnStack
  <2>2. OwnStack'
    BY <2>1 DEF OwnStack, BootCode
  <2> QED BY <2>1, <2>2, StackKept
<1>3. CASE Exception
  <2>1. pc' = "halted" /\ UNCHANGED <<cpu, stack, kernel_stack_ptr>>
    BY <1>3 DEF Exception
  <2>2. OwnStack'
    BY <2>1 DEF OwnStack, BootCode
  <2> QED BY <2>1, <2>2, StackKept
<1> QED BY <1>1, <1>2, <1>3

\* What is resumed from a parked stack is a start, or a return to the frame of an
\* interrupt.
LEMMA ResumeParked ==
  ASSUME NEW p, NEW d, NEW memory, Resume(p, d, memory), Parked(memory[p], d)
  PROVE  /\ pc' \in {"starting", "return"}
         /\ pc' = "starting" => esp' = 1 /\ stack'[cpu'][1] = "start"
         /\ pc' = "return" => Entered(stack'[cpu'], esp')
<1>1. cpu' = p /\ stack' = memory
  BY DEF Resume
<1>2. CASE d = 1 /\ memory[p][1] = "start"
  BY <1>1, <1>2 DEF Resume
<1>3. CASE d = 2 /\ memory[p][1] = "run" /\ memory[p][2] = "ctx"
  BY <1>1, <1>3 DEF Resume, Entered
<1>4. CASE d = 3 /\ memory[p][1] = "start" /\ memory[p][2] = "starting" /\ memory[p][3] = "ctx"
  BY <1>1, <1>4 DEF Resume, Entered
<1> QED BY <1>2, <1>3, <1>4 DEF Parked

\* The first start abandons the boot stack.
LEMMA BootstrapStacks == StackInv /\ bootstrap_first_process => StackInv'
<1> SUFFICES ASSUME StackInv, bootstrap_first_process PROVE StackInv'
  OBVIOUS
<1> DEFINE p == current_pcb
<1>0. StackType /\ OwnStack /\ OthersParked
  BY DEF StackInv
<1>1. /\ pc = "bootstrap_first_process" /\ Resume(p, kernel_stack_ptr[p], stack)
      /\ kernel_stack_ptr' = kernel_stack_ptr /\ stack' = stack /\ cpu' = p
  BY DEF bootstrap_first_process, Resume
<1>2. cpu = NULL /\ p \in PCB /\ NULL \notin PCB
  BY <1>0, <1>1, SchedAssumption DEF OwnStack, PCB
<1>3. \A q \in PCB : Parked(stack[q], kernel_stack_ptr[q])
  BY <1>0, <1>1, <1>2 DEF OthersParked
<1>4. /\ pc' \in {"starting", "return"}
      /\ pc' = "starting" => esp' = 1 /\ stack'[cpu'][1] = "start"
      /\ pc' = "return" => Entered(stack'[cpu'], esp')
  BY <1>1, <1>2, <1>3, ResumeParked
<1>5. OwnStack'
  BY <1>4 DEF OwnStack, BootCode
<1>6. OthersParked'
  BY <1>1, <1>3 DEF OthersParked
<1>7. StackType'
  BY <1>0, <1>1, <1>2 DEF StackType, Owners
<1> QED BY <1>5, <1>6, <1>7 DEF StackInv

\* A step that resumes a process where it was left.
Resumed ==
  /\ pc' \in {"starting", "return"}
  /\ pc' = "return" => Entered(stack'[cpu'], esp')

\* A switch parks the process that leaves and resumes another that is parked.
LEMMA SwitchStacks ==
  StackInv /\ context_switch => StackInv' /\ (current_pcb # cpu => Resumed)
<1> SUFFICES ASSUME StackInv, context_switch
             PROVE  StackInv' /\ (current_pcb # cpu => Resumed)
  OBVIOUS
<1> DEFINE p == current_pcb
           m == Pushed("ctx")
<1>0. StackType /\ OwnStack /\ OthersParked
  BY DEF StackInv
<1>1. /\ pc = "context_switch" /\ Resume(p, kernel_stack_ptr[p], m)
      /\ kernel_stack_ptr' = [kernel_stack_ptr EXCEPT ![cpu] = esp + 1]
      /\ stack' = m /\ cpu' = p
  BY DEF context_switch, Resume, Saved
<1>2. p \in PCB /\ cpu \in Owners /\ kernel_stack_ptr \in [PCB -> DEPTH]
  BY <1>0, <1>1 DEF OwnStack, StackType
<1>3. \/ esp = 1 /\ stack[cpu][1] = "run"
      \/ esp = 2 /\ stack[cpu][1] = "start" /\ stack[cpu][2] = "starting"
  BY <1>0, <1>1 DEF OwnStack, Entered
<1>4. "ctx" \in Frames /\ esp \in {0, 1, 2}
  BY <1>3 DEF Frames
<1>5. /\ m \in [Owners -> [DEPTH -> Frames]]
      /\ \A o \in Owners : m[o][2] \in {"free", "starting", "ctx"} /\ m[o][3] \in {"free", "ctx"}
      /\ m[cpu][esp + 1] = "ctx"
      /\ \A d \in DEPTH : d # esp + 1 => m[cpu][d] = stack[cpu][d]
      /\ \A o \in Owners \ {cpu} : m[o] = stack[o]
  BY <1>0, <1>4, PushedFrame
<1> HIDE DEF m
<1>6. \/ esp = 1 /\ m[cpu][1] = "run" /\ m[cpu][2] = "ctx"
      \/ esp = 2 /\ m[cpu][1] = "start" /\ m[cpu][2] = "starting" /\ m[cpu][3] = "ctx"
  BY <1>3, <1>5 DEF DEPTH
<1>7. StackType'
  <2>1. esp + 1 \in DEPTH
    BY <1>3 DEF DEPTH
  <2>2. kernel_stack_ptr' \in [PCB -> DEPTH]
    BY <1>1, <1>2, <2>1
  <2> QED BY <1>1, <1>2, <1>5, <2>2 DEF StackType, Owners
<1>8. OthersParked'
  <2> SUFFICES ASSUME NEW q \in PCB \ {p} PROVE Parked(m[q], kernel_stack_ptr'[q])
    BY <1>1 DEF OthersParked
  <2>1. CASE q = cpu
    <3>1. kernel_stack_ptr'[q] = esp + 1
      BY <1>1, <1>2, <2>1
    <3> QED BY <1>6, <2>1, <3>1 DEF Parked
  <2>2. CASE q # cpu
    <3>1. kernel_stack_ptr'[q] = kernel_stack_ptr[q] /\ m[q] = stack[q]
      BY <1>1, <1>2, <1>5, <2>2 DEF Owners
    <3> QED BY <1>0, <1>1, <2>2, <3>1 DEF OthersParked
  <2> QED BY <2>1, <2>2
<1>9. CASE p # cpu
  <2>1. m[p] = stack[p] /\ Parked(stack[p], kernel_stack_ptr[p])
    BY <1>0, <1>1, <1>2, <1>5, <1>9 DEF OthersParked, Owners
  <2>2. /\ pc' \in {"starting", "return"}
        /\ pc' = "starting" => esp' = 1 /\ stack'[cpu'][1] = "start"
        /\ pc' = "return" => Entered(stack'[cpu'], esp')
    BY <1>1, <2>1, ResumeParked
  <2>3. OwnStack'
    BY <2>2 DEF OwnStack, BootCode
  <2> QED BY <1>7, <1>8, <2>2, <2>3 DEF StackInv, Resumed
<1>10. CASE p = cpu
  <2> DEFINE d == kernel_stack_ptr[p]
  <2>1. d \in {1, 2, 3}
    BY <1>2 DEF DEPTH
  <2>2. \/ m[p][d] = "start" /\ pc' = "starting" /\ esp' = d
        \/ m[p][d] = "ctx" /\ pc' = "return" /\ esp' = d - 1
        \/ pc' = "derailed"
    BY <1>1 DEF Resume
  <2> HIDE DEF d
  <2>3. m[p][2] \in {"free", "starting", "ctx"} /\ m[p][3] \in {"free", "ctx"}
    BY <1>2, <1>5 DEF Owners
  <2>4. \/ pc' = "starting" /\ esp' = 1 /\ m[p][1] = "start"
        \/ pc' = "return" /\ esp' = 1 /\ m[p][1] = "run"
        \/ pc' = "return" /\ esp' = 2 /\ m[p][2] = "ctx"
        \/ pc' = "return" /\ esp' = 2 /\ m[p][1] = "start" /\ m[p][2] = "starting"
        \/ pc' = "derailed"
    BY <1>6, <1>10, <2>1, <2>2, <2>3
  <2>5. OwnStack'
    BY <1>1, <2>4 DEF OwnStack, BootCode, Entered
  <2> QED BY <1>7, <1>8, <1>10, <2>5 DEF StackInv
<1> QED BY <1>9, <1>10

\* Every step keeps the stacks in order.
LEMMA StackStep == StackInv /\ CleanInv /\ SP!IInv /\ [Next]_vars => StackInv'
<1> SUFFICES ASSUME StackInv, CleanInv, SP!IInv, [Next]_vars PROVE StackInv'
  OBVIOUS
<1>1. CASE UNCHANGED vars
  <2>1. /\ pc' = pc /\ esp' = esp /\ UNCHANGED <<cpu, stack, kernel_stack_ptr>>
        /\ current_pcb' = current_pcb
    BY <1>1 DEF vars, cpuvars, sched
  <2>2. OwnStack'
    BY <2>1 DEF StackInv, OwnStack
  <2> QED BY <2>1, <2>2, StackKept
<1> QED
  BY <1>1, BootStacks, EntryStacks, HandlerStacks, ReturnStacks, BootstrapStacks, SwitchStacks
     DEF Next, Handling

\* CleanInv holds in every state of the kernel.
LEMMA CleanAlways == Spec => []CleanInv
BY CleanInitial, CleanStep, PTL DEF Spec

\* StackInv holds in every state of the kernel.
LEMMA StacksAlways == Spec => []StackInv
BY StackInitial, StackStep, CleanAlways, KernelSchedInv, PTL DEF Spec

\* Whatever interrupts and switches come, the stack of a process that does not run
\* is one a switch can resume, and the stack of one that runs is empty.
THEOREM KernelStackShapes == Spec => []StackShapes
<1>1. StackInv => StackShapes
  BY DEF StackInv, OwnStack, OthersParked, StackShapes, BootCode
<1> QED BY <1>1, StacksAlways, PTL

\* If all processes were created and a switch never goes to the process it comes
\* from, nothing is ever resumed from a used-up stack pointer.
OnTrack ==
  S!Created = Proc => /\ pc # "derailed"
                      /\ pc = "return" => Entered(stack[cpu], esp)

\* No step derails, if no process is switched to itself.
LEMMA OnTrackStep ==
  OnTrack /\ StackInv /\ CleanInv /\ SwitchesApart /\ [Next]_vars => OnTrack'
<1> SUFFICES ASSUME OnTrack, StackInv, CleanInv, SwitchesApart, [Next]_vars PROVE OnTrack'
  OBVIOUS
<1>0. OwnStack
  BY DEF StackInv
<1>1. state' = state => S!Created' = S!Created
  BY DEF S!Created
<1>2. CASE RegisterPageFault \/ RegisterKeyboard \/ RegisterTimer \/ EnableInterrupts
  <2>1. pc' \notin {"derailed", "return"}
    BY <1>2 DEF RegisterPageFault, RegisterKeyboard, RegisterTimer, BootStep, EnableInterrupts
  <2> QED BY <2>1 DEF OnTrack
<1>3. CASE CreateProcess
  <2>1. pc' = "boot_processes"
    BY <1>3 DEF CreateProcess, cpuvars
  <2> QED BY <2>1 DEF OnTrack
<1>4. CASE RegisterSyscall \/ TimerEdge \/ KeyByte \/ UNCHANGED vars
  <2>1. UNCHANGED <<state, pc, esp, stack, cpu>>
    BY <1>4 DEF RegisterSyscall, TimerEdge, KeyByte, vars, cpuvars, sched
  <2> QED BY <1>1, <2>1 DEF OnTrack
<1>5. ASSUME NEW n \in {0, 1}, TakeIrq(n) PROVE OnTrack'
  BY <1>5, TakenIrq DEF OnTrack
<1>6. CASE TickFirst \/ TickExpire \/ StartProcess \/ Exception
  BY <1>6 DEF TickFirst, TickExpire, Tick, StartProcess, Exception, OnTrack
<1>7. CASE KeyboardHandler \/ TickStay
  <2>1. /\ pc \in {"keyboard_handler", "sched_timer_handler"} /\ pc' = "return"
        /\ UNCHANGED <<esp, stack, cpu>>
    BY <1>7 DEF KeyboardHandler, TickStay, Tick
  <2>2. Entered(stack[cpu], esp)
    BY <1>0, <2>1 DEF OwnStack
  <2> QED BY <2>1, <2>2 DEF OnTrack
<1>8. CASE Return
  <2>1. pc = "return" /\ state' = state
    BY <1>8 DEF Return, sched
  <2>2. CASE S!Created = Proc
    <3>1. Entered(stack[cpu], esp)
      BY <2>1, <2>2 DEF OnTrack
    <3>2. esp \in DEPTH /\ stack[cpu][esp] \in Interruptible
      BY <3>1 DEF Entered, DEPTH, Interruptible
    <3>3. pc' \in {"run", "starting"}
      BY <1>8, <3>2 DEF Return, Interruptible
    <3> QED BY <3>3 DEF OnTrack
  <2>3. CASE S!Created # Proc
    BY <1>1, <2>1, <2>3 DEF OnTrack
  <2> QED BY <2>2, <2>3
<1>9. CASE bootstrap_first_process
  <2> DEFINE p == current_pcb
  <2>1. /\ pc = "bootstrap_first_process" /\ Resume(p, kernel_stack_ptr[p], stack)
    BY <1>9 DEF bootstrap_first_process
  <2>2. cpu = NULL /\ p \in PCB /\ NULL \notin PCB
    BY <1>0, <2>1, SchedAssumption DEF OwnStack, PCB
  <2>3. Parked(stack[p], kernel_stack_ptr[p])
    BY <2>1, <2>2 DEF StackInv, OthersParked
  <2> QED BY <2>1, <2>3, ResumeParked DEF OnTrack
<1>10. CASE context_switch
  <2>1. pc = "context_switch" /\ state' = state
    BY <1>10 DEF context_switch, Resume, sched
  <2>2. CASE S!Created = Proc
    <3>1. current_pcb # cpu
      BY <2>1, <2>2 DEF SwitchesApart
    <3>2. Resumed
      BY <1>10, <3>1, SwitchStacks
    <3> QED BY <3>2 DEF OnTrack, Resumed
  <2>3. CASE S!Created # Proc
    BY <1>1, <2>1, <2>3 DEF OnTrack
  <2> QED BY <2>2, <2>3
<1> QED
  BY <1>2, <1>3, <1>4, <1>5, <1>6, <1>7, <1>8, <1>9, <1>10 DEF Next, Boot, Handling

\* Every switch resumes what the process left, as long as every switch is between
\* two processes.
LEMMA BalancedIfApart == Spec /\ []SwitchesApart => []StacksBalanced
<1>1. Init => OnTrack
  BY DEF Init, OnTrack
<1>2. OnTrack /\ StackShapes => StacksBalanced
  BY DEF OnTrack, StacksBalanced
<1> QED
  BY <1>1, <1>2, OnTrackStep, StacksAlways, CleanAlways, KernelStackShapes, PTL DEF Spec

-----------------------------------------------------------------------------
(* Two processes take turns (TurnInv of SchedProofs), also when the ticks  *)
(* arrive between keys and switches.                                       *)

\* The processes of the kernel are two, and its slices fit the ageing threshold.
TakeTurns == (\E p, q : p # q /\ Proc = {p, q}) /\ SP!Patient

\* Only the tick that ends a slice leads to a switch, and it has picked the other
\* process.
LEMMA ApartStep ==
  ASSUME NEW W, TakeTurns, SP!Numbers(W)
  PROVE  SwitchesApart /\ SP!TurnInv(W) /\ CleanInv /\ [Next]_vars => SwitchesApart'
<1> SUFFICES ASSUME SwitchesApart, SP!TurnInv(W), CleanInv, [Next]_vars,
                    pc' = "context_switch", (S!Created = Proc)'
             PROVE  current_pcb' # cpu'
  BY DEF SwitchesApart
<1>1. CASE TickExpire
  <2>1. pc = "sched_timer_handler" /\ S!ExpireTick /\ cpu' = cpu
    BY <1>1 DEF TickExpire, Tick
  <2>2. cpu = current_pcb
    BY <2>1 DEF CleanInv, InService
  <2>3. SP!ExpireTick /\ current_pcb \in Proc
    BY <2>1, SameExpire DEF S!ExpireTick, S!Charged
  <2>4. PICK w \in Proc : w # current_pcb
    BY DEF TakeTurns
  <2>5. CASE state[w] # "NEW"
    BY <2>1, <2>2, <2>3, <2>4, <2>5, SchedParameters, SP!TurnPicks
  <2>6. CASE state[w] = "NEW"
    <3>1. SP!IInv
      BY DEF SP!TurnInv
    <3>2. current_pcb' # current_pcb => state[current_pcb'] = "READY"
      BY <2>3, <3>1, SchedParameters, SP!ExpirePicks
    <3>3. state'[w] # "NEW"
      BY <2>4 DEF S!Created
    <3>4. w = current_pcb'
      <4>1. /\ state' = [[state EXCEPT ![current_pcb] = "READY"] EXCEPT ![current_pcb'] = "RUNNING"]
        BY <2>3 DEF SP!ExpireTick, SP!sched_pick_next_process
      <4>2. state \in [SP!PCB -> SP!States] /\ w \in SP!PCB
        BY <3>1, <2>4 DEF SP!IInv, SP!TypeOK, SP!PCB
      <4> QED BY <2>4, <2>6, <3>3, <4>1, <4>2
    <3> QED BY <2>4, <2>6, <3>2, <3>4
  <2> QED BY <2>5, <2>6
<1>2. CASE \/ RegisterSyscall \/ TimerEdge \/ KeyByte \/ UNCHANGED vars
  <2>1. pc' = pc /\ cpu' = cpu /\ current_pcb' = current_pcb /\ state' = state
    BY <1>2 DEF RegisterSyscall, TimerEdge, KeyByte, vars, cpuvars, sched
  <2> QED BY <2>1 DEF SwitchesApart, S!Created
<1>3. CASE CreateProcess
  BY <1>3 DEF CreateProcess, cpuvars
<1>4. CASE RegisterPageFault \/ RegisterKeyboard \/ RegisterTimer \/ EnableInterrupts
  BY <1>4 DEF RegisterPageFault, RegisterKeyboard, RegisterTimer, BootStep, EnableInterrupts
<1>5. ASSUME NEW n \in {0, 1}, TakeIrq(n) PROVE FALSE
  <2>1. pc \in Interruptible
    BY <1>5 DEF TakeIrq, CleanInv, FlagFits
  <2> QED BY <1>5, <2>1, TakenIrq
<1>6. CASE KeyboardHandler \/ TickFirst \/ TickStay \/ StartProcess \/ Exception
  BY <1>6 DEF KeyboardHandler, TickFirst, TickStay, Tick, StartProcess, Exception
<1>7. CASE Return
  BY <1>7 DEF Return, Interruptible
<1>8. CASE bootstrap_first_process \/ context_switch
  BY <1>8 DEF bootstrap_first_process, context_switch, Resume
<1> QED
  BY <1>1, <1>2, <1>3, <1>4, <1>5, <1>6, <1>7, <1>8 DEF Next, Boot, Handling

\* A switch of the kernel goes from one of its two processes to the other,
\* whenever the ticks come: context_switch never resumes a process from a stack
\* pointer that the same call is about to replace.
THEOREM KernelSwitchesApart ==
  ASSUME TakeTurns PROVE Spec => []SwitchesApart
<1>1. PICK W : SP!Numbers(W)
  BY SchedParameters, SP!NumbersHold DEF TakeTurns, SP!Patient
<1>2. SP!TwoProcesses
  BY DEF TakeTurns, SP!TwoProcesses
<1>3. Init => SP!TurnInv(W)
  <2>1. S!Init => SP!Init
    BY DEF S!Init, SP!Init, S!Level, SP!Level, S!PCB, SP!PCB
  <2>2. SP!Init => SP!TurnInv(W)
    BY <1>1, <1>2, SchedParameters, SP!TurnInductive
  <2> QED BY <2>1, <2>2 DEF Init
<1>4. SP!TurnInv(W) /\ [Next]_vars => SP!TurnInv(W)'
  <2>1. SP!TurnInv(W) /\ [SP!Next]_(SP!vars) => SP!TurnInv(W)'
    BY <1>1, <1>2, SchedParameters, SP!TurnInductive
  <2> QED BY <2>1, StepSchedules, SameNext
<1>5. Init => SwitchesApart
  BY DEF Init, SwitchesApart
<1>6. SwitchesApart /\ SP!TurnInv(W) /\ CleanInv /\ [Next]_vars => SwitchesApart'
  BY <1>1, ApartStep
<1> QED BY <1>3, <1>4, <1>5, <1>6, CleanAlways, PTL DEF Spec

\* So every switch resumes what the process left, and the handlers that are
\* abandoned in the middle by a switch are all taken up again.
THEOREM KernelStacksBalanced ==
  ASSUME TakeTurns PROVE Spec => []StacksBalanced
BY KernelSwitchesApart, BalancedIfApart, PTL
=============================================================================
