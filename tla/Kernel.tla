------------------------------- MODULE Kernel -------------------------------
(***************************************************************************)
(* The running kernel: how the scheduler (Sched), the handler tables       *)
(* (Isr), the interrupt controller, the interrupt stubs and the context    *)
(* switch work together, from the end of kernel_main's boot code on.       *)
(*                                                                         *)
(* Sources: kernel.c, interrupts/interrupts.asm, interrupts/isr.c,         *)
(* interrupts/pic.c, proc/ctxswitch.asm, proc/sched.c.                     *)
(*                                                                         *)
(* A stack is a memory of frames, indexed by depth.  A frame is            *)
(*   "start"             the CpuContext create_process_stack put there     *)
(*   "ctx"               what context_switch pushed, its return address in *)
(*                       sched_timer_handler included                      *)
(*   "run", "starting"   what an interrupt pushed: the code to go back to, *)
(*                       a process or its start                            *)
(* Popping does not erase a frame.  The stack of NULL is the boot stack.   *)
(***************************************************************************)
EXTENDS Isr, FiniteSets

CONSTANTS
  Proc, Idle, NULL, MLFQ_LEVELS, MLFQ_QUANTUMS, AGE_TICK_MAX, FIRST_QUANTUM,  \* see Sched
  PAGE_FAULT,    \* 14
  BYTES_MAX      \* bound: bytes waiting in the keyboard controller

ASSUME KernelAssumption == PAGE_FAULT \in 0 .. FIRST_IRQ - 1

\* What Sched assumes of its parameters.
ASSUME SchedAssumption ==
  /\ IsFiniteSet(Proc) /\ Idle \notin Proc /\ NULL \notin Proc \cup {Idle}
  /\ MLFQ_LEVELS \in Nat \ {0} /\ AGE_TICK_MAX \in Nat \ {0}
  /\ MLFQ_QUANTUMS \in [0 .. MLFQ_LEVELS - 1 -> Nat \ {0}]
  /\ FIRST_QUANTUM \in 1 .. MLFQ_QUANTUMS[0]

VARIABLES
  priority_queues, waiting_queue, current_pcb, state, priority,
  quantum_remaining, age_ticks, irq_on,                           \* see Sched
  pc,            \* the code being executed
  cpu,           \* whose stack, and address space, the CPU is using
  esp,           \* depth of that stack
  stack,         \* the memory of each stack
  kernel_stack_ptr,   \* pcb->kernel_stack_ptr, as a depth
  iflag,         \* the interrupt flag of the CPU
  irr,           \* PIC: interrupts requested
  in_service,    \* PIC: interrupts not yet acknowledged
  bytes          \* bytes waiting in the keyboard controller

S == INSTANCE Sched WITH Blocking <- {}

sched   == <<priority_queues, waiting_queue, current_pcb, state, priority,
             quantum_remaining, age_ticks, irq_on>>
cpuvars == <<pc, cpu, esp, stack, kernel_stack_ptr, iflag>>
vars    == <<sched, isr, cpuvars, irr, in_service, bytes>>

DEPTH  == 1 .. 3
PCB    == Proc \cup {Idle}
Owners == PCB \cup {NULL}

\* The code that runs with interrupts enabled: a process or the loop at the
\* end of kernel_main, and the start of a process between popf and ret.
Interruptible == {"run", "starting"}

-----------------------------------------------------------------------------
(* Boot: the rest of kernel_main, after init_isr and sched_init.           *)

Init ==
  /\ S!Init
  /\ init_isr
  /\ pc = "boot_memory" /\ cpu = NULL /\ esp = 0
  /\ stack = [o \in Owners |-> [d \in DEPTH |-> IF o # NULL /\ d = 1 THEN "start" ELSE "free"]]
  /\ kernel_stack_ptr = [p \in PCB |-> 1]
  /\ iflag = FALSE
  /\ irr = {} /\ in_service = {} /\ bytes = 0

\* pic_remap: the vector of a line.
IrqVector(n) == FIRST_IRQ + n

\* One registration of the boot code.
BootStep(from, to, registration) ==
  /\ pc = from
  /\ registration
  /\ pc' = to
  /\ UNCHANGED <<sched, cpu, esp, stack, kernel_stack_ptr, iflag, irr, in_service, bytes>>

\* paging_init; sched_init, which comes after it, has nothing to do with it.
RegisterPageFault ==
  BootStep("boot_memory", "boot_processes",
           register_cpu_handler(PAGE_FAULT, "paging_page_fault_handler"))

CreateProcess ==
  /\ pc = "boot_processes"
  /\ \E p \in Proc : S!CreateProcess(p)
  /\ UNCHANGED <<isr, cpuvars, irr, in_service, bytes>>

\* init_keyboard, when the creation of every process was tried; at most the last
\* one is missing (Vmm).
RegisterKeyboard ==
  /\ Cardinality(Proc \ S!Created) <= 1
  /\ BootStep("boot_processes", "boot_timer",
              register_irq_handler(IrqVector(1), "keyboard_handler"))

\* isr_register_sched_timer
RegisterTimer ==
  BootStep("boot_timer", "boot_sti", register_irq_handler(IrqVector(0), "sched_timer_handler"))

\* sti
EnableInterrupts ==
  /\ pc = "boot_sti"
  /\ S!EnableInterrupts
  /\ pc' = "run" /\ iflag' = TRUE
  /\ UNCHANGED <<isr, cpu, esp, stack, kernel_stack_ptr, irr, in_service, bytes>>

\* Kernel code may register a system call at any time.
RegisterSyscall ==
  /\ \E v \in SyscallVectors : registered[v] = "none" /\ register_syscall_handler(v, "syscall")
  /\ UNCHANGED <<sched, cpuvars, irr, in_service, bytes>>

-----------------------------------------------------------------------------
(* The devices and the PIC.                                                *)

\* The timer requests an interrupt; the PIC remembers one.
TimerEdge ==
  /\ irr' = irr \cup {0}
  /\ UNCHANGED <<sched, isr, cpuvars, in_service, bytes>>

\* A byte arrives at the keyboard controller, which requests an interrupt when
\* it becomes the byte to read.
KeyByte ==
  /\ bytes < BYTES_MAX
  /\ bytes' = bytes + 1
  /\ irr' = IF bytes = 0 THEN irr \cup {1} ELSE irr
  /\ UNCHANGED <<sched, isr, cpuvars, in_service>>

\* A slip for Unmasked: the mask 0xFD.
UnmaskedKeyboard == {1}

\* A slip for Unmasked: the mask 0xFE.
UnmaskedTimer == {0}

\* kernel_main masks all lines of the PIC but 0 and 1 (0xFC).
Unmasked == {0, 1}

\* The request the PIC passes on: the first one, if nothing as urgent is in
\* service.
Deliverable(n) ==
  /\ n \in irr \cap Unmasked
  /\ \A k \in 0 .. n - 1 : k \notin irr \cap Unmasked
  /\ \A k \in 0 .. n : k \notin in_service

\* A slip for pic_send_eoi: the command never reaches the PIC.
EoiLost(serving) == serving

\* The PIC ends the most urgent interrupt in service.
pic_send_eoi(serving) == {n \in serving : \E k \in serving : k < n}

-----------------------------------------------------------------------------
(* Interrupts.                                                             *)

Pushed(frame) == [stack EXCEPT ![cpu][esp + 1] = frame]

\* Every gate of the IDT is an interrupt gate (0x8E): handlers are entered with
\* interrupts disabled.
GateFlag == FALSE

\* The CPU, the stub and master_exception_handler up to the call of the handler
\* registered for the vector.
TakeIrq(n) ==
  LET handler == Dispatched(IrqVector(n))
  IN  /\ iflag /\ pc # "derailed" /\ Deliverable(n)
      /\ irr' = irr \ {n} /\ in_service' = in_service \cup {n}
      /\ stack' = Pushed(pc) /\ esp' = esp + 1
      /\ iflag' = GateFlag
      /\ pc' = IF handler = "none" THEN "return" ELSE handler
      /\ UNCHANGED <<sched, isr, cpu, kernel_stack_ptr, bytes>>

\* The end of the stub: iret to the code that was interrupted, which had
\* interrupts enabled.
Return ==
  /\ pc = "return"
  /\ IF esp \in DEPTH /\ stack[cpu][esp] \in Interruptible
     THEN pc' = stack[cpu][esp] /\ esp' = esp - 1 /\ iflag' = TRUE
     ELSE pc' = "derailed" /\ UNCHANGED <<esp, iflag>>
  /\ UNCHANGED <<sched, isr, cpu, stack, kernel_stack_ptr, irr, in_service, bytes>>

\* keyboard_handler: a byte is read and the interrupt acknowledged; the
\* controller requests the next one if another byte waits.  (Without a byte
\* the handler returns at once.)
KeyboardHandler ==
  /\ pc = "keyboard_handler"
  /\ pc' = "return"
  /\ IF bytes = 0 THEN UNCHANGED <<irr, in_service, bytes>>
     ELSE /\ bytes' = bytes - 1
          /\ in_service' = pic_send_eoi(in_service)
          /\ irr' = IF bytes > 1 THEN irr \cup {1} ELSE irr
  /\ UNCHANGED <<sched, isr, cpu, esp, stack, kernel_stack_ptr, iflag>>

\* sched_timer_handler up to the switch: sched_tick, pic_send_eoi and
\* sched_pick_next_process.
Tick(how, next) ==
  /\ pc = "sched_timer_handler"
  /\ how
  /\ in_service' = pic_send_eoi(in_service)
  /\ pc' = next
  /\ UNCHANGED <<isr, cpu, esp, stack, kernel_stack_ptr, iflag, irr, bytes>>

TickFirst  == Tick(S!FirstTick, "bootstrap_first_process")
TickExpire == Tick(S!ExpireTick, "context_switch")
TickStay   == Tick(S!IdleTick \/ S!AgeTick, "return")

-----------------------------------------------------------------------------
(* ctxswitch.asm                                                           *)

\* The second half of both routines: the stack and the address space of p are
\* used, at the depth given, and the flags popped: those of a new context
\* enable interrupts, those context_switch saved in the handler do not.
Resume(p, depth, memory) ==
  /\ cpu' = p
  /\ stack' = memory
  /\ \/ memory[p][depth] = "start" /\ pc' = "starting" /\ iflag' = TRUE /\ esp' = depth
     \/ memory[p][depth] = "ctx" /\ pc' = "return" /\ iflag' = FALSE /\ esp' = depth - 1
     \/ /\ memory[p][depth] \notin {"start", "ctx"}
        /\ pc' = "derailed" /\ UNCHANGED <<iflag, esp>>
  /\ UNCHANGED <<sched, isr, irr, in_service, bytes>>

\* The boot stack is abandoned.
bootstrap_first_process ==
  /\ pc = "bootstrap_first_process"
  /\ Resume(current_pcb, kernel_stack_ptr[current_pcb], stack)
  /\ UNCHANGED kernel_stack_ptr

\* A slip for Saved: the stack pointer of the old process is not stored.
SavedNot(p, depth) == kernel_stack_ptr

Saved(p, depth) == [kernel_stack_ptr EXCEPT ![p] = depth]

\* The stack pointer of the new process was read before the old one's is
\* saved.
context_switch ==
  /\ pc = "context_switch"
  /\ kernel_stack_ptr' = Saved(cpu, esp + 1)
  /\ Resume(current_pcb, kernel_stack_ptr[current_pcb], Pushed("ctx"))

\* popa and ret, to the first instruction of the process.
StartProcess ==
  /\ pc = "starting"
  /\ pc' = "run" /\ esp' = esp - 1
  /\ UNCHANGED <<sched, isr, cpu, stack, kernel_stack_ptr, iflag, irr, in_service, bytes>>

\* An exception: kernel_panic, directly or through paging_page_fault_handler,
\* disables interrupts and halts.
Exception ==
  /\ pc \notin {"derailed", "halted"}
  /\ \E v \in 0 .. FIRST_IRQ - 1 : Dispatched(v) \in {"kernel_panic", "paging_page_fault_handler"}
  /\ pc' = "halted" /\ iflag' = FALSE
  /\ UNCHANGED <<sched, isr, cpu, esp, stack, kernel_stack_ptr, irr, in_service, bytes>>

-----------------------------------------------------------------------------
Boot == RegisterPageFault \/ CreateProcess \/ RegisterKeyboard \/ RegisterTimer \/ EnableInterrupts

\* The steps of the CPU with interrupts disabled, and the start of a process.
Handling ==
  \/ KeyboardHandler
  \/ TickFirst \/ TickExpire \/ TickStay
  \/ bootstrap_first_process \/ context_switch
  \/ Return \/ StartProcess

Next ==
  \/ Boot
  \/ RegisterSyscall
  \/ TimerEdge \/ KeyByte
  \/ TakeIrq(0) \/ TakeIrq(1)
  \/ Handling
  \/ Exception

Spec == Init /\ [][Next]_vars

\* The CPU executes what it has begun and takes an interrupt that it could take
\* again and again: the PIC keeps the request while another is handled.  The
\* timer never stops.  Interrupts do not keep a process from its first
\* instruction for ever.
Fairness ==
  /\ WF_vars(Boot) /\ WF_vars(Handling) /\ WF_vars(TimerEdge)
  /\ SF_vars(TakeIrq(0)) /\ SF_vars(TakeIrq(1)) /\ SF_vars(StartProcess)

FairSpec == Spec /\ Fairness

-----------------------------------------------------------------------------
(* Properties.                                                             *)

\* Code that can be interrupted runs with interrupts enabled and nothing in
\* service, on the stack of the process the scheduler says is running: on no
\* path through a handler, a first start or a switch is the EOI or the
\* interrupt flag lost.
RunsClean ==
  pc \in Interruptible => iflag /\ in_service = {} /\ cpu = current_pcb

\* A stack memory s with the stack pointer d, as context_switch may find it: the
\* context a process starts from; or what a switch left above the frame of an
\* interrupt, taken while it ran or just before its first instruction.
Parked(s, d) ==
  \/ d = 1 /\ s[1] = "start"
  \/ d = 2 /\ s[1] = "run" /\ s[2] = "ctx"
  \/ d = 3 /\ s[1] = "start" /\ s[2] = "starting" /\ s[3] = "ctx"

\* The stack of a process is in one of these three states while another runs.  A
\* process that runs has an empty stack: nothing is left behind by the handlers
\* that were abandoned in the middle.
StackShapes ==
  /\ pc \notin {"halted", "derailed"} =>
       \A p \in PCB \ {cpu} : Parked(stack[p], kernel_stack_ptr[p])
  /\ pc = "run" => esp = 0
  /\ pc = "starting" => esp = 1

\* So every switch resumes what the process left, if every process was created.
\* (With one process alone the first switch goes from it to itself, to a stack
\* pointer its first start has used up.)
StacksBalanced == StackShapes /\ (S!Created = Proc => pc # "derailed")

\* context_switch is handed two processes: the stack pointer it resumes from was
\* read before the one it saves (SwitchesToAnother of Sched, seen from the switch).
SwitchesApart == pc = "context_switch" /\ S!Created = Proc => current_pcb # cpu

\* The machine goes on: it has neither panicked nor lost its way.
Alive == pc \notin {"halted", "derailed"}

\* The fairness Sched assumes of the timer is what the kernel provides: as long
\* as the machine goes on ticks reach the scheduler for ever, through every
\* switch of stacks and past the interrupts of the keyboard.
TicksArrive == []Alive => S!Fairness

\* A tick (every 55 ms) finds the handler of the one before long finished, so
\* again and again a process runs with no tick waiting.
TicksApart == []<>(pc \in Interruptible /\ 0 \notin irr)

\* Bytes of the keyboard are read, although the timer is more urgent and its
\* handler leaves through another process's stack.
KeysRead == []Alive /\ TicksApart => (irq_on /\ bytes > 0 ~> pc = "keyboard_handler")

\* Every process that was created executes its code again and again.
ProcessesRun ==
  []Alive => \A p \in Proc : (irq_on /\ state[p] # "NEW") ~> (pc = "run" /\ cpu = p)
=============================================================================
