-------------------------------- MODULE Isr --------------------------------
(***************************************************************************)
(* The handler tables of src/src/kernel/arch/i386/interrupts/isr.c.        *)
(*                                                                         *)
(* The three arrays cpu_exception_handlers, irq_handlers and               *)
(* syscall_handlers lie one after the other in .bss, in the order of their *)
(* declaration, and all three are indexed with the vector itself: an       *)
(* interrupt vector (32 .. 47) is beyond the 16 entries of irq_handlers.   *)
(* Memory is therefore modelled as the row of words the arrays occupy.     *)
(* The numbers are parameters: 32, 48 and 256 in the code.                 *)
(***************************************************************************)
EXTENDS Integers

CONSTANTS
  FIRST_IRQ,         \* 32, the vector of IRQ 0 (pic_remap)
  FIRST_SYSCALL,     \* 48
  VECTORS,           \* 256, the entries of the IDT
  CPU_ENTRIES, IRQ_ENTRIES, SYSCALL_ENTRIES,   \* 32, 16, 256
  SyscallVectors     \* vectors for which some code registers a system call

Vector == 0 .. VECTORS - 1
Word   == 0 .. CPU_ENTRIES + IRQ_ENTRIES + SYSCALL_ENTRIES - 1

ASSUME IsrAssumption ==
  /\ FIRST_IRQ \in Nat /\ FIRST_SYSCALL \in Nat /\ VECTORS \in Nat
  /\ CPU_ENTRIES \in Nat /\ IRQ_ENTRIES \in Nat /\ SYSCALL_ENTRIES \in Nat
  /\ FIRST_IRQ + 1 < FIRST_SYSCALL /\ FIRST_SYSCALL < VECTORS
  /\ FIRST_IRQ <= CPU_ENTRIES
  /\ FIRST_SYSCALL <= IRQ_ENTRIES + SYSCALL_ENTRIES
  /\ VECTORS <= SYSCALL_ENTRIES
  /\ SyscallVectors \subseteq Vector

Handler == {"none", "kernel_panic", "paging_page_fault_handler", "keyboard_handler",
            "sched_timer_handler", "syscall"}

VARIABLES
  handlers,     \* the words of the three arrays
  registered    \* history: vector |-> the handler last registered for it

isr == <<handlers, registered>>

\* The word of an entry of each array.
CpuSlot(v)     == v

\* A slip for IrqSlot: the vector is made an index of the array, but only here.
IrqSlotOffset(v) == CPU_ENTRIES + (v - FIRST_IRQ)

IrqSlot(v)     == CPU_ENTRIES + v
SyscallSlot(v) == CPU_ENTRIES + IRQ_ENTRIES + v

\* init_isr: every word is cleared, every exception panics.
init_isr ==
  /\ handlers = [w \in Word |-> IF w < FIRST_IRQ THEN "kernel_panic" ELSE "none"]
  /\ registered = [v \in Vector |-> IF v < FIRST_IRQ THEN "kernel_panic" ELSE "none"]

\* Each registration ignores a vector of another kind.
Register(accepted, slot, v, h) ==
  IF accepted THEN /\ handlers' = [handlers EXCEPT ![slot] = h]
                   /\ registered' = [registered EXCEPT ![v] = h]
  ELSE UNCHANGED isr

register_cpu_handler(v, h) == Register(v < FIRST_IRQ, CpuSlot(v), v, h)
register_irq_handler(v, h) == Register(v >= FIRST_IRQ /\ v < FIRST_SYSCALL, IrqSlot(v), v, h)
register_syscall_handler(v, h) == Register(v >= FIRST_SYSCALL, SyscallSlot(v), v, h)

\* The handler that master_exception_handler calls for a vector.
Dispatched(v) ==
  IF v < FIRST_IRQ THEN handlers[v]
  ELSE IF v < FIRST_SYSCALL THEN handlers[CPU_ENTRIES + v]
  ELSE handlers[CPU_ENTRIES + IRQ_ENTRIES + v]

IsrNext ==
  \E v \in Vector, h \in Handler :
    register_cpu_handler(v, h) \/ register_irq_handler(v, h) \/ register_syscall_handler(v, h)

IsrSpec == init_isr /\ [][IsrNext]_isr

-----------------------------------------------------------------------------
(* Properties.                                                             *)

\* Every vector is dispatched to the handler last registered for it, although
\* the interrupt handlers are stored outside their array: no registration
\* overwrites the word of another vector.
HandlerFound == \A v \in Vector : Dispatched(v) = registered[v]

\* The tables are indexed within the memory of the three arrays.
IsrTypeOK ==
  /\ handlers \in [Word -> Handler]
  /\ registered \in [Vector -> Handler]
=============================================================================
