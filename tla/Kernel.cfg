\* Two processes and the idle process; one exception vector besides the page
\* fault, two interrupt vectors, three system calls.
SPECIFICATION FairSpec
CONSTANTS
  FIRST_IRQ = 2
  FIRST_SYSCALL = 4
  VECTORS = 7
  CPU_ENTRIES = 2
  IRQ_ENTRIES = 2
  SYSCALL_ENTRIES = 7
  SyscallVectors = {4}
  Proc = {p1, p2}
  Idle = idle
  NULL = null
  MLFQ_LEVELS = 2
  MLFQ_QUANTUMS <- SmallQuantums
  AGE_TICK_MAX = 2
  FIRST_QUANTUM = 2
  PAGE_FAULT = 1
  BYTES_MAX = 2
INVARIANTS HandlerFound RunsClean StacksBalanced SwitchesApart
PROPERTIES TicksArrive KeysRead ProcessesRun
CHECK_DEADLOCK FALSE
