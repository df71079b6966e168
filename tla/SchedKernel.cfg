SPECIFICATION FairSpec
CONSTANTS
  Proc = {p1, p2}
  Idle = idle
  NULL = null
  MLFQ_LEVELS = 4
  MLFQ_QUANTUMS <- KernelQuantums
  AGE_TICK_MAX = 600
  FIRST_QUANTUM = 40
  Blocking = {}
INVARIANTS SliceFitsLevel
PROPERTIES SwitchesToAnother EveryProcessRuns
