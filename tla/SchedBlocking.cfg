SPECIFICATION FairSpec
CONSTANTS
  Proc = {p1, p2, p3}
  Idle = idle
  NULL = null
  MLFQ_LEVELS = 3
  MLFQ_QUANTUMS <- SmallQuantums
  AGE_TICK_MAX = 4
  FIRST_QUANTUM = 2
  Blocking = {p1, p2}
INVARIANTS TypeOK OneListPerPcb SliceFitsLevel
PROPERTIES IdleIsFinal ReadyRuns
