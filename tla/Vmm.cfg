\* Three processes and two callers; tables of twelve entries.
SPECIFICATION VmmSpec
CONSTANTS
  ENTRIES = 12
  USER_DIR = 4
  RESERVED = 2
  OVERLAID = {0, 1}
  MEMORIES <- MCMemories
  BOOT <- MCBoot
  Callers = {"k1", "k2"}
  Explicit <- MCExplicit
  CALLS_MAX = 2
INVARIANTS TlbCoherent NoStrayEntry Private OnlyLastMissing
PROPERTIES ImplementsSpaces
CHECK_DEADLOCK FALSE
