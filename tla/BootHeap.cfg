\* qemu -m 4G, as the Makefile starts it.
SPECIFICATION BootSpec
CONSTANTS
  FRAME = 4096
  BITMAP_ADDR = 4194304
  identity_mapped_cieling = 8388607
  HEADER_BYTES = 12
  RamKB = 3145215
  MAX_HELD = 10
INVARIANTS HeapUnshared
