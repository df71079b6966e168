\* qemu -m 128M: the bitmap is smaller than a frame.
SPECIFICATION BootSpec
CONSTANTS
  FRAME = 4096
  BITMAP_ADDR = 4194304
  identity_mapped_cieling = 8388607
  HEADER_BYTES = 12
  RamKB = 130559
  MAX_HELD = 10
INVARIANTS ReservedKept
