---------------------------- MODULE BootMemory -----------------------------
(***************************************************************************)
(* Physical memory as kernel_main sets it up: pmm_init, paging_init and    *)
(* kmalloc_init (src/src/kernel/memory/pmm.c,                              *)
(* src/src/kernel/arch/i386/memory/paging.c,                               *)
(* src/src/kernel/klibc/kmemory.c), then frames handed out and given back. *)
(*                                                                         *)
(* The frame bitmap is a piece of memory like any other.  mem is the set   *)
(* of the bits that are 1 from BITMAP_ADDR on, numbered from 0, so that    *)
(* bit f is the bitmap's bit for frame f as long as f < total_frames; the  *)
(* same bits may belong to the kernel page directory or to the heap's      *)
(* first header, if these come to lie there.                               *)
(***************************************************************************)
EXTENDS Integers, FiniteSets

CONSTANTS
  FRAME,                     \* PMM_FRAME_SIZE, in bytes
  BITMAP_ADDR,               \* 0x00400000
  identity_mapped_cieling,   \* 0x007FFFFF, where the heap ends
  HEADER_BYTES,              \* sizeof(MemoryBlockHeader)
  RamKB,                     \* mem_lower + mem_upper, in KB
  MAX_HELD                   \* bound: frames held at a time

ASSUME BootAssumption ==
  /\ FRAME \in Nat /\ FRAME >= 1024 /\ BITMAP_ADDR \in Nat /\ BITMAP_ADDR % FRAME = 0
  /\ identity_mapped_cieling \in Nat /\ HEADER_BYTES \in Nat /\ RamKB \in Nat /\ MAX_HELD \in Nat

VARIABLES
  phase,              \* what kernel_main has initialised: "none", "pmm", "paging", "heap"
  mem,                \* the bits that are 1, from BITMAP_ADDR on
  kernel_directory,   \* its physical address, 0 before paging_init
  kernel_tables,      \* the frames of the directory and of its two page tables
  frames              \* the frames handed out and not given back

bootVars == <<phase, mem, kernel_directory, kernel_tables, frames>>

\* total_ram_bytes is 32 bits wide, which is 2^22 KB, and total_frames is
\* total_ram_bytes / 4096.
total_frames == (RamKB % 4194304) \div (FRAME \div 1024)

\* 32 bits to a word, 4 bytes to a word.
bitmap_bytes == 4 * ((total_frames + 31) \div 32)

\* next_free_address, which pmm_init returns as the start of the heap.
heap_start == BITMAP_ADDR + bitmap_bytes

\* A slip for frames_to_reserve: the bitmap's own place is forgotten.
BitmapFrames == bitmap_bytes \div FRAME

\* Rounded down: a frame the bitmap fills in part is not reserved.
frames_to_reserve == heap_start \div FRAME

BootInit == phase = "none" /\ mem = {} /\ kernel_directory = 0
        /\ kernel_tables = {} /\ frames = {}

pmm_init ==
  /\ phase = "none"
  /\ phase' = "pmm"
  /\ mem' = {f \in 0 .. frames_to_reserve - 1 : f < total_frames}
  /\ UNCHANGED <<kernel_directory, kernel_tables, frames>>

-----------------------------------------------------------------------------
(* pmm_allocate_frame, pmm_free_frame and the bitmap.                      *)

Unset(m, f) == f \notin m

\* The first frame whose bit in m is not set, 0 if there is none.
FirstFree(m) ==
  IF \A f \in 0 .. total_frames - 1 : ~Unset(m, f) THEN 0
  ELSE CHOOSE f \in 0 .. total_frames - 1 : Unset(m, f) /\ \A g \in 0 .. f - 1 : ~Unset(m, g)

\* A slip for Marked: the bit of the frame handed out is not set.
MarkedNot(m, f) == m

\* Frame 0 is what the code returns when nothing is free; its bit is set.
Marked(m, f) == m \cup {f}

AllocateFrame ==
  LET f == FirstFree(mem)
  IN  /\ phase = "heap"
      /\ Cardinality(frames) < MAX_HELD
      /\ f # 0
      /\ mem' = Marked(mem, f)
      /\ frames' = frames \cup {f}
      /\ UNCHANGED <<phase, kernel_directory, kernel_tables>>

\* A caller gives back a frame it was handed; the kernel keeps its directory
\* and its page tables.
FreeFrame(f) ==
  /\ phase = "heap"
  /\ f \in frames \ kernel_tables
  /\ mem' = mem \ {f}
  /\ frames' = frames \ {f}
  /\ UNCHANGED <<phase, kernel_directory, kernel_tables>>

-----------------------------------------------------------------------------
(* paging_init and kmalloc_init.                                           *)

BitsOf(word) == {b \in 0 .. 30 : (word \div 2^b) % 2 = 1}

\* The number of the first bit of the byte at addr, and the word at addr with
\* the given bits.
BitAt(addr)      == 8 * (addr - BITMAP_ADDR)
Word(addr, bits) == {BitAt(addr) + b : b \in bits}

\* The kernel directory gets the first frame, cleared, and its entries 0 and
\* 1, present and writable, the next two: the identity map of the first 8 MB.
paging_init ==
  LET dir  == FirstFree(mem)
      m1   == Marked(mem, dir)
      pt0  == FirstFree(m1)
      m2   == Marked(m1, pt0)
      pt1  == FirstFree(m2)
      m3   == Marked(m2, pt1)
      d    == dir * FRAME
      zero == {b \in m3 : b \notin BitAt(d) .. BitAt(d + FRAME) - 1}
  IN  /\ phase = "pmm"
      /\ phase' = "paging"
      /\ kernel_directory' = d
      /\ mem' = zero \cup Word(d, BitsOf(pt0 * FRAME) \cup {0, 1})
                     \cup Word(d + 4, BitsOf(pt1 * FRAME) \cup {0, 1})
      /\ kernel_tables' = {dir, pt0, pt1}
      /\ frames' = {dir, pt0, pt1}

\* The header of the heap's one free block: size, is_free, next.
kmalloc_init ==
  LET old == BitAt(heap_start) .. BitAt(heap_start + 4) + 7
  IN  /\ phase = "paging"
      /\ phase' = "heap"
      /\ mem' = {b \in mem : b \notin old /\ b \notin BitAt(heap_start + 8) .. BitAt(heap_start + 12) - 1}
                \cup Word(heap_start, BitsOf(identity_mapped_cieling - heap_start - HEADER_BYTES))
                \cup Word(heap_start + 4, {0})
      /\ UNCHANGED <<kernel_directory, kernel_tables, frames>>

-----------------------------------------------------------------------------
BootNext == pmm_init \/ paging_init \/ kmalloc_init \/ AllocateFrame \/ \E f \in frames : FreeFrame(f)

BootSpec == BootInit /\ [][BootNext]_bootVars

-----------------------------------------------------------------------------
(* Properties.                                                             *)

\* The frames below the bitmap (interrupt vectors, VGA memory, the kernel
\* itself) are not handed out, whatever has been written over the bitmap
\* since pmm_init reserved them.
ReservedKept == \A f \in frames : f * FRAME >= BITMAP_ADDR

\* A frame that somebody holds is marked in the bitmap, so that it is not
\* handed out again: the directory, the page tables and the heap header that
\* were placed in memory after the bitmap was laid out have not erased marks.
HeldMarked == frames \subseteq mem

\* The heap from heap_start to identity_mapped_cieling is kmalloc's alone: no
\* frame handed out for a directory, a page table, code or a stack lies in it.
HeapUnshared ==
  phase = "heap" => \A f \in frames :
                      f * FRAME + FRAME <= heap_start \/ f * FRAME > identity_mapped_cieling
=============================================================================
