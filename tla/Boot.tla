-------------------------------- MODULE Boot --------------------------------
(***************************************************************************)
(* kern_init (kern/init/init.c) up to the point where the memory manager   *)
(* has its region: dtb_init, then page_init of kern/mm/pmm.c, which turns  *)
(* the memory found into the descriptors of pages[] and the region that    *)
(* init_memmap gets.  Addresses are words: they wrap at Word.              *)
(***************************************************************************)
EXTENDS Dtb

CONSTANTS
  Word,                     \* 2^64
  PGSIZE,
  PageBytes,                \* sizeof(struct Page)
  DRAM_BASE,
  PHYSICAL_MEMORY_OFFSET,   \* virtual minus physical address
  PHYSICAL_MEMORY_END,
  KERNBASE,                 \* where the kernel starts, a virtual address
  KMEMSIZE,
  KernelEnd                 \* end[], the first byte after the kernel, virtual

ASSUME WordAssumption ==
  /\ \A c \in {Word, PGSIZE, PageBytes, DRAM_BASE, PHYSICAL_MEMORY_OFFSET,
               PHYSICAL_MEMORY_END, KERNBASE, KMEMSIZE, KernelEnd} : c \in Nat \ {0}
  /\ Word % PGSIZE = 0
  /\ DRAM_BASE % PGSIZE = 0

\* The kernel is in the memory that is mapped.
ASSUME KernelAssumption ==
  /\ DRAM_BASE + PHYSICAL_MEMORY_OFFSET <= KERNBASE
  /\ KERNBASE <= KernelEnd
  /\ KernelEnd + PGSIZE <= Word

VARIABLES
  npage,          \* the number of the first page frame that has no descriptor
  pages,          \* where the descriptors are, a virtual address
  region          \* the page frames given to init_memmap

vars == <<dtbVars, npage, pages, region>>

nbase == DRAM_BASE \div PGSIZE
KERNTOP == (KERNBASE + KMEMSIZE) % Word
ROUNDUP(a) == (((a + PGSIZE - 1) % Word) \div PGSIZE) * PGSIZE
ROUNDDOWN(a) == (a \div PGSIZE) * PGSIZE
PADDR(kva) == (kva - PHYSICAL_MEMORY_OFFSET) % Word

-----------------------------------------------------------------------------
(* What page_init computes from the memory found.                          *)

mem_end == (memory_base + memory_size) % Word

\* Faulty variant: capped at the physical end, unlike the region.
maxpa_physical ==
  IF mem_end > PHYSICAL_MEMORY_END THEN PHYSICAL_MEMORY_END ELSE mem_end

maxpa == IF mem_end > KERNTOP THEN KERNTOP ELSE mem_end

\* npage: frames are numbered from 0, descriptors from nbase.
FrameCount == maxpa \div PGSIZE

\* The first byte after pages[]; npage - nbase wraps below DRAM_BASE.
ArrayEnd == (ROUNDUP(KernelEnd) + PageBytes * ((FrameCount - nbase) % Word)) % Word
freemem == PADDR(ArrayEnd)

\* Faulty variant: the page in which pages[] ends is given away.
FirstFrameBelow == freemem \div PGSIZE

\* Faulty variant: a page is skipped when pages[] fills its last one.
FirstFramePast == freemem \div PGSIZE + 1

\* The frame of mem_begin.
FirstFrame == ROUNDUP(freemem) \div PGSIZE

-----------------------------------------------------------------------------
\* The bss is clear.
Init ==
  /\ DtbInit
  /\ npage = 0
  /\ pages = 0
  /\ region = {}

\* "DTB memory info not available"
NoMemoryPanic ==
  /\ pc = "page_init"
  /\ memory_size = 0
  /\ pc' = "panic"
  /\ UNCHANGED <<tree, struct_ptr, in_memory_node, memory_base, memory_size>>
  /\ UNCHANGED <<npage, pages, region>>

\* PADDR panics below KERNBASE, pa2page for a frame without a descriptor.
\* Nothing is given to the manager when pages[] reaches the end of memory.
page_init ==
  /\ pc = "page_init"
  /\ memory_size # 0
  /\ npage' = FrameCount
  /\ pages' = ROUNDUP(KernelEnd)
  /\ LET room == freemem < ROUNDDOWN(mem_end)
         count == (ROUNDDOWN(mem_end) \div PGSIZE) - FirstFrame
     IN  IF ArrayEnd < KERNBASE \/ (room /\ FirstFrame >= FrameCount)
         THEN pc' = "panic" /\ UNCHANGED region
         ELSE /\ pc' = "ready"
              /\ region' = IF room THEN FirstFrame .. (FirstFrame + count - 1) ELSE {}
  /\ UNCHANGED <<tree, struct_ptr, in_memory_node, memory_base, memory_size>>

\* Both kern_init and __panic end in a loop.
Spin ==
  /\ pc \in {"ready", "panic"}
  /\ UNCHANGED vars

Next ==
  \/ DtbStep /\ UNCHANGED <<npage, pages, region>>
  \/ NoMemoryPanic \/ page_init
  \/ Spin

Spec == Init /\ [][Next]_vars

\* Nothing preempts the boot.
FairSpec == Spec /\ WF_vars(Next)

-----------------------------------------------------------------------------
\* Where the kernel and its descriptors end, a physical address.
UsedEnd == PADDR(pages) + PageBytes * (npage - nbase)

\* The page frames that lie whole in the memory found, above all that is used.
UsableFrames ==
  {f \in 0..(Word \div PGSIZE) :
     /\ f * PGSIZE >= UsedEnd
     /\ (f + 1) * PGSIZE <= memory_base + memory_size}

\* The region given to the manager is exactly the memory that is left: no
\* page of the kernel or of pages[], no page beyond the end, none forgotten.
RegionExact == pc = "ready" => region = UsableFrames

\* Each page of the region has its descriptor.
Described == pc = "ready" => region \subseteq nbase .. (npage - 1)

\* Moreover pages[] lies in the memory found, above the kernel.
DescriptorsExist ==
  /\ Described
  /\ pc = "ready" =>
       /\ PADDR(KernelEnd) <= PADDR(pages)
       /\ UsedEnd <= memory_base + memory_size

\* The boot stops only when there is no memory to manage.
PanicJustified == pc = "panic" => memory_size = 0 \/ UsableFrames = {}

\* The managed memory stays below the end of what KMEMSIZE allows: "the
\* maximum amount of physical memory" (memlayout.h:7, used at pmm.c:86).
WithinKmemsize ==
  \A f \in region : (f + 1) * PGSIZE <= PHYSICAL_MEMORY_END

\* The walk over the tree ends, and so does the boot.
BootEnds == <>(pc \in {"ready", "panic"})
-----------------------------------------------------------------------------
(* What the proofs ask of the memory in the trees.                         *)

\* The memory of size bytes at base starts at DRAM_BASE, is mapped, and its
\* descriptors do not exceed the addresses there are.
Fits(base, size) ==
  /\ base = DRAM_BASE
  /\ size \in Nat \ {0}
  /\ base + size <= KERNTOP
  /\ ROUNDUP(KernelEnd) + PageBytes * ((base + size) \div PGSIZE - nbase) + PGSIZE <= Word

\* The addresses and sizes that the memory nodes of t give.
MemoryOf(t) ==
  {t[i] : i \in {k \in 1..Len(t) :
     /\ t[k].token = "PROP" /\ t[k].name = "reg" /\ t[k].len >= 16
     /\ \E j \in 1..Len(t) : InBody(t, j, k) /\ t[j].name \in MemoryNodes}}

MemoryFits(t) == \A reg \in MemoryOf(t) : Fits(reg.base, reg.size)

\* The kernel takes no larger part of the memory than a page has beyond its
\* descriptor: what it leaves has room for the descriptors of all pages.
KernelSpace == PADDR(ROUNDUP(KernelEnd)) - DRAM_BASE
LeavesRoom(size) == KernelSpace * PGSIZE <= size * (PGSIZE - PageBytes)

MemoryLeavesRoom(t) == \A reg \in MemoryOf(t) : LeavesRoom(reg.size)
=============================================================================
