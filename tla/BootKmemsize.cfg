SPECIFICATION Spec
CONSTANTS
  Trees <- MCTrees
  NameLength <- MCNameLength
  MemoryPrefix <- MCMemory
  MemoryNodes <- MCMemory
  MemorySizes = {32, 64}
  Word = 256
  PGSIZE = 4
  PageBytes = 1
  DRAM_BASE = 64
  PHYSICAL_MEMORY_OFFSET = 128
  PHYSICAL_MEMORY_END = 96
  KERNBASE = 196
  KMEMSIZE = 28
  KernelEnd = 199
INVARIANTS
  WithinKmemsize
