\* Every machine of BootMC, to the end of its boot.
CONSTANTS
  PAGE_SIZE = 8
  ADDR_MAX = 1023
  GIB = 64
  EHDR = 2
  PHDR = 1
  MAX_TABLE = 60
  MAX_CPU_IDS = 3
  Pages = 36
  KERNEL_VMA = 800
  MIN_MAPPED = 128
  MAP_SLACK_DESCRIPTORS = 2
  EXIT_ATTEMPTS = 3
  MAX_REGIONS = 12
  MAX_FREE_RUNS = 2
  HEAP_SLACK = 5
  DESC = 1
  REGION = 1
  INFO = 3
  Machines <- MCMachines

SPECIFICATION Spec

CHECK_DEADLOCK FALSE
INVARIANTS MapHandedOver FreeMemoryExact AllWithinReach EnteredAsLinked TablesAsWritten
PROPERTIES BootEnds
