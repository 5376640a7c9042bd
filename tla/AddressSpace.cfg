\* Boot, then two spaces built and torn down in any order.
CONSTANTS
  Frames = 44
  Fan = 4
  KernelFirst = 1
  TRAMPOLINE_PHYS = 20
  Spaces = 2
  Machines <- MCMachines
  StackPages = 2
  PageBytes = 2

SPECIFICATION Spec

CHECK_DEADLOCK FALSE
INVARIANTS ResolvesAsAsked Accounted OnlyItsOwn NothingLeftBehind
