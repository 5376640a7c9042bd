SPECIFICATION SchedSpec
CONSTANTS
  MaxTasks = 2
  Message = {m1}
  Empty = Empty
INVARIANTS
  PrivilegeStackNotFreed
