SPECIFICATION FairSchedSpec
CONSTANTS
  MaxTasks = 4
  Message = {m1}
  Empty = Empty
INVARIANTS SchedInv OnItsOwnStackAndTree BuriedBySuccessor
PROPERTIES TornDownFromOutside RoundRobin ReadyRuns
