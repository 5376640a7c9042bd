SPECIFICATION FairSpec
CONSTANTS
  N = 3
CHECK_DEADLOCK FALSE
INVARIANTS WokenAnswered OwnStack
PROPERTIES BringUpEnds
