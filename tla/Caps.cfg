SPECIFICATION Spec
CONSTANTS
  Task = {t1, t2}
  EndpointId = {e1, e2}
  Nothing = Nothing
  GenMod = 4
  MaxSlots = 2
  MaxObjects = 3
  MaxHandles = 2
  MaxTransit = 1
CHECK_DEADLOCK FALSE
INVARIANTS ResolvesIffAlive NoAmplification
PROPERTIES HandlesNeverMove NoTrafficWithoutAuthority
