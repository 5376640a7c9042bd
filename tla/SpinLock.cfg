SPECIFICATION FairSpec
CONSTANTS
  Core = {c1, c2, c3}
  TicketMod = 4
INVARIANTS MutualExclusion InterruptDiscipline
PROPERTIES FirstComeFirstServed Served
