SPECIFICATION Spec
CONSTANTS
    NarrowWrap <- MCNarrowWrap
    WideWrap <- MCWideWrap
    MaxPeriod = 100
    FsPerNs = 10
    NsPerSecond = 10000
    CalibrationNs = 200
    CountMax = 100000
    TimerHz = 100
    Wanted = 4
    Machines <- MCMachines
    Casts <- MCCasts
    SelftestTicks = 2
    TickCap = 5
    RingSlots = 2
CHECK_DEADLOCK FALSE
INVARIANTS InServiceIsHandled VerdictsTrue RoutedAsAsked EntersAsItself FaultsOnlyOnPurpose TimeIsTold
PROPERTIES BringUpEnds
