SPECIFICATION TimelySpec
CONSTANTS
    Peers = {p1, p2}
    NumPhases = 2
    MaxTouches = 1
    MaxCrashes = 1
    Cancelable = TRUE
INVARIANTS BarrierHolds NoOvertaking
PROPERTIES AllStop
