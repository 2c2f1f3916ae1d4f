SPECIFICATION PartsSpec
CONSTANTS
    n1 = n1
    Node = {n1}
    Proc = {"a", "b"}
    SiteOf <- Site
    Home = "A"
    TaskEvery = 2
    ClusterMisses = 2
    MaxDelay = 1
    MaxAge = 3
    MaxTasks = 2
    MaxStops = 2
    MaxLost = 1
    Nothing = Nothing
INVARIANTS
    FinalSnapshot
    ObjectsAreTrue
    CreateIsWhole
    RenameIsWhole
    NoLostWakeup
    OneSite
PROPERTIES TornDownStays EverythingEnds
CHECK_DEADLOCK FALSE
