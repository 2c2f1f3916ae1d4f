SPECIFICATION PartsSpec
CONSTANTS
    Types <- AllTypes
    Client = {c1, c2}
    MaxDocs = 1
    MaxUpdates = 2
    Subfields = FALSE
    FreshObject = FALSE
    w1 = w1
    w2 = w2
INVARIANTS UpdatesAreTrue SnapshotsAreTrue
PROPERTY EverythingEnds
CHECK_DEADLOCK FALSE
