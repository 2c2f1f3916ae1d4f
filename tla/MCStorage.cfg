SPECIFICATION PartsSpec
CONSTANTS
    r1 = r1
    r2 = r2
    n1 = n1
    n2 = n2
    s1 = s1
    s2 = s2
    v1 = v1
    v2 = v2
    NoValue = NoValue
    Vol = {v1, v2}
    Stg = {s1, s2}
    Vsr = {r1}
    MayFail = TRUE
    MaxStops = 2
PROPERTIES PluginKeepsItsWord VolumesFreedLast EverythingEnds
CHECK_DEADLOCK FALSE
