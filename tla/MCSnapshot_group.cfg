SPECIFICATION Spec
CONSTANTS
    v1 = v1
    v2 = v2
    Vol = {v1, v2}
    MayExpire = TRUE
    MayCancel <- MCMayCancel
    MayLeave = {v2}
    MaxFaults = 1
    Writes <- MCWrites
CHECK_DEADLOCK FALSE
INVARIANT GroupIsConsistent
