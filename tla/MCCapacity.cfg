SPECIFICATION PartsSpec
CONSTANTS
    Plan = {p1}
    Type = {t1}
    None = None
    a1 = a1
    b1 = b1
    u1 = u1
    c1 = c1
    d1 = d1
    p1 = p1
    v1 = v1
    k1 = k1
    k2 = k2
    k3 = k3
    s1 = s1
    s2 = s2
    s3 = s3
    s4 = s4
    s5 = s5
    KindOf <- MCKindOf
    PlanOf <- MCPlanOf
    VolOf <- MCVolOf
    NewTotal <- MCNewTotal
    NewSize <- MCNewSize
    NewAdj <- MCNewAdj
    InitialSize <- MCInitialSize
    MaxFaults = 1
    Vol = {v1}
    Request = {a1, b1, u1, c1, d1}
    Cancelable = {a1, b1, u1, c1, d1}
    Failing <- MCFailing
CHECK_DEADLOCK FALSE
INVARIANTS CapacityConserved PoolsMatch MarksReleased
PROPERTY EverythingEnds
