CONSTANTS
  SR = {r1, r2, r3}
  Stg = {s1}
  Vol = {v1, v2}
  Node = {n1, n2}
  Plans <- MCPlans
  MaxFaults = 2
  MaxCrashes = 2
  MaxExpired = 1
  MaxEvents = 4
  ListFails = FALSE
SYMMETRY MCSymmetry
SPECIFICATION MCSpec
CHECK_DEADLOCK FALSE
INVARIANTS
  OrphansAreTagged
  OneRequestPerStorage
  ProvisionedIsOwned
PROPERTIES
  SuccessIsReal
  ImplementsLife
