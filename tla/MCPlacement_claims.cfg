SPECIFICATION Spec
CONSTANTS
  v1 = v1 v2 = v2 r1 = r1 r2 = r2 r3 = r3
  d1 = d1 d2 = d2 d3 = d3 s1 = s1 s2 = s2 s3 = s3 s4 = s4 s5 = s5
  None = None
  Volumes = {v1, v2}
  Requests = {r1, r2, r3}
  Disks = {d1, d2}
  Srs = {s1, s2}
  OpOf <- MCOpOf
  VolOf <- MCVolOf
  Need <- MCNeed
  Cancelable = {r2}
  FixedParcels = 2
  MinParcels = 1
  MaxParcels = 2
  Layouts = {"shared", "unshared"}
  Failing = {"storage", "plan", "load", "create", "claim", "volume", "provision", "release", "crash"}
  MaxFaults = 1
  MaxTroubles = 1
INVARIANTS CapacityAccounted UsedStorageIsKept ClaimsHold
CHECK_DEADLOCK FALSE
