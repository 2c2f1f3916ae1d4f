----------------------------- MODULE MCCapacity -----------------------------
(* Model checking of Capacity, and of what requests wait for in Placement, *)
(* each in its own behaviours.                                             *)
EXTENDS Capacity

CONSTANTS a1, b1, u1, c1, d1, p1, v1, k1, k2, k3, s1, s2, s3, s4, s5

VARIABLES
    part,  \* the module of this behaviour
    x1, x2, x3, x4, x5, x6, x7, x8, x9, x10, x11, x12

x == <<x1, x2, x3, x4, x5, x6, x7, x8, x9, x10, x11, x12>>

MCKindOf == [r \in Request |->
    CASE r = a1 -> "ALLOCATE_CAPACITY" [] r = b1 -> "BIND" [] r = u1 -> "UNBIND"
      [] r = c1 -> "CHANGE_CAPACITY" [] OTHER -> "DELETE_SPA"]
MCPlanOf == [r \in Request \cup Vol |-> p1]
MCVolOf == [r \in OfKind(VolumeKinds) |-> v1]
MCNewTotal == [r \in OfKind({"ALLOCATE_CAPACITY"}) |-> 3]
MCNewSize == [r \in OfKind({"CHANGE_CAPACITY"}) |-> 2]
MCNewAdj == [r \in OfKind({"CHANGE_CAPACITY"}) |-> 1]
MCInitialSize == [v \in Vol |-> 1]

\* Everything may fail, whichever request it is.
MCFailing == Request \X {"request", "state", "spa", "pool", "volume", "account", "read",
                         "answer", "later", "crash"}

------------------------------------------------------------------------------
P == INSTANCE Placement WITH
    layout <- x1, req <- x2, vol <- x3, disk <- x4, sr <- x5, cs <- x6,
    lock <- x7, loop <- x8, run <- x9, faults <- x10,
    missed <- x11, torn <- x12, Volumes <- {"v1"},
    Requests <- {"r1", "r3"}, Disks <- {k1, k2, k3},
    Srs <- {s1, s2, s3, s4, s5}, None <- None,
    OpOf <- [r1 |-> "PLACE", r3 |-> "DELETE"],
    VolOf <- [r1 |-> "v1", r3 |-> "v1"], Need <- [v1 |-> 1],
    FixedParcels <- 2, MinParcels <- 1, MaxParcels <- 2, Cancelable <- {"r1"},
    Layouts <- {"shared", "unshared"},
    Failing <- {"load", "create", "claim", "plan", "volume", "provision", "release", "crash"},
    MaxFaults <- 1, MaxTroubles <- 2

------------------------------------------------------------------------------
PartsInit ==
    /\ Init
    /\ \/ part = "place" /\ P!Init
       \/ part = "capacity" /\ x1 = 0 /\ x2 = 0 /\ x3 = 0 /\ x4 = 0 /\ x5 = 0 /\ x6 = 0 /\ x7 = 0 /\ x8 = 0 /\ x9 = 0 /\ x10 = 0
          /\ x11 = 0 /\ x12 = 0

PartsNext ==
    /\ UNCHANGED part
    /\ \/ part = "place" /\ P!Next /\ UNCHANGED vars
       \/ part = "capacity" /\ Next /\ UNCHANGED x

(* The fairness of both modules.  Their behaviours have nothing in common, *)
(* so that Waits(r) and Runs(r) stand for an action of each.              *)
Waits(r) ==
    \/ part = "capacity" /\ WaitForLock(r) /\ UNCHANGED x
    \/ /\ part = "place" /\ UNCHANGED vars
       /\ CASE r = a1 -> P!TakeGuard("r1") [] r = b1 -> P!TakeGuard("r3")
            [] r = u1 -> P!LoopStarts [] OTHER -> FALSE
Runs(r) ==
    \/ part = "capacity" /\ Run(r) /\ UNCHANGED x
    \/ /\ part = "place" /\ UNCHANGED vars
       /\ CASE r = a1 -> P!Handler("r1") [] r = b1 -> P!Handler("r3")
            [] r = u1 -> P!Downstream("r1") [] r = c1 -> P!Downstream("r3")
            [] OTHER -> P!RunLoop

PartsFairness ==
    /\ \A r \in Request : SF_<<vars, x>>(Waits(r)) /\ WF_<<vars, x>>(Runs(r))
    /\ \A s \in {s1, s2, s3, s4, s5} : WF_x(part = "place" /\ P!StorageRequestStep(s))

PartsSpec == PartsInit /\ [][PartsNext]_<<part, vars, x>> /\ PartsFairness

------------------------------------------------------------------------------
(* Requests end, or wait for capacity; placements end, and storage that is *)
(* not used is released.                                                   *)
EverythingEnds ==
    <>[](CASE part = "capacity" -> AllEnded
           [] part = "place" -> P!AllPlaced /\ P!NothingUnused)
==============================================================================
