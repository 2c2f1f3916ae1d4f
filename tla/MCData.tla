------------------------------- MODULE MCData -------------------------------
(* Model checking of what is stored, each module in its own behaviours:    *)
(* Documents, and CopyEngine (with two workers, and with a directory).     *)
EXTENDS Documents

CONSTANTS w1, w2

VARIABLES
    part,  \* the module of this behaviour
    x1, x2, x3, x4, x5, x6, x7, x8, x9, x10, x11, x12, x13, x14, x15, x16,
    x17, x18, x19, x20

x == <<x1, x2, x3, x4, x5, x6, x7, x8, x9, x10, x11, x12, x13, x14, x15, x16,
       x17, x18, x19, x20>>

AllTypes == DOMAIN Docs

------------------------------------------------------------------------------
K == INSTANCE CopyEngine WITH
    kind <- x1, vol <- x2, pits <- x3, objs <- x4, files <- x5,
    recorded <- x6, request <- x7, job <- x8, differ <- x9, work <- x10,
    worker <- x11, err <- x12, md <- x13, handler <- x14, target <- x15,
    restored <- x16, restores <- x17, faults <- x18, gapped <- x19,
    shared <- x20, Kinds <- {"S3"},
    Worker <- {w1, w2}, Data <- {0, 1}, StartSize <- 1, MaxSize <- 2,
    MaxSnaps <- 2, MaxRestores <- 1, MaxFaults <- 1, Whole <- FALSE,
    TrailingGaps <- TRUE, SharedDomains <- BOOLEAN

L == INSTANCE CopyEngine WITH
    kind <- x1, vol <- x2, pits <- x3, objs <- x4, files <- x5,
    recorded <- x6, request <- x7, job <- x8, differ <- x9, work <- x10,
    worker <- x11, err <- x12, md <- x13, handler <- x14, target <- x15,
    restored <- x16, restores <- x17, faults <- x18, gapped <- x19,
    shared <- x20, Kinds <- {"Dir"},
    Worker <- {w1}, Data <- {0, 1}, StartSize <- 2, MaxSize <- 3,
    MaxSnaps <- 2, MaxRestores <- 0, MaxFaults <- 1, Whole <- TRUE,
    TrailingGaps <- FALSE, SharedDomains <- {FALSE}

------------------------------------------------------------------------------
PartsInit ==
    /\ Init
    /\ \/ part = "copy" /\ K!Init
       \/ part = "directory" /\ L!Init
       \/ part = "docs" /\ x1 = 0 /\ x2 = 0 /\ x3 = 0 /\ x4 = 0 /\ x5 = 0 /\ x6 = 0 /\ x7 = 0 /\ x8 = 0 /\ x9 = 0 /\ x10 = 0 /\ x11 = 0 /\ x12 = 0 /\ x13 = 0 /\ x14 = 0 /\ x15 = 0 /\ x16 = 0 /\ x17 = 0 /\ x18 = 0 /\ x19 = 0 /\ x20 = 0
    /\ part # "docs" => type = CHOOSE t \in Types : TRUE

PartsNext ==
    /\ UNCHANGED part
    /\ \/ part = "copy" /\ K!Next /\ UNCHANGED vars
       \/ part = "directory" /\ L!Next /\ UNCHANGED vars
       \/ part = "docs" /\ Next /\ UNCHANGED x

(* The fairness of CopyEngine.                                             *)
copyVars == K!vars
CopyFairness ==
    /\ WF_copyVars(part = "directory" /\ L!DifferStep) /\ WF_copyVars(part = "directory" /\ L!HandlerReceive)
    /\ WF_copyVars(part = "directory" /\ L!MainStep) /\ WF_copyVars(part = "directory" /\ L!WorkerStep(w1))

PartsSpec == PartsInit /\ [][PartsNext]_<<part, vars, x>> /\ CopyFairness

------------------------------------------------------------------------------
(* A snapshot that is recorded can be restored, and a restore that reports *)
(* success has restored it.                                                *)
SnapshotsAreTrue == part = "copy" => K!SnapshotsAreTrue

(* Every copy ends.                                                        *)
EverythingEnds == <>[](part = "directory" => L!Copied)
==============================================================================
