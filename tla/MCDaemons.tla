------------------------------ MODULE MCDaemons ------------------------------
(***************************************************************************)
(* Model checking of what the daemons do besides placement and storage,    *)
(* each module in its own behaviours: VolumeUse (of one volume, of one     *)
(* whose cache is changed while it is snapshot, and of two that share the  *)
(* cache), VolumeCreate (of two requests, and of one), Rename, Crude, and  *)
(* Heartbeat (of a node with two clusterd in two clusters, and of three    *)
(* clusterd).                                                              *)
(***************************************************************************)
EXTENDS Heartbeat, Sequences

CONSTANTS n1

VARIABLES
    part,  \* the module of this behaviour
    x1, x2, x3, x4, x5, x6, x7, x8, x9, x10, x11, x12

x == <<x1, x2, x3, x4, x5, x6, x7, x8, x9, x10, x11, x12>>

(* The orchestrator cluster a clusterd runs in.                            *)
Site == [p \in {"a", "a2", "b"} |-> IF p = "b" THEN "B" ELSE "A"]

------------------------------------------------------------------------------
U == INSTANCE VolumeUse WITH
    vs <- x1, req <- x2, op <- x3, agent <- x4, guard <- x5, avail <- x6,
    nuvo <- x7, fs <- x8, dirty <- x9, since <- x10, faults <- x11, odd <- x12,
    Vol <- {"v1"}, Resize <- [v1 |-> "c1"],
    Kinds <- {"MOUNT", "UNMOUNT", "ATTACH_FS", "DETACH_FS", "SNAPSHOT", "CONFIGURE_SNAPSHOT", "UNBIND"},
    TotalCache <- 3, Unit <- 1, Want <- [v \in {"v1"} |-> 2],
    Least <- [v \in {"v1"} |-> 1], NewWant <- [v \in {"v1"} |-> 1],
    Restarts <- {"agentd", "nuvo"},
    MayFail <- {"OpenLogVol", "ExportLun"}, MaxRequests <- 4, MaxFaults <- 1,
    MaxWrites <- 2

V == INSTANCE VolumeUse WITH
    vs <- x1, req <- x2, op <- x3, agent <- x4, guard <- x5, avail <- x6,
    nuvo <- x7, fs <- x8, dirty <- x9, since <- x10, faults <- x11, odd <- x12,
    Vol <- {"v1"}, Resize <- [v1 |-> "c1"],
    Kinds <- {"MOUNT", "UNMOUNT", "SNAPSHOT", "CHANGE_CAPACITY"},
    TotalCache <- 3, Unit <- 1, Want <- [v \in {"v1"} |-> 2],
    Least <- [v \in {"v1"} |-> 1], NewWant <- [v \in {"v1"} |-> 1],
    Restarts <- {"agentd", "nuvo"}, MayFail <- {"OpenLogVol", "ExportLun"},
    MaxRequests <- 3, MaxFaults <- 1, MaxWrites <- 1

W == INSTANCE VolumeUse WITH
    vs <- x1, req <- x2, op <- x3, agent <- x4, guard <- x5, avail <- x6,
    nuvo <- x7, fs <- x8, dirty <- x9, since <- x10, faults <- x11, odd <- x12,
    Vol <- {"v1", "v2"}, Resize <- [v1 |-> "c1", v2 |-> "c2"],
    Kinds <- {"MOUNT", "UNMOUNT", "CHANGE_CAPACITY"},
    TotalCache <- 3, Unit <- 1, Want <- [v \in {"v1", "v2"} |-> 2],
    Least <- [v \in {"v1", "v2"} |-> 1],
    NewWant <- [v1 |-> 1, v2 |-> 2],
    Restarts <- {"agentd"}, MayFail <- {"OpenLogVol", "ExportLun"},
    MaxRequests <- 2, MaxFaults <- 1, MaxWrites <- 0

C == INSTANCE VolumeCreate WITH
    ag <- x1, cg <- x2, vs <- x3, req <- x4, op <- x5, kept <- x6, hurt <- x7,
    early <- x8, faults <- x9, crashes <- x10, Creators <- {"r1", "r2"}, Deleters <- {"d1"},
    InGroupOf <- [c \in {"r1", "r2"} |-> "r1"], DeletedBy <- [d1 |-> "r1"],
    MaxFaults <- 1, None <- "none"

D == INSTANCE VolumeCreate WITH
    ag <- x1, cg <- x2, vs <- x3, req <- x4, op <- x5, kept <- x6, hurt <- x7,
    early <- x8, faults <- x9, crashes <- x10, Creators <- {"r1"}, Deleters <- {"d1"},
    InGroupOf <- [r1 |-> "r1"], DeletedBy <- [d1 |-> "r1"], MaxFaults <- 2, None <- "none"

R == INSTANCE Rename WITH
    name <- x1, first <- x2, taken <- x3, req <- x4, op <- x5, reverts <- x6,
    faults <- x7, crashes <- x8, OldName <- "old", NewName <- "new",
    OtherName <- "other", MaxFaults <- 1,
    MaxCrashes <- 2
ASSUME RenameNames == R!NamesAssumption

N == INSTANCE Crude WITH
    kind <- x1, ver <- x2, posted <- x3, uw <- x4, mon <- x5, dw <- x6,
    cl <- x7, term <- x8, faults <- x9, Kinds <- {"animator", "waiter"},
    MayStop <- {"waiter"}, MaxVer <- 2, MaxConns <- 2, MaxFaults <- 1

J == INSTANCE Heartbeat WITH
    cl <- x1, node <- x2, tasks <- x3, secret <- x4, cd <- x5, health <- x6,
    ag <- x7, gone <- x8, deleting <- x9, stops <- x10, lost <- x11,
    Node <- {}, Proc <- {"a", "a2", "b"}, SiteOf <- Site, Home <- "A",
    TaskEvery <- 2, ClusterMisses <- 2, MaxDelay <- 1, MaxAge <- 3,
    MaxTasks <- 2, MaxStops <- 2, MaxLost <- 1, Nothing <- Nothing

------------------------------------------------------------------------------
PartsInit ==
    /\ Init
    /\ \/ part = "use" /\ U!Init
       \/ part = "resize" /\ V!Init
       \/ part = "cache" /\ W!Init
       \/ part = "create" /\ C!Init /\ x11 = 0 /\ x12 = 0
       \/ part = "alone" /\ D!Init /\ x11 = 0 /\ x12 = 0
       \/ part = "rename" /\ R!Init /\ x9 = 0 /\ x10 = 0 /\ x11 = 0 /\ x12 = 0
       \/ part = "crude" /\ N!Init /\ x10 = 0 /\ x11 = 0 /\ x12 = 0
       \/ part = "sites" /\ J!Init /\ x12 = 0
       \/ part = "node" /\ x1 = 0 /\ x2 = 0 /\ x3 = 0 /\ x4 = 0 /\ x5 = 0 /\ x6 = 0 /\ x7 = 0 /\ x8 = 0 /\ x9 = 0 /\ x10 = 0 /\ x11 = 0 /\ x12 = 0

PartsNext ==
    /\ UNCHANGED part
    /\ \/ part = "use" /\ U!Next /\ UNCHANGED vars
       \/ part = "resize" /\ V!Next /\ UNCHANGED vars
       \/ part = "cache" /\ W!Next /\ UNCHANGED vars
       \/ part = "create" /\ C!Next /\ UNCHANGED <<x11, x12>> /\ UNCHANGED vars
       \/ part = "alone" /\ D!Next /\ UNCHANGED <<x11, x12>> /\ UNCHANGED vars
       \/ part = "rename" /\ R!Next /\ UNCHANGED <<x9, x10, x11, x12>> /\ UNCHANGED vars
       \/ part = "crude" /\ N!Next /\ UNCHANGED <<x10, x11, x12>> /\ UNCHANGED vars
       \/ part = "sites" /\ J!Next /\ UNCHANGED x12 /\ UNCHANGED vars
       \/ part = "node" /\ Next /\ UNCHANGED x

(* The fairness of the modules.                                            *)
useVars == U!useVars
createVars == C!vars
renameVars == R!vars
crudeVars == N!vars
siteVars == J!vars
PartsFairness ==
    /\ WF_useVars(part = "use" /\ U!Reload) /\ WF_useVars(part = "use" /\ U!Recovery)
    /\ WF_useVars(part = "use" /\ U!Handler("v1"))
    /\ WF_useVars(part = "resize" /\ V!Reload) /\ WF_useVars(part = "resize" /\ V!Recovery)
    /\ \A r \in {"v1", "c1"} : WF_useVars(part = "resize" /\ V!Handler(r))
    /\ WF_useVars(part = "cache" /\ W!Reload) /\ WF_useVars(part = "cache" /\ W!Recovery)
    /\ \A r \in {"v1", "v2", "c1", "c2"} : WF_useVars(part = "cache" /\ W!Handler(r))
    /\ \A r \in {"r1", "r2", "d1"} : WF_createVars(part = "create" /\ C!Handler(r))
    /\ \A r \in {"r1", "d1"} : WF_createVars(part = "alone" /\ D!Handler(r))
    /\ WF_renameVars(part = "rename" /\ R!Handler)
    /\ WF_crudeVars(part = "crude" /\ N!Upstream) /\ WF_crudeVars(part = "crude" /\ N!Monitor)
    /\ WF_crudeVars(part = "crude" /\ N!Deliver) /\ WF_crudeVars(part = "crude" /\ N!AllTerminated)
    /\ WF_crudeVars(part = "crude" /\ N!LoopStep) /\ WF_crudeVars(part = "crude" /\ N!Done)
    /\ \A p \in Proc : WF_vars(part = "node" /\ ClusterdStep(p))
    /\ WF_vars(part = "node" /\ (AgentBuzz(n1) \/ AgentBuzzFails(n1)))
    /\ WF_vars(part = "node" /\ (teardownNode(n1) \/ deleteNode(n1)))
    /\ WF_vars(part = "node" /\ CentraldStep) /\ WF_vars(part = "node" /\ TimeoutClusters)
    /\ WF_vars(part = "node" /\ Tick)
    /\ \A p \in {"a", "a2", "b"} : WF_siteVars(part = "sites" /\ J!ClusterdStep(p))
    /\ WF_siteVars(part = "sites" /\ J!CentraldStep) /\ WF_siteVars(part = "sites" /\ J!TimeoutClusters)
    /\ WF_siteVars(part = "sites" /\ J!Tick)

PartsSpec == PartsInit /\ [][PartsNext]_<<part, vars, x>> /\ PartsFairness

------------------------------------------------------------------------------
(* Data that is in no snapshot is not forgotten by unmounting.             *)
FinalSnapshot ==
    (part = "use" => U!FinalSnapshot) /\ (part = "resize" => V!FinalSnapshot)

(* Between requests the objects tell what the storage process has, and the *)
(* cache accounts of volumes, agentd and the storage process agree.        *)
ObjectsAreTrue ==
    /\ part = "use" => U!ObjectsAreTrue /\ U!CacheAccounts
    /\ part = "resize" => V!ObjectsAreTrue /\ V!CacheAccounts
    /\ part = "cache" => W!CacheAccounts

(* CREATE and DELETE are whole or not at all, but for a DELETE that is     *)
(* admitted while the CREATE of its volume is under way.                   *)
CreateIsWhole ==
    (part = "create" => C!CreateIsWhole) /\ (part = "alone" => D!CreateIsWhole)

(* RENAME is whole or not at all, but for groups that had the new name.      *)
RenameIsWhole == part = "rename" => R!RenameIsWhole

(* A notification of something newer never finds the loop going to sleep.  *)
NoLostWakeup == part = "crude" => N!NoLostWakeup

(* Requests end; loops have read the last version and watchers terminate;  *)
(* the objects of cluster and nodes settle.                                *)
EverythingEnds ==
    <>[](CASE part = "use" -> U!AllEnded
           [] part = "resize" -> V!AllEnded
           [] part = "cache" -> W!AllEnded
           [] part = "create" -> C!AllEnded
           [] part = "alone" -> D!AllEnded
           [] part = "rename" -> ~R!Pending
           [] part = "crude" -> N!UpToDate /\ x8 # "wait"
           [] part = "node" -> Settled
           [] part = "sites" -> J!Settled
           [] OTHER -> TRUE)
==============================================================================
