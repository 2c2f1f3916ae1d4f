------------------------------ MODULE MCStorage ------------------------------
(* Model checking of what happens to storage, each module in its own       *)
(* behaviours: the end of StorageRequests, CspVolume and NodeDelete.       *)
EXTENDS NodeDelete

CONSTANTS r1, r2, n1, n2, s1, s2, v1, v2, NoValue

VARIABLES
    part,  \* the module of this behaviour
    x1, x2, x3, x4, x5, x6, x7, x8, x9, x10, x11, x12, x13

x == <<x1, x2, x3, x4, x5, x6, x7, x8, x9, x10, x11, x12, x13>>

------------------------------------------------------------------------------
S == INSTANCE StorageRequest WITH
    req <- x1, stg <- x2, vol <- x3, go <- x4, expired <- x5, cleanup <- x6,
    faults <- x7, crashes <- x8, SR <- {r1, r2}, Stg <- {s1}, Vol <- {v1},
    Node <- {n1, n2},
    Plans <- {{"PROVISION", "ATTACH", "FORMAT", "USE"}, {"REATTACH"}, {"CLOSE", "DETACH", "RELEASE"}},
    MaxFaults <- 1, MaxCrashes <- 0, MaxExpired <- 2, MaxEvents <- 5,
    ListFails <- TRUE

C == INSTANCE CspVolume WITH
    kind <- x1, disk <- x2, labels <- x3, prints <- x4, goal <- x5,
    view <- x6, call <- x7, attachingNodeDevices <- x8, nvme <- x9,
    devCache <- x10, looked <- x11, goals <- x12, faults <- x13,
    Kinds <- {"AWS", "Azure", "GCE"}, Vol <- {v1, v2}, MaxDev <- 2,
    MaxGoals <- 5, MaxFaults <- 1, None <- NoValue

------------------------------------------------------------------------------
PartsInit ==
    /\ Init
    /\ \/ part = "request" /\ S!Init /\ x9 = 0 /\ x10 = 0 /\ x11 = 0 /\ x12 = 0 /\ x13 = 0
       \/ part = "csp" /\ C!Init
       \/ part = "node" /\ x1 = 0 /\ x2 = 0 /\ x3 = 0 /\ x4 = 0 /\ x5 = 0 /\ x6 = 0 /\ x7 = 0 /\ x8 = 0 /\ x9 = 0 /\ x10 = 0 /\ x11 = 0 /\ x12 = 0 /\ x13 = 0
    /\ part # "node" => sr = "done" /\ \A r \in Vsr : vsr[r].by = "agentd"

PartsNext ==
    /\ UNCHANGED part
    /\ \/ part = "request" /\ S!Next /\ UNCHANGED <<x9, x10, x11, x12, x13>> /\ UNCHANGED vars
       \/ part = "csp" /\ C!Next /\ UNCHANGED vars
       \/ part = "node" /\ Next /\ UNCHANGED x

(* The fairness of the modules.                                            *)
requestVars == S!vars
cspVars == C!vars
PartsFairness ==
    /\ WF_requestVars(part = "request" /\ S!Cleanup)
    /\ \A r \in {r1, r2} :
          /\ WF_requestVars(part = "request" /\ S!Central(r))
          /\ WF_requestVars(part = "request" /\ S!Expire(r))
          /\ \A n \in {n1, n2} : WF_requestVars(part = "request" /\ S!Agent(n, r))
    /\ \A v \in {v1, v2} : WF_cspVars(part = "csp" /\ C!Call(v)) /\ WF_cspVars(part = "csp" /\ C!Cloud(v))
    /\ WF_vars(part = "node" /\ NodeDeleteStep) /\ WF_vars(part = "node" /\ Relaunch)
    /\ WF_vars(part = "node" /\ SrStep) /\ \A r \in Vsr : WF_vars(part = "node" /\ VsrStep(r))
    /\ \A v \in Vol : WF_vars(part = "node" /\ SubStep(v))
    /\ \A s \in Stg : WF_vars(part = "node" /\ DetachEnds(s))

PartsSpec == PartsInit /\ [][PartsNext]_<<part, vars, x>> /\ PartsFairness

------------------------------------------------------------------------------
(* What the callers of the cloud plugins rely on, at every step.           *)
PluginKeepsItsWord ==
    [][part = "csp" => C!AnswerIsTrue /\ C!AttachRepeats /\ C!AttachedIsFound]_<<part, vars, x>>

(* Every StorageRequest is processed by its deadline or fails; a detach or *)
(* delete that is repeated succeeds (AWS); a node is deleted in the end.   *)
EverythingEnds ==
    <>[](CASE part = "request" -> S!AllEnded
           [] part = "csp" -> x1 = "AWS" => \A v \in {v1, v2} : x5[v] = "none"
           [] part = "node" -> Deleted)
==============================================================================
