-------------------------- MODULE NodeDeleteProofs --------------------------
(***************************************************************************)
(* Proofs about module NodeDelete: its type invariant, and that a volume   *)
(* is given up only when no storage of the node is still to be detached,   *)
(* unless the handler took the requests of an earlier dispatch for its own.*)
(*                                                                         *)
(* The volume is given up by a subordinate, long after the storage and     *)
(* perhaps under a later NODE_DELETE.  The invariant follows the order     *)
(* through both requests: a subordinate comes to the detaching of its      *)
(* volume only through the synchronization with a NODE_DELETE that is past *)
(* the storage (Synchronized, Freeing), and no storage is asked for again  *)
(* while such a subordinate is left, since a NODE_DELETE on its way there  *)
(* has ended all the subordinates of an earlier one (Mine, Listing) and    *)
(* its own have not got that far (Behind).                                 *)
(***************************************************************************)
EXTENDS NodeDelete, TLAPS

\* The states of NODE_DELETE behind the detaching of storage, and those behind
\* the ending of other requests.
Late == {"VOLUME_DETACH_WAIT", "VOLUME_DETACHED", "DELETING_NODE"}
Past == {"DETACHING_VOLUMES", "DETACHING_STORAGE"} \cup Late

\* No storage of the node is still to be detached.
Out == \A s \in attached : detach[s] = "failed"

\* A handler that runs is in a sub-state of the state of its request.
Place ==
    /\ nd.st \in {"NEW"} \cup Terminal => ndop.pc = "idle"
    /\ nd.st \in Members(Plan) => ndop.pc \in {"idle", "next"} \cup Members(SubStates(nd.st))

\* Subordinates of an earlier NODE_DELETE are listed, and then ended.
Listing == ndop.pc = "ForceCancel" => ActiveSubs \subseteq DOMAIN ndop.vsrs
Mine ==
    nd.st \in Past \/ (nd.st = "CANCELING_REQUESTS" /\ ndop.pc = "next")
        => \A v \in ActiveSubs : vd[v].mine

\* The storage that is asked for, while it is.
Asked == \A s \in ndop.new \cap attached : detach[s] \in {"active", "failed"}
Launching ==
    ndop.pc = "LaunchDetachSRs" /\ ~misled =>
        attached \subseteq ndop.todo \cup ndop.new /\ \A s \in Stg : detach[s] = "active" => s \in ndop.new
Waiting ==
    ndop.pc = "WaitForDetachSRs" /\ ~misled =>
        attached \subseteq ndop.wait /\ ndop.wait = ndop.new /\ \A s \in Stg : detach[s] = "active" => s \in ndop.wait
Detached == nd.st \in Late \/ (nd.st = "DETACHING_STORAGE" /\ ndop.pc = "next") => misled \/ Out

\* A subordinate that gives up its volume.
Synchronized == nd.me \notin {"", "FAILED"} => nd.st \in Late \cup Terminal
Freeing == \A v \in Vol : vd[v].st = "VOLUME_DETACHING" => misled \/ Out
Behind ==
    \A v \in Vol : vd[v].mine /\ vd[v].st = "VOLUME_DETACHING" => nd.st \in Late \cup Terminal

IInv ==
    /\ TypeOK /\ Place
    /\ Listing /\ Mine
    /\ Asked /\ Launching /\ Waiting /\ Detached
    /\ Synchronized /\ Freeing /\ Behind

-----------------------------------------------------------------------------
(* What the plans contain, and what follows a state or a sub-state.        *)

LEMMA PlanMembers ==
    /\ Members(Plan) = {"DRAINING_REQUESTS", "CANCELING_REQUESTS", "DETACHING_VOLUMES", "DETACHING_STORAGE",
                        "VOLUME_DETACH_WAIT", "VOLUME_DETACHED", "DELETING_NODE"}
    /\ Members(SubPlan) = {"VOLUME_DETACH_WAIT", "VOLUME_DETACHING", "VOLUME_DETACHED"}
<1>1. DOMAIN Plan = 1..7 /\ DOMAIN SubPlan = 1..3  BY DEF Plan, SubPlan
<1>2. QED  BY <1>1 DEF Members, Plan, SubPlan

LEMMA AtIs ==
    ASSUME NEW plan, NEW i \in DOMAIN plan, \A j \in DOMAIN plan : plan[j] = plan[i] => j = i
    PROVE  At(plan, plan[i]) = i
BY Zenon DEF At

LEMMA PlanAt == \A i \in 1..7 : At(Plan, Plan[i]) = i
<1>1. DOMAIN Plan = 1..7  BY DEF Plan
<1>2. \A i, j \in 1..7 : Plan[j] = Plan[i] => j = i  BY DEF Plan
<1>3. QED  BY <1>1, <1>2, AtIs

LEMMA SubPlanAt == \A i \in 1..3 : At(SubPlan, SubPlan[i]) = i
<1>1. DOMAIN SubPlan = 1..3  BY DEF SubPlan
<1>2. \A i, j \in 1..3 : SubPlan[j] = SubPlan[i] => j = i  BY DEF SubPlan
<1>3. QED  BY <1>1, <1>2, AtIs

LEMMA SubStateMembers ==
    /\ Members(SubStates("DRAINING_REQUESTS")) = {"TeardownNode", "ListSRs", "WaitForSRs", "ListVSRs", "WaitForVSRs"}
    /\ Members(SubStates("CANCELING_REQUESTS")) = {"FailSRs", "CancelVSRs", "WaitForCanceled", "ListRemaining", "ForceCancel"}
    /\ Members(SubStates("DETACHING_VOLUMES")) = {"PrimePeerMap", "CheckForSubordinates", "LaunchRemaining", "WaitForResponses"}
    /\ Members(SubStates("DETACHING_STORAGE")) = {"FindDetachSRs", "LaunchDetachSRs", "WaitForDetachSRs"}
    /\ Members(SubStates("DELETING_NODE")) = {"DeleteNode"}
    /\ \A st \in {"VOLUME_DETACH_WAIT", "VOLUME_DETACHED"} : Members(SubStates(st)) = {"SyncState"}
<1>1. Members(SubStates("DRAINING_REQUESTS")) = {"TeardownNode", "ListSRs", "WaitForSRs", "ListVSRs", "WaitForVSRs"}
  <2>1. DOMAIN SubStates("DRAINING_REQUESTS") = 1..5  BY DEF SubStates
  <2>2. QED  BY <2>1 DEF SubStates, Members
<1>2. Members(SubStates("CANCELING_REQUESTS")) = {"FailSRs", "CancelVSRs", "WaitForCanceled", "ListRemaining", "ForceCancel"}
  <2>1. DOMAIN SubStates("CANCELING_REQUESTS") = 1..5  BY DEF SubStates
  <2>2. QED  BY <2>1 DEF SubStates, Members
<1>3. Members(SubStates("DETACHING_VOLUMES")) = {"PrimePeerMap", "CheckForSubordinates", "LaunchRemaining", "WaitForResponses"}
  <2>1. DOMAIN SubStates("DETACHING_VOLUMES") = 1..4  BY DEF SubStates
  <2>2. QED  BY <2>1 DEF SubStates, Members
<1>4. Members(SubStates("DETACHING_STORAGE")) = {"FindDetachSRs", "LaunchDetachSRs", "WaitForDetachSRs"}
  <2>1. DOMAIN SubStates("DETACHING_STORAGE") = 1..3  BY DEF SubStates
  <2>2. QED  BY <2>1 DEF SubStates, Members
<1>5. Members(SubStates("DELETING_NODE")) = {"DeleteNode"}
  <2>1. DOMAIN SubStates("DELETING_NODE") = 1..1  BY DEF SubStates
  <2>2. QED  BY <2>1 DEF SubStates, Members
<1>6. ASSUME NEW st \in {"VOLUME_DETACH_WAIT", "VOLUME_DETACHED"}
      PROVE  Members(SubStates(st)) = {"SyncState"}
  <2>1. DOMAIN SubStates(st) = 1..1  BY DEF SubStates
  <2>2. QED  BY <2>1 DEF SubStates, Members
<1>7. QED  BY <1>1, <1>2, <1>3, <1>4, <1>5, <1>6

LEMMA SubStateAt ==
    ASSUME NEW st \in Members(Plan), NEW i \in DOMAIN SubStates(st)
    PROVE  At(SubStates(st), SubStates(st)[i]) = i
<1>1. \A j \in DOMAIN SubStates(st) : SubStates(st)[j] = SubStates(st)[i] => j = i
      BY PlanMembers DEF SubStates
<1>2. QED  BY <1>1, AtIs

\* The sub-state that follows, for each.
LEMMA Following ==
    ASSUME TypeOK, Place, ndop.pc \notin {"idle", "next"}
    PROVE  \E i \in DOMAIN SubStates(nd.st) :
              /\ nd.st \in Members(Plan)
              /\ ndop.pc = SubStates(nd.st)[i]
              /\ After(ndop) = [ndop EXCEPT !.pc = IF i = Len(SubStates(nd.st)) THEN "next"
                                                   ELSE SubStates(nd.st)[i + 1]]
<1>1. nd.st \in Members(Plan) /\ ndop.pc \in Members(SubStates(nd.st))
      BY DEF TypeOK, Place, States, Terminal
<1>2. PICK i \in DOMAIN SubStates(nd.st) : ndop.pc = SubStates(nd.st)[i]  BY <1>1 DEF Members
<1>3. At(SubStates(nd.st), ndop.pc) = i  BY <1>1, <1>2, SubStateAt
<1>4. QED  BY <1>1, <1>2, <1>3 DEF After

-----------------------------------------------------------------------------
(* Types, and the sub-states a handler can be in.                          *)

LEMMA StepNames ==
    /\ {"idle", "next"} \subseteq Steps
    /\ \A st \in Members(Plan) : Members(SubStates(st)) \subseteq Steps
BY DEF Steps

\* Going on to the next sub-state keeps the memory's type, and its place.
LEMMA AfterType ==
    ASSUME TypeOK, Place, ndop.pc \notin {"idle", "next"}
    PROVE  /\ After(ndop) \in Memories
           /\ nd.st \in Members(Plan)
           /\ After(ndop).pc \in {"next"} \cup Members(SubStates(nd.st))
<1>1. PICK i \in DOMAIN SubStates(nd.st) :
         /\ nd.st \in Members(Plan)
         /\ ndop.pc = SubStates(nd.st)[i]
         /\ After(ndop) = [ndop EXCEPT !.pc = IF i = Len(SubStates(nd.st)) THEN "next"
                                              ELSE SubStates(nd.st)[i + 1]]
      BY Following
<1>2. ndop \in Memories  BY DEF TypeOK
<1>3. i # Len(SubStates(nd.st)) => i + 1 \in DOMAIN SubStates(nd.st)
      BY <1>1, PlanMembers DEF SubStates
<1>4. DEFINE pc == IF i = Len(SubStates(nd.st)) THEN "next" ELSE SubStates(nd.st)[i + 1]
<1>5. pc \in {"next"} \cup Members(SubStates(nd.st))  BY <1>3 DEF Members
<1>6. pc \in Steps  BY <1>1, <1>5, StepNames
<1>7. After(ndop) = [ndop EXCEPT !.pc = pc]  BY <1>1
<1> HIDE DEF pc
<1>8. After(ndop) \in Memories /\ After(ndop).pc = pc  BY <1>2, <1>6, <1>7 DEF Memories
<1>9. QED  BY <1>1, <1>5, <1>8

LEMMA IdleType == Idle \in Memories
<1>1. <<>> \in [{} -> Executors \X BOOLEAN]  OBVIOUS
<1>2. <<>> \in Listings  BY <1>1 DEF Listings
<1>3. "idle" \in Steps  BY StepNames
<1>4. QED  BY <1>2, <1>3 DEF Idle, Memories

LEMMA ListedType == \A rs \in SUBSET Active : TypeOK => Listed(rs) \in Listings
<1> SUFFICES ASSUME NEW rs \in SUBSET Active, TypeOK PROVE Listed(rs) \in Listings
    OBVIOUS
<1>1. ASSUME NEW r \in rs  PROVE <<By(r), Canceled(r)>> \in Executors \X BOOLEAN
  <2>1. r \in Vsr \cup ActiveSubs  BY DEF Active, Requests
  <2>2. By(r) \in Executors  BY <2>1 DEF By, TypeOK, Executors
  <2>3. CASE r \in Vsr
    <3>1. vsr[r].canceled \in BOOLEAN  BY <2>3 DEF TypeOK
    <3>2. QED  BY <2>2, <2>3, <3>1 DEF Canceled
  <2>4. CASE r \notin Vsr
    <3>1. r \in Vol  BY <2>1, <2>4 DEF ActiveSubs
    <3>2. vd[r].canceled \in BOOLEAN  BY <3>1 DEF TypeOK
    <3>3. QED  BY <2>2, <2>4, <3>2 DEF Canceled
  <2>5. QED  BY <2>3, <2>4
<1>2. rs \subseteq Vsr \cup Vol  BY DEF Active, Requests, ActiveSubs
<1>3. Listed(rs) \in [rs -> Executors \X BOOLEAN]  BY <1>1 DEF Listed
<1>4. QED  BY <1>2, <1>3 DEF Listings

LEMMA InitInv == Init => IInv
<1> SUFFICES ASSUME Init PROVE IInv
    OBVIOUS
<1>1. TypeOK
  <2>1. "NEW" \in States  BY DEF States
  <2>2. "none" \in SubRequestStates  BY DEF SubRequestStates
  <2>3. nd \in [st : States, peers : [Vol -> {"", NotInMap} \cup SubRequestStates],
                me : {""} \cup States, canceled : BOOLEAN]
        BY <2>1 DEF Init, NewRequest
  <2>4. vd \in [Vol -> [st : SubRequestStates, mine : BOOLEAN, canceled : BOOLEAN]]
        BY <2>2 DEF Init, NoSub
  <2>5. vsr \in [Vsr -> [by : Executors, canceled : BOOLEAN]]
    <3>1. ASSUME NEW b \in Executors  PROVE [by |-> b, canceled |-> FALSE] \in [by : Executors, canceled : BOOLEAN]
          OBVIOUS
    <3>2. "clusterd" \in Executors /\ "agentd" \in Executors  BY DEF Executors
    <3>3. {[by |-> b, canceled |-> FALSE] : b \in {"clusterd", "agentd"}} \subseteq [by : Executors, canceled : BOOLEAN]
          BY <3>1, <3>2
    <3>4. QED  BY <3>3 DEF Init
  <2>6. ndop \in Memories  BY IdleType DEF Init
  <2>7. QED  BY <2>3, <2>4, <2>5, <2>6 DEF Init, TypeOK
<1>2. nd.st = "NEW" /\ nd.me = "" /\ ndop.pc = "idle" /\ ndop.new = {}  BY DEF Init, NewRequest, Idle
<1>3. \A v \in Vol : vd[v].st = "none"  BY DEF Init, NoSub
<1>4. \A s \in Stg : detach[s] = "none"  BY DEF Init
<1>5. Place  BY <1>2, PlanMembers DEF Place
<1>6. Listing /\ Mine /\ Synchronized /\ Freeing /\ Behind
      BY <1>2, <1>3 DEF Listing, Mine, Synchronized, Freeing, Behind, Past, Late
<1>7. Asked /\ Launching /\ Waiting /\ Detached
      BY <1>2, <1>4 DEF Asked, Launching, Waiting, Detached, Late
<1>8. QED  BY <1>1, <1>5, <1>6, <1>7 DEF IInv

LEMMA WithPc ==
    ASSUME NEW m \in Memories, NEW pc \in Steps
    PROVE  [m EXCEPT !.pc = pc] \in Memories /\ [m EXCEPT !.pc = pc].pc = pc
BY DEF Memories

LEMMA FirstStep ==
    /\ \A st \in Members(Plan) : SubStates(st)[1] \in Members(SubStates(st))
    /\ "CheckForSubordinates" \in Members(SubStates("DETACHING_VOLUMES"))
<1>1. \A st \in Members(Plan) : 1 \in DOMAIN SubStates(st)  BY PlanMembers DEF SubStates
<1>2. QED  BY <1>1, SubStateMembers DEF Members

LEMMA PlanNext ==
    \A st \in Members(Plan) : At(Plan, st) # Len(Plan) => Plan[At(Plan, st) + 1] \in Members(Plan)
<1>1. DOMAIN Plan = 1..7 /\ Len(Plan) = 7  BY DEF Plan
<1>2. SUFFICES ASSUME NEW i \in 1..7, i # 7 PROVE Plan[i + 1] \in Members(Plan)
      BY <1>1, PlanAt DEF Members
<1>3. QED  BY <1>1, <1>2 DEF Members

\* Steps that change what the handler keeps, and nothing else that is typed here.
LEMMA MemoryTypes ==
    ASSUME TypeOK, Place, NodeDeleteStep, ~Dispatch, ~NextState
    PROVE  ndop' \in Memories
<1> USE DEF InOp, Memory, RetryLater
<1>1. ndop \in Memories /\ Idle \in Memories  BY IdleType DEF TypeOK
<1>2. ndop.pc \notin {"idle", "next"} => After(ndop) \in Memories  BY AfterType
<1>3. CASE TeardownNode \/ WaitForSRs \/ WaitForVSRs \/ WaitForCanceled \/ WaitForResponses
           \/ WaitForDetachSRs \/ SyncState \/ DeleteNode \/ FailSRs \/ ForceCancel
      BY <1>1, <1>2, <1>3 DEF TeardownNode, WaitForSRs, WaitForVSRs, WaitForCanceled, WaitForResponses,
         WaitForDetachSRs, SyncState, DeleteNode, FailSRs, ForceCancel
<1>4. CASE ListSRs
  <2>1. (IF sr = "done" THEN "none" ELSE sr) \in {"none", "centrald", "agentd"} /\ (sr = "centrald") \in BOOLEAN
        BY DEF TypeOK
  <2>2. QED  BY <1>2, <1>4, <2>1 DEF ListSRs, Memories
<1>5. CASE ListVSRs \/ ListRemaining
  <2>1. Listed(ToWaitOn) \in Listings /\ Listed(Active) \in Listings
        BY ListedType DEF ToWaitOn
  <2>2. QED  BY <1>2, <1>5, <2>1 DEF ListVSRs, ListRemaining, Memories
<1>6. CASE CancelVSRs
  <2>1. Listed(ToCancel) \in Listings /\ Listed(Active) \in Listings
        BY ListedType DEF ToCancel
  <2>2. "ForceCancel" \in Steps  BY StepNames, SubStateMembers, PlanMembers
  <2>3. [ndop EXCEPT !.pc = "ForceCancel", !.vsrs = Listed(Active)] \in Memories
        BY <1>1, <2>1, <2>2 DEF Memories
  <2>4. [After(ndop) EXCEPT !.vsrs = Listed(ToCancel)] \in Memories
        BY <1>2, <1>6, <2>1 DEF CancelVSRs, Memories
  <2>5. QED  BY <1>6, <2>3, <2>4 DEF CancelVSRs
<1>7. CASE PrimePeerMap
  <2>1. "LaunchRemaining" \in Steps  BY StepNames, SubStateMembers, PlanMembers
  <2>2. QED  BY <1>1, <1>7, <2>1 DEF PrimePeerMap, Memories
<1>8. CASE CheckForSubordinates
  <2>1. MySubs \in SUBSET Vol  BY DEF MySubs, ActiveSubs
  <2>2. QED  BY <1>2, <1>8, <2>1 DEF CheckForSubordinates, Memories
<1>9. CASE LaunchRemaining
  <2>1. "next" \in Steps  BY StepNames
  <2>2. ASSUME NEW v \in Vol, NEW pc \in {"next", ndop.pc}
        PROVE  [ndop EXCEPT !.ids = ndop.ids \cup {v}, !.pc = pc] \in Memories
        BY <1>1, <2>1 DEF Memories
  <2>3. QED  BY <1>2, <1>9, <2>2 DEF LaunchRemaining
<1>10. CASE FindDetachSRs
  <2>1. {s \in Stg : detach[s] = "active"} \in SUBSET Stg /\ attached \in SUBSET Stg  BY DEF TypeOK
  <2>2. QED  BY <1>2, <1>10, <2>1 DEF FindDetachSRs, Memories
<1>11. CASE LaunchDetachSRs
  <2>1. ASSUME NEW s \in ndop.todo
        PROVE  [ndop EXCEPT !.todo = ndop.todo \ {s}, !.new = ndop.new \cup {s}] \in Memories
        BY <1>1 DEF Memories
  <2>2. [After(ndop) EXCEPT !.wait = ndop.new] \in Memories
        BY <1>1, <1>2, <1>11 DEF LaunchDetachSRs, Memories
  <2>3. QED  BY <1>11, <2>1, <2>2 DEF LaunchDetachSRs
<1>12. QED  BY <1>3, <1>4, <1>5, <1>6, <1>7, <1>8, <1>9, <1>10, <1>11 DEF NodeDeleteStep

\* What each action changes.
LEMMA Changes ==
    ASSUME [Next]_vars
    PROVE  /\ nd' # nd => \/ Dispatch \/ NextState \/ PrimePeerMap \/ SyncState \/ Relaunch \/ Cancel
                          \/ \E v \in Vol : SubSync(v)
           /\ ndop' # ndop => NodeDeleteStep \/ Stop
           /\ vd' # vd => \/ CancelVSRs \/ ForceCancel \/ LaunchRemaining \/ Relaunch
                          \/ \E v \in Vol : SubStep(v)
           /\ vsr' # vsr => CancelVSRs \/ ForceCancel \/ \E r \in Vsr : VsrStep(r)
           /\ configured' # configured => \E v \in Vol : DetachVolume(v)
           /\ detach' # detach => LaunchDetachSRs \/ \E s \in Stg : DetachEnds(s)
           /\ attached' # attached => \E s \in Stg : DetachEnds(s)
<1>1. CASE NodeDeleteStep
      BY <1>1 DEF NodeDeleteStep, Dispatch, NextState, TeardownNode, ListSRs, WaitForSRs,
         ListVSRs, WaitForVSRs, FailSRs, CancelVSRs, WaitForCanceled, ListRemaining, ForceCancel,
         PrimePeerMap, CheckForSubordinates, LaunchRemaining, WaitForResponses, FindDetachSRs,
         LaunchDetachSRs, WaitForDetachSRs, SyncState, DeleteNode
<1>2. CASE Stop \/ Relaunch \/ Cancel \/ SrStep
      BY <1>2 DEF Stop, Relaunch, Cancel, SrStep
<1>3. CASE \E v \in Vol : SubStep(v)
      BY <1>3 DEF SubStep, SubSync, DetachVolume
<1>4. CASE \E r \in Vsr : VsrStep(r)
      BY <1>4 DEF VsrStep
<1>5. CASE \E s \in Stg : DetachEnds(s)
      BY <1>5 DEF DetachEnds
<1>6. CASE UNCHANGED vars
      BY <1>6 DEF vars
<1>7. QED  BY <1>1, <1>2, <1>3, <1>4, <1>5, <1>6 DEF Next

\* The requests of NODE_DELETE, and its subordinates.
NodeRequests == [st : States, peers : [Vol -> {"", NotInMap} \cup SubRequestStates],
              me : {""} \cup States, canceled : BOOLEAN]
Subordinates == [st : SubRequestStates, mine : BOOLEAN, canceled : BOOLEAN]

LEMMA NdType ==
    ASSUME TypeOK, Place, [Next]_vars
    PROVE  nd' \in NodeRequests
<1>1. nd \in NodeRequests /\ vd \in [Vol -> Subordinates]  BY DEF TypeOK, NodeRequests, Subordinates
<1>2. Terminal \cup {"NEW"} \cup Members(Plan) \subseteq States
      BY DEF States
<1>3. Terminal \cup Members(SubPlan) \subseteq SubRequestStates
      BY DEF SubRequestStates
<1>4. CASE Dispatch
  <2>1. nd'.st \in {"CANCELED", Plan[1], nd.st} /\ nd' = [nd EXCEPT !.st = nd'.st]
        BY <1>1, <1>4 DEF Dispatch, NodeRequests
  <2>2. Plan[1] \in Members(Plan)  BY PlanMembers DEF Plan
  <2>3. nd'.st \in States  BY <1>1, <1>2, <2>1, <2>2 DEF NodeRequests, Terminal
  <2>4. QED  BY <1>1, <2>1, <2>3 DEF NodeRequests
<1>5. CASE NextState
  <2>1. nd.st \in Members(Plan)  BY <1>5 DEF NextState, InOp, TypeOK, Place, States
  <2>2. PICK st \in States : nd' = [nd EXCEPT !.st = st]
        BY <1>2, <1>5, <2>1, PlanNext DEF NextState, Terminal
  <2>3. QED  BY <1>1, <2>2 DEF NodeRequests
<1>6. CASE PrimePeerMap
      BY <1>1, <1>6 DEF PrimePeerMap, NodeRequests
<1>7. CASE SyncState
  <2>1. nd.st \in States /\ "FAILED" \in States  BY <1>1, <1>2 DEF NodeRequests, Terminal
  <2>2. [nd EXCEPT !.me = nd.st] \in NodeRequests /\ [nd EXCEPT !.me = "FAILED", !.st = "FAILED"] \in NodeRequests
        BY <1>1, <2>1 DEF NodeRequests
  <2>3. nd' \in {nd, [nd EXCEPT !.me = nd.st], [nd EXCEPT !.me = "FAILED", !.st = "FAILED"]}
        BY <1>7 DEF SyncState
  <2>4. QED  BY <1>1, <2>2, <2>3
<1>8. CASE Relaunch
      BY <1>2, <1>8 DEF Relaunch, NewRequest, NodeRequests
<1>9. CASE Cancel
      BY <1>1, <1>9 DEF Cancel, NodeRequests
<1>10. ASSUME NEW v \in Vol, SubSync(v)  PROVE nd' \in NodeRequests
  <2>1. vd[v].st \in SubRequestStates /\ "FAILED" \in SubRequestStates
        BY <1>1, <1>3 DEF Subordinates, Terminal
  <2>2. PICK st \in SubRequestStates : nd' \in {nd, [nd EXCEPT !.peers[v] = st]}
        BY <1>10, <2>1 DEF SubSync
  <2>3. [nd EXCEPT !.peers[v] = st] \in NodeRequests  BY <1>1 DEF NodeRequests
  <2>4. QED  BY <1>1, <2>2, <2>3
<1>11. CASE nd' = nd
       BY <1>1, <1>11
<1>12. QED  BY <1>4, <1>5, <1>6, <1>7, <1>8, <1>9, <1>10, <1>11, Changes

LEMMA VdType ==
    ASSUME TypeOK, [Next]_vars
    PROVE  vd' \in [Vol -> Subordinates]
<1>1. vd \in [Vol -> Subordinates]  BY DEF TypeOK, Subordinates
<1>2. Terminal \cup Members(SubPlan) \subseteq SubRequestStates
      BY DEF SubRequestStates
<1>3. CASE CancelVSRs \/ Relaunch
      BY <1>1, <1>3 DEF CancelVSRs, Relaunch, Subordinates
<1>4. CASE ForceCancel
  <2>1. "CANCELED" \in SubRequestStates  BY <1>2 DEF Terminal
  <2>2. QED  BY <1>1, <1>4, <2>1 DEF ForceCancel, Subordinates
<1>5. CASE LaunchRemaining
  <2>1. SubPlan[1] \in SubRequestStates  BY <1>2, PlanMembers DEF SubPlan
  <2>2. [st |-> SubPlan[1], mine |-> TRUE, canceled |-> FALSE] \in Subordinates
        BY <2>1 DEF Subordinates
  <2>3. QED  BY <1>1, <1>5, <2>2 DEF LaunchRemaining
<1>6. ASSUME NEW v \in Vol, SubStep(v)  PROVE vd' \in [Vol -> Subordinates]
  <2>1. {"FAILED", "SUCCEEDED", "CANCELED", "VOLUME_DETACHING", "VOLUME_DETACHED"} \subseteq SubRequestStates
        BY <1>2, PlanMembers DEF Terminal
  <2>2. PICK st \in SubRequestStates : vd' \in {vd, [vd EXCEPT ![v].st = st]}
        BY <1>6, <2>1 DEF SubStep, SubSync, DetachVolume
  <2>3. [vd EXCEPT ![v].st = st] \in [Vol -> Subordinates]  BY <1>1 DEF Subordinates
  <2>4. QED  BY <1>1, <2>2, <2>3
<1>7. CASE vd' = vd
      BY <1>1, <1>7
<1>8. QED  BY <1>3, <1>4, <1>5, <1>6, <1>7, Changes

LEMMA VsrType ==
    ASSUME TypeOK, [Next]_vars
    PROVE  vsr' \in [Vsr -> [by : Executors, canceled : BOOLEAN]]
<1>1. vsr \in [Vsr -> [by : Executors, canceled : BOOLEAN]]  BY DEF TypeOK
<1>2. CASE CancelVSRs
      BY <1>1, <1>2 DEF CancelVSRs
<1>3. CASE ForceCancel
  <2>1. "done" \in Executors  BY DEF Executors
  <2>2. QED  BY <1>1, <1>3, <2>1 DEF ForceCancel
<1>4. ASSUME NEW r \in Vsr, VsrStep(r)
      PROVE  vsr' \in [Vsr -> [by : Executors, canceled : BOOLEAN]]
  <2>1. {"agentd", "undo", "done"} \subseteq Executors  BY DEF Executors
  <2>2. PICK b \in Executors : vsr' = [vsr EXCEPT ![r].by = b]
        BY <1>4, <2>1 DEF VsrStep
  <2>3. QED  BY <1>1, <2>2
<1>5. CASE vsr' = vsr
      BY <1>1, <1>5
<1>6. QED  BY <1>2, <1>3, <1>4, <1>5, Changes

LEMMA NdopType ==
    ASSUME TypeOK, Place, [Next]_vars
    PROVE  ndop' \in Memories
<1> USE DEF InOp, Memory, RetryLater
<1>1. ndop \in Memories /\ Idle \in Memories  BY IdleType DEF TypeOK
<1>2. CASE Dispatch
  <2>1. "NEW" \notin Members(Plan) /\ Plan[1] \in Members(Plan)  BY PlanMembers DEF Plan
  <2>2. nd.st # "NEW" => nd.st \in Members(Plan)  BY <1>2 DEF Dispatch, TypeOK, States
  <2>3. "CheckForSubordinates" \in Steps /\ \A st \in Members(Plan) : SubStates(st)[1] \in Steps
        BY FirstStep, StepNames, PlanMembers
  <2>4. \/ ndop' = ndop
        \/ \E pc \in Steps : ndop' = [Idle EXCEPT !.pc = pc]
        BY <1>2, <2>1, <2>2, <2>3 DEF Dispatch
  <2>5. QED  BY <1>1, <2>4, WithPc
<1>3. CASE NextState
  <2>1. nd.st \in Members(Plan)  BY <1>3 DEF NextState, TypeOK, Place, States
  <2>2. \A st \in Members(Plan) : SubStates(st)[1] \in Steps
        BY FirstStep, StepNames
  <2>3. \/ ndop' = Idle
        \/ \E pc \in Steps : ndop' = [ndop EXCEPT !.pc = pc]
        BY <1>3, <2>1, <2>2, PlanNext DEF NextState
  <2>4. QED  BY <1>1, <2>3, WithPc
<1>4. CASE Stop
      BY <1>1, <1>4 DEF Stop
<1>5. CASE ndop' = ndop
      BY <1>1, <1>5
<1>6. QED  BY <1>2, <1>3, <1>4, <1>5, Changes, MemoryTypes

LEMMA TypeStep == TypeOK /\ Place /\ [Next]_vars => TypeOK'
<1> SUFFICES ASSUME TypeOK, Place, [Next]_vars PROVE TypeOK'
    OBVIOUS
<1>1. /\ nd' \in NodeRequests /\ vd' \in [Vol -> Subordinates] /\ ndop' \in Memories
      /\ vsr' \in [Vsr -> [by : Executors, canceled : BOOLEAN]]
      BY NdType, VdType, VsrType, NdopType
<1>2. configured' \subseteq Vol /\ attached' \subseteq Stg
  <2>1. \A v \in Vol : DetachVolume(v) => configured' \subseteq configured  BY DEF DetachVolume
  <2>2. \A s \in Stg : DetachEnds(s) => attached' \subseteq attached  BY DEF DetachEnds
  <2>3. QED  BY <2>1, <2>2, Changes DEF TypeOK
<1>3. detach' \in [Stg -> {"none", "active", "done", "failed"}]
  <2>1. LaunchDetachSRs => detach' = detach \/ \E s \in Stg : detach' = [detach EXCEPT ![s] = "active"]
        BY DEF LaunchDetachSRs, TypeOK, Memories
  <2>2. \A s \in Stg : DetachEnds(s) => \E d \in {"done", "failed"} : detach' = [detach EXCEPT ![s] = d]
        BY DEF DetachEnds
  <2>3. QED  BY <2>1, <2>2, Changes DEF TypeOK
<1>4. node' \in {"TIMED_OUT", "TEAR_DOWN", "DELETED"} /\ sr' \in {"centrald", "agentd", "done"}
      /\ stops' \in Nat /\ misled' \in BOOLEAN
  <2>1. CASE NodeDeleteStep
        BY <2>1 DEF NodeDeleteStep, TypeOK, Dispatch, NextState, TeardownNode, ListSRs, WaitForSRs,
           ListVSRs, WaitForVSRs, FailSRs, CancelVSRs, WaitForCanceled, ListRemaining, ForceCancel,
           PrimePeerMap, CheckForSubordinates, LaunchRemaining, WaitForResponses, FindDetachSRs,
           LaunchDetachSRs, WaitForDetachSRs, SyncState, DeleteNode
  <2>2. CASE Stop \/ Relaunch \/ Cancel \/ SrStep
    <3>1. node' = node /\ misled' = misled /\ stops' \in {stops, stops + 1} /\ sr' \in {sr, "agentd", "done"}
          BY <2>2 DEF Stop, Relaunch, Cancel, SrStep
    <3>2. stops \in Nat  BY DEF TypeOK
    <3>3. stops' \in Nat  BY <3>1, <3>2
    <3>4. QED  BY <3>1, <3>3 DEF TypeOK
  <2>3. CASE \/ \E v \in Vol : SubStep(v)
             \/ \E r \in Vsr : VsrStep(r)
             \/ \E s \in Stg : DetachEnds(s)
        BY <2>3 DEF TypeOK, SubStep, SubSync, DetachVolume, VsrStep, DetachEnds
  <2>4. CASE UNCHANGED vars
        BY <2>4 DEF vars, TypeOK
  <2>5. QED  BY <2>1, <2>2, <2>3, <2>4 DEF Next
<1>5. QED  BY <1>1, <1>2, <1>3, <1>4 DEF TypeOK, NodeRequests, Subordinates

\* Where a handler comes from that is about to end requests, to ask for the
\* detaching of storage, to wait for it, or to leave its state.
LEMMA AfterIs ==
    ASSUME TypeOK, Place, ndop.pc \notin {"idle", "next"}
    PROVE  /\ After(ndop) = [ndop EXCEPT !.pc = After(ndop).pc]
           /\ After(ndop).pc = "ForceCancel" => ndop.pc = "ListRemaining"
           /\ After(ndop).pc = "LaunchDetachSRs" => ndop.pc = "FindDetachSRs"
           /\ After(ndop).pc = "WaitForDetachSRs" <=> ndop.pc = "LaunchDetachSRs"
           /\ After(ndop).pc = "next" /\ nd.st = "CANCELING_REQUESTS" => ndop.pc = "ForceCancel"
           /\ After(ndop).pc = "next" /\ nd.st = "DETACHING_STORAGE" => ndop.pc = "WaitForDetachSRs"
<1>1. PICK i \in DOMAIN SubStates(nd.st) :
         /\ nd.st \in Members(Plan)
         /\ ndop.pc = SubStates(nd.st)[i]
         /\ After(ndop) = [ndop EXCEPT !.pc = IF i = Len(SubStates(nd.st)) THEN "next"
                                              ELSE SubStates(nd.st)[i + 1]]
      BY Following
<1> DEFINE pc == IF i = Len(SubStates(nd.st)) THEN "next" ELSE SubStates(nd.st)[i + 1]
<1>2. ndop \in Memories /\ After(ndop) = [ndop EXCEPT !.pc = pc]  BY <1>1 DEF TypeOK
<1>3. /\ pc = "ForceCancel" => ndop.pc = "ListRemaining"
      /\ pc = "LaunchDetachSRs" => ndop.pc = "FindDetachSRs"
      /\ pc = "WaitForDetachSRs" <=> ndop.pc = "LaunchDetachSRs"
      /\ pc = "next" /\ nd.st = "CANCELING_REQUESTS" => ndop.pc = "ForceCancel"
      /\ pc = "next" /\ nd.st = "DETACHING_STORAGE" => ndop.pc = "WaitForDetachSRs"
      BY <1>1, PlanMembers DEF SubStates
<1> HIDE DEF pc
<1>4. After(ndop).pc = pc  BY <1>2 DEF Memories
<1>5. QED  BY <1>2, <1>3, <1>4

LEMMA Moves ==
    ASSUME TypeOK, Place, NodeDeleteStep, ~Dispatch, ~NextState
    PROVE  /\ ndop.pc \notin {"idle", "next"} /\ nd.st \in Members(Plan)
           /\ ndop'.pc \in {"idle", "next"} \cup Members(SubStates(nd.st))
           /\ ndop'.pc = "ForceCancel" => CancelVSRs \/ ListRemaining
           /\ ndop'.pc = "LaunchDetachSRs" => FindDetachSRs \/ LaunchDetachSRs
           /\ ndop'.pc = "WaitForDetachSRs" => LaunchDetachSRs
           /\ ndop'.pc = "next" /\ nd.st = "CANCELING_REQUESTS" => ForceCancel
           /\ ndop'.pc = "next" /\ nd.st = "DETACHING_STORAGE" => WaitForDetachSRs
           /\ ndop'.new \in {ndop.new, {}} \/ LaunchDetachSRs
<1> USE DEF InOp, Memory, RetryLater
<1>1. ndop.pc \notin {"idle", "next"}
      BY DEF NodeDeleteStep, TeardownNode, ListSRs, WaitForSRs, ListVSRs, WaitForVSRs, FailSRs, CancelVSRs,
         WaitForCanceled, ListRemaining, ForceCancel, PrimePeerMap, CheckForSubordinates, LaunchRemaining,
         WaitForResponses, FindDetachSRs, LaunchDetachSRs, WaitForDetachSRs, SyncState, DeleteNode
<1> DEFINE a == After(ndop)
<1>2. /\ a \in Memories /\ ndop \in Memories
      /\ nd.st \in Members(Plan) /\ ndop.pc \in Members(SubStates(nd.st))
      /\ a.pc \in {"next"} \cup Members(SubStates(nd.st))
  <2>1. nd.st \in Members(Plan) /\ a \in Memories /\ a.pc \in {"next"} \cup Members(SubStates(nd.st))
        BY <1>1, AfterType
  <2>2. QED  BY <1>1, <2>1 DEF TypeOK, Place
<1>3. /\ a.pc = "ForceCancel" => ndop.pc = "ListRemaining"
      /\ a.pc = "LaunchDetachSRs" => ndop.pc = "FindDetachSRs"
      /\ a.pc = "WaitForDetachSRs" => ndop.pc = "LaunchDetachSRs"
      /\ a.pc = "next" /\ nd.st = "CANCELING_REQUESTS" => ndop.pc = "ForceCancel"
      /\ a.pc = "next" /\ nd.st = "DETACHING_STORAGE" => ndop.pc = "WaitForDetachSRs"
      /\ a.new = ndop.new
  <2>1. a = [ndop EXCEPT !.pc = a.pc]  BY <1>1, AfterIs
  <2>2. a.new = ndop.new  BY <1>2, <2>1 DEF Memories
  <2>3. QED  BY <1>1, <2>2, AfterIs
<1> DEFINE same == ndop'.pc = a.pc /\ ndop'.new = ndop.new
<1>4. Idle.pc = "idle" /\ Idle.new = {}  BY DEF Idle
<1> HIDE DEF a
<1>5. CASE TeardownNode \/ WaitForSRs \/ WaitForVSRs \/ WaitForCanceled \/ WaitForResponses
           \/ DeleteNode \/ FailSRs
  <2>1. ndop' \in {a, Idle}
        BY <1>5 DEF a, TeardownNode, WaitForSRs, WaitForVSRs, WaitForCanceled, WaitForResponses, DeleteNode, FailSRs
  <2>2. ndop.pc \notin {"ListRemaining", "FindDetachSRs", "LaunchDetachSRs", "ForceCancel", "WaitForDetachSRs"}
        BY <1>5 DEF TeardownNode, WaitForSRs, WaitForVSRs, WaitForCanceled, WaitForResponses, DeleteNode, FailSRs
  <2>3. QED  BY <1>1, <1>2, <1>3, <1>4, <2>1, <2>2
<1>6. CASE SyncState
  <2>1. ndop' \in {a, Idle, ndop} /\ ndop.pc = "SyncState"
        BY <1>6 DEF a, SyncState
  <2>2. QED  BY <1>1, <1>2, <1>3, <1>4, <2>1
<1>7. CASE ForceCancel
  <2>1. ndop' \in {a, Idle} /\ ndop.pc = "ForceCancel"
        BY <1>7 DEF a, ForceCancel
  <2>2. nd.st # "DETACHING_STORAGE"  BY <1>2, <2>1, SubStateMembers
  <2>3. QED  BY <1>1, <1>2, <1>3, <1>4, <1>7, <2>1, <2>2
<1>8. CASE WaitForDetachSRs
  <2>1. ndop' = a /\ ndop.pc = "WaitForDetachSRs"
        BY <1>8 DEF a, WaitForDetachSRs
  <2>2. nd.st # "CANCELING_REQUESTS"  BY <1>2, <2>1, SubStateMembers
  <2>3. QED  BY <1>1, <1>2, <1>3, <1>8, <2>1, <2>2
<1>9. CASE ListSRs \/ ListVSRs \/ CheckForSubordinates
  <2>1. same  BY <1>2, <1>3, <1>9 DEF a, ListSRs, ListVSRs, CheckForSubordinates, Memories
  <2>2. ndop.pc \notin {"ListRemaining", "FindDetachSRs", "LaunchDetachSRs", "ForceCancel", "WaitForDetachSRs"}
        BY <1>9 DEF ListSRs, ListVSRs, CheckForSubordinates
  <2>3. QED  BY <1>1, <1>2, <1>3, <2>1, <2>2
<1>10. CASE ListRemaining
  <2>1. same /\ ndop.pc = "ListRemaining"  BY <1>2, <1>3, <1>10 DEF a, ListRemaining, Memories
  <2>2. QED  BY <1>1, <1>2, <1>3, <1>10, <2>1
<1>11. CASE CancelVSRs
  <2>1. ndop'.pc \in {"ForceCancel", a.pc} /\ ndop'.new = ndop.new /\ ndop.pc = "CancelVSRs"
        BY <1>2, <1>3, <1>11 DEF a, CancelVSRs, Memories
  <2>2. nd.st = "CANCELING_REQUESTS"  BY <1>2, <2>1, PlanMembers, SubStateMembers
  <2>3. "ForceCancel" \in Members(SubStates(nd.st))  BY <2>2, SubStateMembers
  <2>4. QED  BY <1>1, <1>2, <1>3, <1>11, <2>1, <2>3
<1>12. CASE PrimePeerMap
  <2>1. ndop'.pc = "LaunchRemaining" /\ ndop'.new = ndop.new /\ ndop.pc = "PrimePeerMap"
        BY <1>2, <1>12 DEF PrimePeerMap, Memories
  <2>2. nd.st = "DETACHING_VOLUMES"  BY <1>2, <2>1, PlanMembers, SubStateMembers
  <2>3. "LaunchRemaining" \in Members(SubStates(nd.st))  BY <2>2, SubStateMembers
  <2>4. QED  BY <1>1, <1>2, <2>1, <2>3
<1>13. CASE LaunchRemaining
  <2>1. ndop'.pc \in {"next", "LaunchRemaining", a.pc} /\ ndop'.new = ndop.new /\ ndop.pc = "LaunchRemaining"
    <3>1. ndop.pc = "LaunchRemaining"  BY <1>13 DEF LaunchRemaining
    <3>2. CASE \E v \in Vol, pc \in {"next", "LaunchRemaining"} : ndop' = [ndop EXCEPT !.ids = @ \cup {v}, !.pc = pc]
          BY <1>2, <3>1, <3>2 DEF Memories
    <3>3. CASE ndop' = a
          BY <1>3, <3>1, <3>3
    <3>4. QED  BY <1>13, <3>1, <3>2, <3>3 DEF a, LaunchRemaining
  <2>2. nd.st = "DETACHING_VOLUMES"  BY <1>2, <2>1, PlanMembers, SubStateMembers
  <2>3. QED  BY <1>1, <1>2, <1>3, <2>1, <2>2
<1>14. CASE FindDetachSRs
  <2>1. same /\ ndop.pc = "FindDetachSRs"
        BY <1>2, <1>3, <1>14 DEF a, FindDetachSRs, Memories
  <2>2. QED  BY <1>1, <1>2, <1>3, <1>14, <2>1
<1>15. CASE LaunchDetachSRs
  <2>1. ndop'.pc \in {"LaunchDetachSRs", a.pc} /\ ndop.pc = "LaunchDetachSRs"
        BY <1>2, <1>15 DEF a, LaunchDetachSRs, Memories
  <2>2. QED  BY <1>1, <1>2, <1>3, <1>15, <2>1
<1>16. QED  BY <1>5, <1>6, <1>7, <1>8, <1>9, <1>10, <1>11, <1>12, <1>13, <1>14, <1>15 DEF NodeDeleteStep

LEMMA PlaceStep == TypeOK /\ Place /\ [Next]_vars => Place'
<1> SUFFICES ASSUME TypeOK, Place, TypeOK', [Next]_vars PROVE Place'
    BY TypeStep
<1> USE DEF InOp, Memory, RetryLater
<1>1. ndop \in Memories /\ nd \in NodeRequests  BY DEF TypeOK, NodeRequests
<1>2. Members(Plan) \cap ({"NEW"} \cup Terminal) = {}  BY PlanMembers DEF Terminal
<1>3. Idle.pc = "idle"  BY DEF Idle
<1>4. CASE Dispatch
  <2>1. CASE nd.canceled
        BY <1>1, <1>2, <1>4, <2>1 DEF Dispatch, Place, NodeRequests, Terminal
  <2>2. CASE ~nd.canceled
    <3>1. Plan[1] \in Members(Plan)  BY PlanMembers DEF Plan
    <3>2. nd.st # "NEW" => nd.st \in Members(Plan)  BY <1>4 DEF Dispatch, TypeOK, States
    <3>3. PICK st \in Members(Plan) :
             /\ nd' = [nd EXCEPT !.st = st]
             /\ \E pc \in Members(SubStates(st)) : ndop' = [Idle EXCEPT !.pc = pc]
          BY <1>4, <2>2, <3>1, <3>2, FirstStep DEF Dispatch
    <3>4. nd'.st = st /\ ndop'.pc \in Members(SubStates(st))  BY <1>1, <3>3 DEF NodeRequests, Idle
    <3>5. QED  BY <1>2, <3>4 DEF Place
  <2>3. QED  BY <2>1, <2>2
<1>5. CASE NextState
  <2>1. nd.st \in Members(Plan)  BY <1>5 DEF NextState, TypeOK, Place, States
  <2>2. CASE \E st \in Terminal : nd' = [nd EXCEPT !.st = st] /\ ndop' = Idle
        BY <1>1, <1>2, <1>3, <2>2 DEF Place, NodeRequests
  <2>3. CASE \E st \in Members(Plan) : nd' = [nd EXCEPT !.st = st] /\ ndop' = [ndop EXCEPT !.pc = SubStates(st)[1]]
    <3>1. PICK st \in Members(Plan) : nd' = [nd EXCEPT !.st = st] /\ ndop' = [ndop EXCEPT !.pc = SubStates(st)[1]]
          BY <2>3
    <3>2. nd'.st = st /\ ndop'.pc = SubStates(st)[1]  BY <1>1, <3>1 DEF NodeRequests, Memories
    <3>3. QED  BY <1>2, <3>2, FirstStep DEF Place
  <2>4. QED  BY <1>5, <2>1, <2>2, <2>3, PlanNext DEF NextState, Terminal
<1>6. CASE NodeDeleteStep /\ ~Dispatch /\ ~NextState
  <2>1. ndop'.pc \in {"idle", "next"} \cup Members(SubStates(nd.st)) /\ nd.st \in Members(Plan)
        BY <1>6, Moves
  <2>2. CASE nd'.st = nd.st
        BY <1>2, <2>1, <2>2 DEF Place
  <2>3. CASE nd'.st # nd.st
    <3>1. CASE SyncState
      <4>1. ndop' = Idle  BY <1>1, <2>3, <3>1 DEF SyncState, NodeRequests
      <4>2. QED  BY <1>3, <4>1 DEF Place
    <3>2. CASE PrimePeerMap
          BY <1>1, <2>3, <3>2 DEF PrimePeerMap, NodeRequests
    <3>3. CASE nd' = nd
          BY <2>3, <3>3
    <3>4. QED
          BY <1>6, <3>1, <3>2, <3>3 DEF NodeDeleteStep, TeardownNode, ListSRs, WaitForSRs, ListVSRs, WaitForVSRs,
             FailSRs, CancelVSRs, WaitForCanceled, ListRemaining, ForceCancel, CheckForSubordinates,
             LaunchRemaining, WaitForResponses, FindDetachSRs, LaunchDetachSRs, WaitForDetachSRs, DeleteNode
  <2>4. QED  BY <2>2, <2>3
<1>7. CASE Stop
      BY <1>3, <1>7 DEF Stop, Place
<1>8. CASE Relaunch
  <2>1. nd'.st = "NEW" /\ ndop'.pc = "idle"  BY <1>8 DEF Relaunch, NewRequest, Place
  <2>2. QED  BY <2>1 DEF Place
<1>9. CASE Cancel
      BY <1>1, <1>9 DEF Cancel, Place, NodeRequests
<1>10. ASSUME NEW v \in Vol, SubStep(v)  PROVE Place'
  <2>1. ndop' = ndop /\ nd'.st = nd.st  BY <1>1, <1>10 DEF SubStep, SubSync, DetachVolume, NodeRequests
  <2>2. QED  BY <2>1 DEF Place
<1>11. CASE nd' = nd /\ ndop' = ndop
       BY <1>11 DEF Place
<1>12. QED
       BY <1>4, <1>5, <1>6, <1>7, <1>8, <1>9, <1>10, <1>11
       DEF Next, SrStep, VsrStep, DetachEnds, vars

-----------------------------------------------------------------------------
(* How the request, its handler and the subordinates change.               *)

\* Nothing else of a handler's memory matters where it begins a state.
LEMMA Begins ==
    ASSUME TypeOK, Place, Dispatch \/ NextState
    PROVE  /\ ndop.pc \in {"idle", "next"}
           /\ ndop'.pc \in {"idle", "TeardownNode", "FailSRs", "PrimePeerMap", "CheckForSubordinates",
                            "FindDetachSRs", "SyncState", "DeleteNode"}
           /\ ndop'.new \in {ndop.new, {}}
<1> USE DEF InOp, Memory, RetryLater
<1>1. ndop \in Memories  BY DEF TypeOK
<1> DEFINE Firsts == {"TeardownNode", "FailSRs", "PrimePeerMap", "CheckForSubordinates",
                      "FindDetachSRs", "SyncState", "DeleteNode"}
<1>2. \A st \in Members(Plan) : SubStates(st)[1] \in Firsts  BY PlanMembers DEF SubStates
<1>3. CASE Dispatch
  <2>1. Plan[1] \in Members(Plan)  BY PlanMembers DEF Plan
  <2>2. nd.st # "NEW" => nd.st \in Members(Plan)  BY <1>3 DEF Dispatch, TypeOK, States
  <2>3. ndop' = ndop \/ \E pc \in Firsts : ndop' = [Idle EXCEPT !.pc = pc]
        BY <1>2, <1>3, <2>1, <2>2 DEF Dispatch
  <2>4. \A pc \in Firsts : [Idle EXCEPT !.pc = pc].pc = pc /\ [Idle EXCEPT !.pc = pc].new = {}
        BY DEF Idle
  <2>5. QED  BY <1>3, <2>3, <2>4 DEF Dispatch
<1>4. CASE NextState
  <2>1. nd.st \in Members(Plan)  BY <1>4 DEF NextState, TypeOK, Place, States
  <2>2. ndop' = Idle \/ \E pc \in Firsts : ndop' = [ndop EXCEPT !.pc = pc]
        BY <1>2, <1>4, <2>1, PlanNext DEF NextState
  <2>3. \A pc \in Firsts : [ndop EXCEPT !.pc = pc].pc = pc /\ [ndop EXCEPT !.pc = pc].new = ndop.new
        BY <1>1 DEF Memories
  <2>4. Idle.pc = "idle" /\ Idle.new = {}  BY DEF Idle
  <2>5. ndop'.pc \in {"idle"} \cup Firsts /\ ndop'.new \in {ndop.new, {}}
    <3>1. CASE ndop' = Idle
          BY <2>4, <3>1
    <3>2. CASE \E pc \in Firsts : ndop' = [ndop EXCEPT !.pc = pc]
          BY <2>3, <3>2
    <3>3. QED  BY <2>2, <3>1, <3>2
  <2>6. QED  BY <1>4, <2>5 DEF NextState
<1>5. QED  BY <1>3, <1>4

\* The states of NODE_DELETE come in order.
LEMMA PlanOrder ==
    \A st \in Members(Plan) : At(Plan, st) # Len(Plan) =>
        LET to == Plan[At(Plan, st) + 1] IN
        /\ to \in Past => st \in Past \cup {"CANCELING_REQUESTS"}
        /\ to \in Late => st \in Late \cup {"DETACHING_STORAGE"}
        /\ st \in Late => to \in Late
<1>1. DOMAIN Plan = 1..7 /\ Len(Plan) = 7  BY DEF Plan
<1>2. SUFFICES ASSUME NEW i \in 1..7, i # 7
               PROVE  /\ Plan[i + 1] \in Past => Plan[i] \in Past \cup {"CANCELING_REQUESTS"}
                      /\ Plan[i + 1] \in Late => Plan[i] \in Late \cup {"DETACHING_STORAGE"}
                      /\ Plan[i] \in Late => Plan[i + 1] \in Late
      BY <1>1, PlanAt DEF Members
<1>3. /\ Plan[1] = "DRAINING_REQUESTS" /\ Plan[2] = "CANCELING_REQUESTS" /\ Plan[3] = "DETACHING_VOLUMES"
      /\ Plan[4] = "DETACHING_STORAGE" /\ Plan[5] = "VOLUME_DETACH_WAIT" /\ Plan[6] = "VOLUME_DETACHED"
      /\ Plan[7] = "DELETING_NODE"
      BY DEF Plan
<1>4. CASE i \in {1, 2, 3}
      BY <1>3, <1>4 DEF Past, Late
<1>5. CASE i \in {4, 5, 6}
      BY <1>3, <1>5 DEF Past, Late
<1>6. QED  BY <1>2, <1>4, <1>5

LEMMA RelaunchIsNew == Relaunch => nd'.st = "NEW" /\ nd'.me = ""
<1>1. NewRequest.st = "NEW" /\ NewRequest.me = ""  BY DEF NewRequest
<1>2. QED  BY <1>1 DEF Relaunch

LEMMA NodeDeleteMoves ==
    ASSUME TypeOK, Place, [Next]_vars
    PROVE  \/ nd'.st = nd.st
           \/ nd'.st \in Terminal
           \/ nd'.st = "NEW" /\ Relaunch
           \/ nd'.st = "DRAINING_REQUESTS" /\ nd.st = "NEW"
           \/ /\ NextState
              /\ nd'.st \in Past => nd.st \in Past \cup {"CANCELING_REQUESTS"}
              /\ nd'.st \in Late => nd.st \in Late \cup {"DETACHING_STORAGE"}
              /\ nd.st \in Late => nd'.st \in Late
<1> USE DEF InOp, Memory, RetryLater
<1>1. nd \in NodeRequests  BY DEF TypeOK, NodeRequests
<1>2. CASE Dispatch
  <2>1. Plan[1] = "DRAINING_REQUESTS"  BY DEF Plan
  <2>2. nd'.st \in {"CANCELED", nd.st} \/ (nd'.st = "DRAINING_REQUESTS" /\ nd.st = "NEW")
    <3>1. CASE nd.canceled
          BY <1>1, <1>2, <3>1 DEF Dispatch, NodeRequests
    <3>2. CASE ~nd.canceled
          BY <1>1, <1>2, <2>1, <3>2 DEF Dispatch, NodeRequests
    <3>3. QED  BY <3>1, <3>2
  <2>3. QED  BY <2>2 DEF Terminal
<1>3. CASE NextState
  <2>1. nd.st \in Members(Plan)  BY <1>3 DEF NextState, TypeOK, Place, States
  <2>2. \/ nd' = [nd EXCEPT !.st = "CANCELED"] \/ nd' = [nd EXCEPT !.st = "SUCCEEDED"]
        \/ At(Plan, nd.st) # Len(Plan) /\ nd' = [nd EXCEPT !.st = Plan[At(Plan, nd.st) + 1]]
        BY <1>3 DEF NextState
  <2>3. \/ nd'.st \in Terminal
        \/ At(Plan, nd.st) # Len(Plan) /\ nd'.st = Plan[At(Plan, nd.st) + 1]
        BY <1>1, <2>2 DEF NodeRequests, Terminal
  <2>4. QED  BY <1>3, <2>1, <2>3, PlanOrder
<1>4. CASE SyncState
      BY <1>1, <1>4 DEF SyncState, NodeRequests, Terminal
<1>5. CASE Relaunch
      BY <1>5 DEF Relaunch, NewRequest
<1>6. CASE PrimePeerMap \/ Cancel \/ \E v \in Vol : SubSync(v)
      BY <1>1, <1>6 DEF PrimePeerMap, Cancel, SubSync, NodeRequests
<1>7. QED  BY <1>2, <1>3, <1>4, <1>5, <1>6, Changes

LEMMA SyncMoves ==
    ASSUME TypeOK, Place, [Next]_vars
    PROVE  nd'.me = nd.me \/ nd'.me \in {"", "FAILED"} \/ (nd'.me = nd.st /\ nd'.st = nd.st /\ nd.st \in Late)
<1> USE DEF InOp, Memory, RetryLater
<1>1. nd \in NodeRequests  BY DEF TypeOK, NodeRequests
<1>2. CASE SyncState
  <2>1. nd.st \in Members(Plan) /\ "SyncState" \in Members(SubStates(nd.st))
        BY <1>2 DEF SyncState, TypeOK, Place, States
  <2>2. nd.st \in Late  BY <2>1, PlanMembers, SubStateMembers DEF Late
  <2>3. QED  BY <1>1, <1>2, <2>2 DEF SyncState, NodeRequests
<1>3. CASE Relaunch
      BY <1>3 DEF Relaunch, NewRequest
<1>4. CASE Dispatch \/ NextState \/ PrimePeerMap \/ Cancel \/ \E v \in Vol : SubSync(v)
      BY <1>1, <1>4 DEF Dispatch, NextState, PrimePeerMap, Cancel, SubSync, NodeRequests
<1>5. QED  BY <1>2, <1>3, <1>4, Changes

LEMMA SubMoves ==
    ASSUME TypeOK, [Next]_vars, NEW v \in Vol
    PROVE  /\ v \in ActiveSubs' => v \in ActiveSubs \/ (LaunchRemaining /\ vd'[v].mine)
           /\ \/ vd'[v].mine = vd[v].mine
              \/ Relaunch /\ ~vd'[v].mine
              \/ LaunchRemaining /\ vd'[v].mine /\ vd'[v].st = "VOLUME_DETACH_WAIT"
           /\ \/ vd'[v].st = "VOLUME_DETACHING" => vd[v].st = "VOLUME_DETACHING"
              \/ SubSync(v) /\ vd[v].st = "VOLUME_DETACH_WAIT" /\ ~SubHopeless(v)
                 /\ SyncOrder(nd.me) >= SyncOrder("VOLUME_DETACH_WAIT")
<1>1. vd \in [Vol -> Subordinates]  BY DEF TypeOK, Subordinates
<1>2. CASE CancelVSRs
  <2>1. vd'[v].st = vd[v].st /\ vd'[v].mine = vd[v].mine  BY <1>1, <1>2 DEF CancelVSRs, Subordinates
  <2>2. QED  BY <2>1 DEF ActiveSubs
<1>3. CASE ForceCancel
  <2>1. vd'[v].st \in {vd[v].st, "CANCELED"} /\ vd'[v].mine = vd[v].mine  BY <1>1, <1>3 DEF ForceCancel, Subordinates
  <2>2. QED  BY <2>1 DEF ActiveSubs, Terminal
<1>4. CASE Relaunch
  <2>1. vd'[v].st = vd[v].st /\ vd'[v].mine = FALSE  BY <1>1, <1>4 DEF Relaunch, Subordinates
  <2>2. QED  BY <1>4, <2>1 DEF ActiveSubs
<1>5. CASE LaunchRemaining
  <2>1. SubPlan[1] = "VOLUME_DETACH_WAIT"  BY DEF SubPlan
  <2>2. vd'[v] = vd[v] \/ (vd'[v].mine /\ vd'[v].st = "VOLUME_DETACH_WAIT")
    <3>1. vd' = vd \/ \E w \in Vol : vd' = [vd EXCEPT ![w] = [st |-> SubPlan[1], mine |-> TRUE, canceled |-> FALSE]]
          BY <1>5 DEF LaunchRemaining
    <3>2. vd'[v] \in {vd[v], [st |-> SubPlan[1], mine |-> TRUE, canceled |-> FALSE]}
          BY <1>1, <3>1
    <3>3. QED  BY <2>1, <3>2
  <2>3. QED  BY <1>5, <2>2 DEF ActiveSubs
<1>6. ASSUME NEW w \in Vol, DetachVolume(w)
      PROVE  /\ vd'[v].mine = vd[v].mine /\ (v \in ActiveSubs' => v \in ActiveSubs)
             /\ vd'[v].st = "VOLUME_DETACHING" => vd[v].st = "VOLUME_DETACHING"
  <2>1. vd'[v] = vd[v] \/ (vd[v].st = "VOLUME_DETACHING" /\ vd'[v].mine = vd[v].mine)
        BY <1>1, <1>6 DEF DetachVolume, SubAt, Subordinates
  <2>2. QED  BY <2>1 DEF ActiveSubs, Terminal
<1>7. ASSUME NEW w \in Vol, SubSync(w)
      PROVE  /\ vd'[v].mine = vd[v].mine /\ (v \in ActiveSubs' => v \in ActiveSubs)
             /\ \/ vd'[v].st = "VOLUME_DETACHING" => vd[v].st = "VOLUME_DETACHING"
                \/ SubSync(v) /\ vd[v].st = "VOLUME_DETACH_WAIT" /\ ~SubHopeless(v)
                   /\ SyncOrder(nd.me) >= SyncOrder("VOLUME_DETACH_WAIT")
  <2>1. vd[w].st \in {"VOLUME_DETACH_WAIT", "VOLUME_DETACHED"}  BY <1>7 DEF SubSync
  <2>2. CASE w # v \/ vd' = vd
    <3>1. vd'[v] = vd[v]  BY <1>1, <1>7, <2>2 DEF SubSync
    <3>2. QED  BY <3>1 DEF ActiveSubs
  <2>3. CASE w = v /\ vd' = [vd EXCEPT ![v].st = "FAILED"]
    <3>1. vd'[v].st = "FAILED" /\ vd'[v].mine = vd[v].mine  BY <1>1, <2>3 DEF Subordinates
    <3>2. QED  BY <3>1 DEF ActiveSubs, Terminal
  <2>4. CASE /\ w = v /\ ~SubHopeless(v) /\ SyncOrder(nd.me) >= SyncOrder(vd[v].st)
             /\ vd' = [vd EXCEPT ![v].st = IF vd[v].st = "VOLUME_DETACHED" THEN "SUCCEEDED" ELSE "VOLUME_DETACHING"]
    <3>1. vd'[v].st = (IF vd[v].st = "VOLUME_DETACHED" THEN "SUCCEEDED" ELSE "VOLUME_DETACHING")
          /\ vd'[v].mine = vd[v].mine
          BY <1>1, <2>4 DEF Subordinates
    <3>2. v \in ActiveSubs  BY <2>1, <2>4 DEF ActiveSubs, Terminal
    <3>3. QED  BY <1>7, <2>1, <2>4, <3>1, <3>2
  <2>5. QED  BY <1>7, <2>2, <2>3, <2>4 DEF SubSync
<1>8. CASE vd' = vd
      BY <1>8 DEF ActiveSubs
<1>9. QED  BY <1>2, <1>3, <1>4, <1>5, <1>6, <1>7, <1>8, Changes DEF SubStep

-----------------------------------------------------------------------------
(* The invariant, part by part.                                            *)

LEMMA SubsActive == ActiveSubs \subseteq Active
<1> SUFFICES ASSUME NEW v \in ActiveSubs PROVE v \in Active
    OBVIOUS
<1>1. v \notin Vsr  BY NamesAssumption DEF ActiveSubs
<1>2. By(v) = "centrald"  BY <1>1 DEF By
<1>3. QED  BY <1>2 DEF Active, Requests

LEMMA ListingStep == IInv /\ [Next]_vars => Listing'
<1> SUFFICES ASSUME IInv, [Next]_vars, ndop'.pc = "ForceCancel"
             PROVE  ActiveSubs' \subseteq DOMAIN ndop'.vsrs
    BY DEF Listing
<1> USE DEF InOp, Memory, RetryLater
<1>1. TypeOK /\ Place /\ Listing /\ ndop \in Memories  BY DEF IInv, TypeOK
<1>2. LaunchRemaining \/ ActiveSubs' \subseteq ActiveSubs
  <2>1. ActiveSubs' \subseteq Vol  BY DEF ActiveSubs
  <2>2. QED  BY <1>1, <2>1, SubMoves
<1>3. CASE ndop' = ndop
      BY <1>1, <1>2, <1>3 DEF Listing, LaunchRemaining
<1>4. CASE Dispatch \/ NextState
      BY <1>1, <1>4, Begins
<1>5. CASE Stop
      BY <1>5 DEF Stop, Idle
<1>6. CASE NodeDeleteStep /\ ~Dispatch /\ ~NextState
  <2>1. \A rs : DOMAIN Listed(rs) = rs  BY DEF Listed
  <2>2. CASE ListRemaining
    <3>1. After(ndop) \in Memories  BY <1>1, <2>2, AfterType DEF ListRemaining
    <3>2. ndop'.vsrs = Listed(Active)  BY <2>2, <3>1 DEF ListRemaining, Memories
    <3>3. ActiveSubs' = ActiveSubs  BY <2>2 DEF ListRemaining, ActiveSubs
    <3>4. QED  BY <2>1, <3>2, <3>3, SubsActive
  <2>3. CASE CancelVSRs
    <3>1. ndop.pc = "CancelVSRs" /\ After(ndop) \in Memories /\ After(ndop).pc # "ForceCancel"
          BY <1>1, <2>3, AfterType, AfterIs DEF CancelVSRs
    <3>2. ndop' # [After(ndop) EXCEPT !.vsrs = Listed(ToCancel)]  BY <3>1 DEF Memories
    <3>3. ndop' = [ndop EXCEPT !.pc = "ForceCancel", !.vsrs = Listed(Active)]
          BY <2>3, <3>2 DEF CancelVSRs
    <3>4. ndop'.vsrs = Listed(Active)  BY <1>1, <3>3 DEF Memories
    <3>5. ~LaunchRemaining  BY <3>1 DEF LaunchRemaining
    <3>6. QED  BY <1>2, <2>1, <3>4, <3>5, SubsActive
  <2>4. QED  BY <1>1, <1>6, <2>2, <2>3, Moves
<1>7. QED  BY <1>3, <1>4, <1>5, <1>6, Changes

LEMMA MineStep == IInv /\ [Next]_vars => Mine'
<1> SUFFICES ASSUME IInv, [Next]_vars, NEW v \in Vol, v \in ActiveSubs',
                    nd'.st \in Past \/ (nd'.st = "CANCELING_REQUESTS" /\ ndop'.pc = "next")
             PROVE  vd'[v].mine
    BY DEF Mine, ActiveSubs
<1> USE DEF InOp, Memory, RetryLater
<1>1. TypeOK /\ Place /\ Listing /\ Mine  BY DEF IInv
<1>2. Past \cap (Terminal \cup {"NEW", "DRAINING_REQUESTS"}) = {} /\ "CANCELING_REQUESTS" \notin Past
      BY DEF Past, Late, Terminal
<1>3. CASE nd.st \in Past \/ (nd.st = "CANCELING_REQUESTS" /\ ndop.pc = "next")
  <2>1. nd'.st # "NEW"  BY <1>2
  <2>2. ~Relaunch  BY <2>1, RelaunchIsNew
  <2>3. QED  BY <1>1, <1>3, <2>2, SubMoves DEF Mine
<1>4. CASE ~(nd.st \in Past \/ (nd.st = "CANCELING_REQUESTS" /\ ndop.pc = "next"))
  <2>1. nd'.st = "CANCELING_REQUESTS" /\ ndop'.pc = "next"
    <3>1. SUFFICES ASSUME nd'.st \in Past PROVE FALSE
          OBVIOUS
    <3>2. NextState /\ nd.st = "CANCELING_REQUESTS"
          BY <1>1, <1>2, <1>4, <3>1, NodeDeleteMoves
    <3>3. QED  BY <1>4, <3>2 DEF NextState
  <2>2. ~Dispatch /\ ~NextState  BY <1>1, <2>1, Begins
  <2>3. nd.st = "CANCELING_REQUESTS"
        BY <1>1, <2>1, <2>2, NodeDeleteMoves DEF Terminal
  <2>4. NodeDeleteStep
    <3>1. ndop' # ndop  BY <1>4, <2>1, <2>3
    <3>2. ~Stop  BY <2>1 DEF Stop, Idle
    <3>3. QED  BY <3>1, <3>2, Changes
  <2>5. ForceCancel  BY <1>1, <2>1, <2>2, <2>3, <2>4, Moves
  <2>6. ndop' # Idle  BY <2>1 DEF Idle
  <2>7. \A r \in DOMAIN ndop.vsrs : ~Changed(r)  BY <2>5, <2>6 DEF ForceCancel
  <2>8. v \in ActiveSubs  BY <1>1, <2>5, SubMoves DEF ForceCancel, LaunchRemaining
  <2>9. v \in DOMAIN ndop.vsrs  BY <1>1, <2>5, <2>8 DEF Listing, ForceCancel
  <2>10. vd'[v].st = "CANCELED"
    <3>1. vd \in [Vol -> Subordinates]  BY <1>1 DEF TypeOK, Subordinates
    <3>2. QED  BY <2>5, <2>7, <2>9, <3>1 DEF ForceCancel, Subordinates
  <2>11. QED  BY <2>10 DEF ActiveSubs, Terminal
<1>5. QED  BY <1>3, <1>4

\* Storage is asked for in its own state.
LEMMA Detaching ==
    ASSUME TypeOK, Place, ndop.pc \in {"FindDetachSRs", "LaunchDetachSRs", "WaitForDetachSRs"}
    PROVE  nd.st = "DETACHING_STORAGE"
<1>1. nd.st \in Members(Plan) /\ ndop.pc \in Members(SubStates(nd.st))  BY DEF TypeOK, Place, States
<1>2. QED  BY <1>1, PlanMembers, SubStateMembers

\* What is known of the requests for storage is found out in one step.
LEMMA MisledMoves ==
    ASSUME [Next]_vars
    PROVE  misled' = misled \/ (FindDetachSRs /\ misled' = (\E s \in Stg : detach[s] = "active"))
<1>1. CASE FindDetachSRs
      BY <1>1 DEF FindDetachSRs
<1>2. CASE NodeDeleteStep /\ ~FindDetachSRs
      BY <1>2 DEF NodeDeleteStep, Dispatch, NextState, TeardownNode, ListSRs, WaitForSRs,
         ListVSRs, WaitForVSRs, FailSRs, CancelVSRs, WaitForCanceled, ListRemaining, ForceCancel,
         PrimePeerMap, CheckForSubordinates, LaunchRemaining, WaitForResponses,
         LaunchDetachSRs, WaitForDetachSRs, SyncState, DeleteNode
<1>3. CASE Stop \/ Relaunch \/ Cancel \/ SrStep
      BY <1>3 DEF Stop, Relaunch, Cancel, SrStep
<1>4. CASE \/ \E v \in Vol : SubStep(v)
           \/ \E r \in Vsr : VsrStep(r)
           \/ \E s \in Stg : DetachEnds(s)
      BY <1>4 DEF SubStep, SubSync, DetachVolume, VsrStep, DetachEnds
<1>5. CASE UNCHANGED vars
      BY <1>5 DEF vars
<1>6. QED  BY <1>1, <1>2, <1>3, <1>4, <1>5 DEF Next

\* Requests for the detaching of storage end, and are made nowhere else.
LEMMA DetachMoves ==
    ASSUME TypeOK, [Next]_vars
    PROVE  /\ attached' \subseteq attached
           /\ \A s \in Stg : \/ detach'[s] = detach[s]
                             \/ detach[s] = "active" /\ detach'[s] = "failed"
                             \/ detach[s] = "active" /\ detach'[s] = "done" /\ s \notin attached'
                             \/ LaunchDetachSRs /\ detach'[s] = "active" /\ ndop.pc = "LaunchDetachSRs"
<1>1. CASE LaunchDetachSRs
  <2>1. attached' = attached /\ ndop.pc = "LaunchDetachSRs"  BY <1>1 DEF LaunchDetachSRs, InOp
  <2>2. detach' = detach \/ \E s \in Stg : detach' = [detach EXCEPT ![s] = "active"]
        BY <1>1 DEF LaunchDetachSRs, TypeOK, Memories
  <2>3. QED  BY <1>1, <2>1, <2>2 DEF TypeOK
<1>2. ASSUME NEW t \in Stg, DetachEnds(t)
      PROVE  /\ attached' \subseteq attached
             /\ \A s \in Stg : \/ detach'[s] = detach[s]
                               \/ detach[s] = "active" /\ detach'[s] = "failed"
                               \/ detach[s] = "active" /\ detach'[s] = "done" /\ s \notin attached'
      BY <1>2 DEF DetachEnds, TypeOK
<1>3. CASE detach' = detach /\ attached' = attached
      BY <1>3
<1>4. CASE \E s \in Stg : DetachEnds(s)
      BY <1>2, <1>4
<1>5. QED  BY <1>1, <1>3, <1>4, Changes

LEMMA AskedStep == IInv /\ [Next]_vars => Asked'
<1> SUFFICES ASSUME IInv, [Next]_vars, NEW s \in Stg, s \in ndop'.new, s \in attached'
             PROVE  detach'[s] \in {"active", "failed"}
  <2>1. IInv /\ [Next]_vars => attached' \subseteq Stg  BY TypeStep DEF IInv, TypeOK
  <2>2. QED  BY <2>1 DEF Asked
<1> USE DEF InOp, Memory, RetryLater
<1>1. TypeOK /\ Place /\ Asked /\ ndop \in Memories  BY DEF IInv, TypeOK
<1>2. CASE s \in ndop.new
      BY <1>1, <1>2, DetachMoves DEF Asked
<1>3. CASE s \notin ndop.new
  <2>1. LaunchDetachSRs
    <3>1. Stop => ndop'.new = {}  BY DEF Stop, Idle
    <3>2. QED  BY <1>1, <1>3, <3>1, Changes, Begins, Moves
  <2>2. After(ndop) \in Memories /\ After(ndop).new = ndop.new
    <3>1. ndop.pc = "LaunchDetachSRs"  BY <2>1 DEF LaunchDetachSRs
    <3>2. After(ndop) \in Memories /\ After(ndop) = [ndop EXCEPT !.pc = After(ndop).pc]
          BY <1>1, <3>1, AfterType, AfterIs
    <3>3. QED  BY <1>1, <3>2 DEF Memories
  <2>3. [After(ndop) EXCEPT !.wait = ndop.new].new = ndop.new  BY <2>2 DEF Memories
  <2>4. PICK t \in ndop.todo : /\ detach' = [detach EXCEPT ![t] = "active"]
                               /\ ndop' = [ndop EXCEPT !.todo = @ \ {t}, !.new = @ \cup {t}]
        BY <1>3, <2>1, <2>3 DEF LaunchDetachSRs
  <2>5. ndop'.new = ndop.new \cup {t}  BY <1>1, <2>4 DEF Memories
  <2>6. s = t  BY <1>3, <2>5
  <2>7. QED  BY <1>1, <2>4, <2>6 DEF TypeOK
<1>4. QED  BY <1>2, <1>3

LEMMA LaunchingStep == IInv /\ [Next]_vars => Launching'
<1> SUFFICES ASSUME IInv, [Next]_vars, ndop'.pc = "LaunchDetachSRs", ~misled'
             PROVE  /\ attached' \subseteq ndop'.todo \cup ndop'.new
                    /\ \A s \in Stg : detach'[s] = "active" => s \in ndop'.new
    BY DEF Launching
<1> USE DEF InOp, Memory, RetryLater
<1>1. TypeOK /\ Place /\ Launching /\ ndop \in Memories  BY DEF IInv, TypeOK
<1>2. CASE ndop' = ndop /\ ~LaunchDetachSRs /\ ~FindDetachSRs
  <2>1. ~misled  BY <1>2, MisledMoves
  <2>2. QED  BY <1>1, <1>2, <2>1, DetachMoves DEF Launching
<1>3. CASE FindDetachSRs
  <2>1. ndop.pc = "FindDetachSRs" /\ After(ndop) \in Memories
        BY <1>1, <1>3, AfterType DEF FindDetachSRs
  <2>2. {s \in Stg : detach[s] = "active"} = {}  BY <1>3 DEF FindDetachSRs
  <2>3. ndop'.todo = attached  BY <1>3, <2>1, <2>2 DEF FindDetachSRs, Memories
  <2>4. detach' = detach /\ attached' = attached  BY <1>3 DEF FindDetachSRs
  <2>5. QED  BY <2>2, <2>3, <2>4
<1>4. CASE LaunchDetachSRs
  <2>1. ndop.pc = "LaunchDetachSRs" /\ After(ndop) \in Memories /\ After(ndop).pc = "WaitForDetachSRs"
        BY <1>1, <1>4, AfterType, AfterIs DEF LaunchDetachSRs
  <2>2. [After(ndop) EXCEPT !.wait = ndop.new].pc = "WaitForDetachSRs"  BY <2>1 DEF Memories
  <2>3. PICK t \in ndop.todo : /\ detach' = [detach EXCEPT ![t] = "active"]
                               /\ ndop' = [ndop EXCEPT !.todo = ndop.todo \ {t}, !.new = ndop.new \cup {t}]
        BY <1>4, <2>2 DEF LaunchDetachSRs
  <2>4. ndop'.todo = ndop.todo \ {t} /\ ndop'.new = ndop.new \cup {t}  BY <1>1, <2>3 DEF Memories
  <2>5. attached' = attached  BY <1>4 DEF LaunchDetachSRs
  <2>6. attached \subseteq ndop.todo \cup ndop.new /\ \A s \in Stg : detach[s] = "active" => s \in ndop.new
    <3>1. ~misled  BY <1>4 DEF LaunchDetachSRs
    <3>2. QED  BY <1>1, <2>1, <3>1 DEF Launching
  <2>7. \A s \in Stg : detach'[s] = "active" => s = t \/ detach[s] = "active"
        BY <1>1, <2>3 DEF TypeOK
  <2>8. QED  BY <2>4, <2>5, <2>6, <2>7
<1>5. CASE ndop' # ndop /\ ~FindDetachSRs /\ ~LaunchDetachSRs
  <2>1. Stop => ndop'.pc = "idle"  BY DEF Stop, Idle
  <2>2. QED  BY <1>1, <1>5, <2>1, Changes, Begins, Moves
<1>6. QED  BY <1>2, <1>3, <1>4, <1>5

LEMMA WaitingStep == IInv /\ [Next]_vars => Waiting'
<1> SUFFICES ASSUME IInv, [Next]_vars, ndop'.pc = "WaitForDetachSRs", ~misled'
             PROVE  /\ attached' \subseteq ndop'.wait /\ ndop'.wait = ndop'.new
                    /\ \A s \in Stg : detach'[s] = "active" => s \in ndop'.wait
    BY DEF Waiting
<1> USE DEF InOp, Memory, RetryLater
<1>1. TypeOK /\ Place /\ Launching /\ Waiting /\ ndop \in Memories  BY DEF IInv, TypeOK
<1>2. CASE ndop' = ndop /\ ~LaunchDetachSRs
  <2>1. ~misled
    <3>1. ~FindDetachSRs  BY <1>2 DEF FindDetachSRs
    <3>2. QED  BY <3>1, MisledMoves
  <2>2. QED  BY <1>1, <1>2, <2>1, DetachMoves DEF Waiting
<1>3. CASE LaunchDetachSRs
  <2>1. /\ ndop.pc = "LaunchDetachSRs" /\ After(ndop) \in Memories
        /\ After(ndop) = [ndop EXCEPT !.pc = After(ndop).pc]
        BY <1>1, <1>3, AfterType, AfterIs DEF LaunchDetachSRs
  <2>2. \A t : [ndop EXCEPT !.todo = ndop.todo \ {t}, !.new = ndop.new \cup {t}].pc = "LaunchDetachSRs"
        BY <1>1, <2>1 DEF Memories
  <2>3. ndop.todo = {} /\ ndop' = [After(ndop) EXCEPT !.wait = ndop.new] /\ detach' = detach
        BY <1>3, <2>2 DEF LaunchDetachSRs
  <2>4. After(ndop).new = ndop.new  BY <1>1, <2>1 DEF Memories
  <2>5. ndop'.wait = ndop.new /\ ndop'.new = ndop.new  BY <2>1, <2>3, <2>4 DEF Memories
  <2>6. attached' = attached  BY <1>3 DEF LaunchDetachSRs
  <2>7. attached \subseteq ndop.todo \cup ndop.new /\ \A s \in Stg : detach[s] = "active" => s \in ndop.new
    <3>1. ~misled  BY <1>3 DEF LaunchDetachSRs
    <3>2. QED  BY <1>1, <2>1, <3>1 DEF Launching
  <2>8. QED  BY <2>3, <2>5, <2>6, <2>7
<1>4. CASE ndop' # ndop /\ ~LaunchDetachSRs
  <2>1. Stop => ndop'.pc = "idle"  BY DEF Stop, Idle
  <2>2. QED  BY <1>1, <1>4, <2>1, Changes, Begins, Moves
<1>5. QED  BY <1>2, <1>3, <1>4

\* Once no storage is to be detached, only new requests could change that.
LEMMA OutStays == TypeOK /\ [Next]_vars /\ Out /\ ~LaunchDetachSRs => Out'
<1> SUFFICES ASSUME TypeOK, [Next]_vars, Out, ~LaunchDetachSRs, NEW s \in attached'
             PROVE  detach'[s] = "failed"
    BY DEF Out
<1>1. s \in attached /\ s \in Stg  BY DetachMoves DEF TypeOK
<1>2. detach[s] = "failed"  BY <1>1 DEF Out
<1>3. QED  BY <1>1, <1>2, DetachMoves

LEMMA DetachedStep == IInv /\ [Next]_vars => Detached'
<1> SUFFICES ASSUME IInv, [Next]_vars, ~misled',
                    nd'.st \in Late \/ (nd'.st = "DETACHING_STORAGE" /\ ndop'.pc = "next")
             PROVE  Out'
    BY DEF Detached
<1> USE DEF InOp, Memory, RetryLater
<1>1. TypeOK /\ Place /\ Asked /\ Waiting /\ Detached /\ ndop \in Memories  BY DEF IInv, TypeOK
<1>2. "DETACHING_STORAGE" \notin Late /\ Late \cap (Terminal \cup {"NEW", "DRAINING_REQUESTS"}) = {}
      BY DEF Late, Terminal
<1>3. ~LaunchDetachSRs
  <2>1. SUFFICES ASSUME LaunchDetachSRs PROVE FALSE
        OBVIOUS
  <2>2. ndop.pc = "LaunchDetachSRs" /\ nd' = nd  BY <2>1 DEF LaunchDetachSRs
  <2>3. nd.st = "DETACHING_STORAGE"  BY <1>1, <2>2, Detaching
  <2>4. /\ After(ndop) \in Memories /\ After(ndop).pc = "WaitForDetachSRs"
        BY <1>1, <2>2, AfterType, AfterIs
  <2>5. \A t : [ndop EXCEPT !.todo = ndop.todo \ {t}, !.new = ndop.new \cup {t}].pc = "LaunchDetachSRs"
        BY <1>1, <2>2 DEF Memories
  <2>6. [After(ndop) EXCEPT !.wait = ndop.new].pc = "WaitForDetachSRs"  BY <2>4 DEF Memories
  <2>7. ndop'.pc # "next"  BY <2>1, <2>5, <2>6 DEF LaunchDetachSRs
  <2>8. QED  BY <1>2, <2>2, <2>3, <2>7
<1>4. CASE nd.st \in Late \/ (nd.st = "DETACHING_STORAGE" /\ ndop.pc = "next")
  <2>1. ~FindDetachSRs
    <3>1. SUFFICES ASSUME FindDetachSRs PROVE FALSE
          OBVIOUS
    <3>2. ndop.pc = "FindDetachSRs"  BY <3>1 DEF FindDetachSRs
    <3>3. QED  BY <1>1, <1>2, <1>4, <3>2, Detaching
  <2>2. ~misled  BY <2>1, MisledMoves
  <2>3. QED  BY <1>1, <1>3, <1>4, <2>2, OutStays DEF Detached
<1>5. CASE ~(nd.st \in Late \/ (nd.st = "DETACHING_STORAGE" /\ ndop.pc = "next"))
  <2>1. nd'.st = "DETACHING_STORAGE" /\ ndop'.pc = "next"
    <3>1. SUFFICES ASSUME nd'.st \in Late PROVE FALSE
          OBVIOUS
    <3>2. NextState /\ nd.st = "DETACHING_STORAGE"
          BY <1>1, <1>2, <1>5, <3>1, NodeDeleteMoves
    <3>3. QED  BY <1>5, <3>2 DEF NextState
  <2>2. ~Dispatch /\ ~NextState  BY <1>1, <2>1, Begins
  <2>3. nd.st = "DETACHING_STORAGE"
        BY <1>1, <2>1, <2>2, NodeDeleteMoves DEF Terminal
  <2>4. ndop' # ndop  BY <1>5, <2>1, <2>3
  <2>5. ~Stop  BY <2>1 DEF Stop, Idle
  <2>6. WaitForDetachSRs  BY <1>1, <2>1, <2>2, <2>3, <2>4, <2>5, Changes, Moves
  <2>7. attached \subseteq ndop.new /\ \A s \in ndop.new : detach[s] # "active"
    <3>1. ~misled  BY <2>6 DEF WaitForDetachSRs
    <3>2. QED  BY <1>1, <2>6, <3>1 DEF Waiting, WaitForDetachSRs
  <2>8. Out  BY <1>1, <2>7 DEF Asked, Out
  <2>9. QED  BY <1>1, <1>3, <2>8, OutStays
<1>6. QED  BY <1>4, <1>5

LEMMA SynchronizedStep == IInv /\ [Next]_vars => Synchronized'
<1> SUFFICES ASSUME IInv, [Next]_vars, nd'.me \notin {"", "FAILED"}
             PROVE  nd'.st \in Late \cup Terminal
    BY DEF Synchronized
<1>1. TypeOK /\ Place /\ Synchronized  BY DEF IInv
<1>2. CASE nd'.me = nd.st /\ nd'.st = nd.st /\ nd.st \in Late
      BY <1>2
<1>3. CASE nd'.me = nd.me
  <2>1. nd.st \in Late \cup Terminal  BY <1>1, <1>3 DEF Synchronized
  <2>2. nd.st # "NEW"  BY <2>1 DEF Late, Terminal
  <2>3. ~Relaunch  BY RelaunchIsNew
  <2>4. NextState => nd.st \notin Terminal  BY <1>1 DEF NextState, InOp, Place
  <2>5. QED  BY <1>1, <2>1, <2>2, <2>3, <2>4, NodeDeleteMoves
<1>4. QED  BY <1>1, <1>2, <1>3, SyncMoves

LEMMA FirstOrder == SyncOrder("VOLUME_DETACH_WAIT") = 1
<1>1. SubPlan[1] = "VOLUME_DETACH_WAIT"  BY DEF SubPlan
<1>2. 1 \in 1..3  OBVIOUS
<1>3. At(SubPlan, SubPlan[1]) = 1  BY <1>2, SubPlanAt
<1>4. "VOLUME_DETACH_WAIT" \notin {"", NotInMap}  BY DEF NotInMap
<1>5. SyncOrder("VOLUME_DETACH_WAIT") = At(SubPlan, "VOLUME_DETACH_WAIT")  BY <1>4, Zenon DEF SyncOrder
<1>6. QED  BY <1>1, <1>3, <1>5

\* A subordinate goes on to its volume under a NODE_DELETE that is past the storage.
LEMMA GoesOn ==
    ASSUME IInv, NEW v \in Vol, SubSync(v), ~SubHopeless(v),
           SyncOrder(nd.me) >= SyncOrder("VOLUME_DETACH_WAIT")
    PROVE  nd.st \in Late
<1>1. nd.me # "FAILED" /\ nd.st \notin Terminal  BY DEF SubHopeless, Hopeless
<1>2. nd.me # ""
  <2>1. SUFFICES ASSUME nd.me = "" PROVE FALSE
        OBVIOUS
  <2>2. SyncOrder(nd.me) = 0  BY <2>1, Zenon DEF SyncOrder
  <2>3. QED  BY <2>2, FirstOrder
<1>3. QED  BY <1>1, <1>2 DEF IInv, Synchronized

LEMMA FreeingStep == IInv /\ [Next]_vars => Freeing'
<1> SUFFICES ASSUME IInv, [Next]_vars, ~misled',
                    NEW v \in Vol, vd'[v].st = "VOLUME_DETACHING"
             PROVE  Out'
    BY DEF Freeing
<1>1. TypeOK /\ Place /\ Mine /\ Detached /\ Freeing /\ Behind  BY DEF IInv
<1>2. CASE vd[v].st = "VOLUME_DETACHING"
  <2>1. ~LaunchDetachSRs /\ ~FindDetachSRs
    <3>1. SUFFICES ASSUME LaunchDetachSRs \/ FindDetachSRs PROVE FALSE
          OBVIOUS
    <3>2. nd.st = "DETACHING_STORAGE"  BY <1>1, <3>1, Detaching DEF LaunchDetachSRs, FindDetachSRs, InOp
    <3>3. v \in ActiveSubs  BY <1>2 DEF ActiveSubs, Terminal
    <3>4. vd[v].mine  BY <1>1, <3>2, <3>3 DEF Mine, Past
    <3>5. nd.st \in Late \cup Terminal  BY <1>1, <1>2, <3>4 DEF Behind
    <3>6. QED  BY <3>2, <3>5 DEF Late, Terminal
  <2>2. ~misled
    <3>1. misled' = misled \/ (FindDetachSRs /\ misled' = (\E s \in Stg : detach[s] = "active"))
          BY MisledMoves
    <3>2. QED  BY <2>1, <3>1
  <2>3. Out  BY <1>1, <1>2, <2>2 DEF Freeing
  <2>4. QED  BY <1>1, <2>1, <2>3, OutStays
<1>3. CASE SubSync(v) /\ ~SubHopeless(v) /\ SyncOrder(nd.me) >= SyncOrder("VOLUME_DETACH_WAIT")
  <2>1. Out
    <3>1. ~misled  BY <1>3 DEF SubSync
    <3>2. QED  BY <1>1, <1>3, <3>1, GoesOn DEF Detached
  <2>2. detach' = detach /\ attached' = attached  BY <1>3 DEF SubSync
  <2>3. QED  BY <2>1, <2>2 DEF Out
<1>4. QED  BY <1>1, <1>2, <1>3, SubMoves

LEMMA BehindStep == IInv /\ [Next]_vars => Behind'
<1> SUFFICES ASSUME IInv, [Next]_vars, NEW v \in Vol, vd'[v].mine, vd'[v].st = "VOLUME_DETACHING"
             PROVE  nd'.st \in Late \cup Terminal
    BY DEF Behind
<1>1. TypeOK /\ Place /\ Behind /\ nd \in NodeRequests  BY DEF IInv, TypeOK, NodeRequests
<1>2. vd'[v].mine = vd[v].mine /\ ~Relaunch
  <2>1. vd'[v].mine = vd[v].mine  BY <1>1, SubMoves
  <2>2. ASSUME Relaunch  PROVE vd'[v].mine = FALSE
    <3>1. vd[v] \in Subordinates  BY <1>1 DEF TypeOK, Subordinates
    <3>2. vd'[v] = [vd[v] EXCEPT !.mine = FALSE]  BY <2>2 DEF Relaunch
    <3>3. QED  BY <3>1, <3>2 DEF Subordinates
  <2>3. QED  BY <2>1, <2>2
<1>3. CASE vd[v].st = "VOLUME_DETACHING"
  <2>1. nd.st \in Late \cup Terminal  BY <1>1, <1>2, <1>3 DEF Behind
  <2>2. nd.st # "NEW"  BY <2>1 DEF Late, Terminal
  <2>3. NextState => nd.st \notin Terminal  BY <1>1 DEF NextState, InOp, Place
  <2>4. QED  BY <1>1, <1>2, <2>1, <2>2, <2>3, NodeDeleteMoves
<1>4. CASE SubSync(v) /\ ~SubHopeless(v) /\ SyncOrder(nd.me) >= SyncOrder("VOLUME_DETACH_WAIT")
  <2>1. nd.st \in Late  BY <1>4, GoesOn
  <2>2. nd'.st = nd.st  BY <1>1, <1>4 DEF SubSync, NodeRequests
  <2>3. QED  BY <2>1, <2>2
<1>5. QED  BY <1>1, <1>3, <1>4, SubMoves

-----------------------------------------------------------------------------
(* The theorems.                                                           *)

\* Every value keeps its type: NODE_DELETE, its handler and its subordinates
\* go only through the states that the code lists for them.
THEOREM TypeCorrect == Spec => []TypeOK
<1> DEFINE J == TypeOK /\ Place
<1>1. Init => J  BY InitInv DEF IInv
<1>2. J /\ [Next]_vars => J'
      BY TypeStep, PlaceStep
<1>3. QED  BY <1>1, <1>2, PTL DEF Spec

\* The invariant, whatever is interrupted, canceled or launched again.
THEOREM Invariance == Spec => []IInv
<1>1. IInv /\ [Next]_vars => IInv'
  <2> SUFFICES ASSUME IInv, [Next]_vars PROVE IInv'
      OBVIOUS
  <2>1. TypeOK' /\ Place' /\ Listing' /\ Mine' /\ Synchronized' /\ Behind'
        BY TypeStep, PlaceStep, ListingStep, MineStep, SynchronizedStep, BehindStep DEF IInv
  <2>2. Asked' /\ Launching' /\ Waiting' /\ Detached' /\ Freeing'
        BY AskedStep, LaunchingStep, WaitingStep, DetachedStep, FreeingStep
  <2>3. QED  BY <2>1, <2>2 DEF IInv
<1>2. QED  BY InitInv, <1>1, PTL DEF Spec

\* A volume is given up (vol_detach.go) only when every storage of the node is
\* detached or was refused, wherever NODE_DELETE is interrupted, canceled or
\* launched again in between, unless its handler has found DETACH requests of
\* an earlier dispatch (node_delete.go:561-613).
THEOREM FreedLast == Spec => VolumesFreedLast
<1>1. IInv /\ [Next]_vars => [FreedStep]_vars
  <2> SUFFICES ASSUME IInv, [Next]_vars, NEW v \in configured, v \notin configured', ~misled, NEW s \in attached
               PROVE  detach[s] = "failed"
      BY DEF FreedStep
  <2>1. PICK w \in Vol : DetachVolume(w)  BY Changes
  <2>2. vd[w].st = "VOLUME_DETACHING"  BY <2>1 DEF DetachVolume, SubAt
  <2>3. QED  BY <2>2 DEF IInv, Freeing, Out
<1>2. QED  BY <1>1, Invariance, PTL DEF Spec, VolumesFreedLast
=============================================================================
