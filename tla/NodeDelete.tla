----------------------------- MODULE NodeDelete -----------------------------
(***************************************************************************)
(* The removal of a node that is gone: NODE_DELETE of centrald             *)
(* (pkg/centrald/vreq/node_delete.go) with one VOL_DETACH subordinate per  *)
(* volume (vol_detach.go).  Its agent no longer runs: a request whose      *)
(* state belongs to agentd does not move.  clusterd launches NODE_DELETE   *)
(* and launches it again when it ended before the node was deleted         *)
(* (pkg/clusterd/heartbeat/node_termination.go).                           *)
(*                                                                         *)
(* A handler keeps what it has listed while it is dispatched, through      *)
(* several states; a write with an object that changed since is refused    *)
(* and the handler is called again later, with nothing kept.               *)
(***************************************************************************)
EXTENDS Naturals, Sequences

CONSTANTS Vol,        \* volumes configured on the node
          Stg,        \* storage attached to the node
          Vsr,        \* requests on the node, besides NODE_DELETE and VOL_DETACH
          MayFail,    \* whether the force detach of storage may fail
          MaxStops    \* bound: interruptions and cancels

\* Requests and volumes have identifiers of their own.
ASSUME NamesAssumption == Vol \cap Vsr = {}

VARIABLES
    node,       \* state of the Node object
    nd,         \* the NODE_DELETE request, syncPeers included
    ndop,       \* its handler, in memory
    vd,         \* volume -> its VOL_DETACH request
    vsr,        \* the other requests: who executes them
    sr,         \* a StorageRequest of the node
    configured, \* volumes configured on the node
    attached,   \* storage attached to the node
    detach,     \* storage -> its DETACH StorageRequest
    stops,
    misled      \* history: DETACH requests of an earlier dispatch were found last

vars == <<node, nd, ndop, vd, vsr, sr, configured, attached, detach, stops, misled>>

Terminal == {"SUCCEEDED", "FAILED", "CANCELED"}
NotInMap == "absent"
Plan == <<"DRAINING_REQUESTS", "CANCELING_REQUESTS", "DETACHING_VOLUMES", "DETACHING_STORAGE",
          "VOLUME_DETACH_WAIT", "VOLUME_DETACHED", "DELETING_NODE">>
SubPlan == <<"VOLUME_DETACH_WAIT", "VOLUME_DETACHING", "VOLUME_DETACHED">>
At(plan, st) == CHOOSE i \in DOMAIN plan : plan[i] = st
SyncOrder(st) == IF st \in {"", NotInMap} THEN 0 ELSE At(SubPlan, st)

\* The sub-states that call something, by state.
SubStates(st) ==
    CASE st = "DRAINING_REQUESTS" -> <<"TeardownNode", "ListSRs", "WaitForSRs", "ListVSRs", "WaitForVSRs">>
      [] st = "CANCELING_REQUESTS" -> <<"FailSRs", "CancelVSRs", "WaitForCanceled", "ListRemaining", "ForceCancel">>
      [] st = "DETACHING_VOLUMES" -> <<"PrimePeerMap", "CheckForSubordinates", "LaunchRemaining", "WaitForResponses">>
      [] st = "DETACHING_STORAGE" -> <<"FindDetachSRs", "LaunchDetachSRs", "WaitForDetachSRs">>
      [] st = "DELETING_NODE" -> <<"DeleteNode">>
      [] OTHER -> <<"SyncState">>

NewRequest == [st |-> "NEW", peers |-> [v \in Vol |-> NotInMap], me |-> "", canceled |-> FALSE]
Idle == [pc |-> "idle", srs |-> "none", waitSR |-> FALSE, vsrs |-> <<>>,
         ids |-> {}, todo |-> {}, new |-> {}, wait |-> {}]
NoSub == [st |-> "none", mine |-> FALSE, canceled |-> FALSE]

ActiveSubs == {v \in Vol : vd[v].st \notin Terminal \cup {"none"}}

Init ==
    /\ node = "TIMED_OUT"
    /\ nd = NewRequest
    /\ ndop = Idle
    /\ vd = [v \in Vol |-> NoSub]
    /\ vsr \in [Vsr -> {[by |-> b, canceled |-> FALSE] : b \in {"clusterd", "agentd"}}]
    /\ sr \in {"centrald", "agentd", "done"}
    /\ configured = Vol
    /\ attached = Stg
    /\ detach = [s \in Stg |-> "none"]
    /\ stops = 0
    /\ misled = FALSE

InOp(pc) == ndop.pc = pc
Memory(m) == ndop' = m
RetryLater == Memory(Idle)
InMap(v) == nd.peers[v] # NotInMap

\* The sub-state that follows; after the last one the next state is written.
After(m) ==
    LET ss == SubStates(nd.st)
        i == At(ss, m.pc)
    IN [m EXCEPT !.pc = IF i = Len(ss) THEN "next" ELSE ss[i + 1]]

-----------------------------------------------------------------------------
(* The animator *)

\* A request is dispatched.  syncPeers is nil, or empty, until it is primed.
Dispatch ==
    /\ InOp("idle") /\ nd.st \notin Terminal
    /\ LET st == IF nd.st = "NEW" THEN Plan[1] ELSE nd.st
       IN IF nd.canceled
          THEN nd' = [nd EXCEPT !.st = "CANCELED"] /\ UNCHANGED ndop
          ELSE /\ nd' = [nd EXCEPT !.st = st]
               /\ Memory([Idle EXCEPT !.pc =
                    IF st = "DETACHING_VOLUMES" /\ \E v \in Vol : InMap(v)
                    THEN "CheckForSubordinates" ELSE SubStates(st)[1]])
    /\ UNCHANGED <<node, vd, vsr, sr, configured, attached, detach, stops, misled>>

\* SetAndUpdateRequestState: there is no undo path.
NextState ==
    /\ InOp("next")
    /\ LET i == At(Plan, nd.st)
           done == nd.canceled \/ i = Len(Plan)
           st == IF done THEN IF nd.canceled THEN "CANCELED" ELSE "SUCCEEDED" ELSE Plan[i + 1]
       IN /\ nd' = [nd EXCEPT !.st = st]
          /\ Memory(IF done THEN Idle ELSE [ndop EXCEPT !.pc = SubStates(st)[1]])
    /\ UNCHANGED <<node, vd, vsr, sr, configured, attached, detach, stops, misled>>

\* centrald restarts, or a call fails.
Stop ==
    /\ ~InOp("idle") /\ stops < MaxStops
    /\ stops' = stops + 1 /\ RetryLater
    /\ UNCHANGED <<node, nd, vd, vsr, sr, configured, attached, detach, misled>>

-----------------------------------------------------------------------------
(* DRAINING_REQUESTS *)

\* fetchNode, teardownNode
TeardownNode ==
    /\ InOp("TeardownNode") /\ node' = "TEAR_DOWN" /\ Memory(After(ndop))
    /\ UNCHANGED <<nd, vd, vsr, sr, configured, attached, detach, stops, misled>>

\* listActiveSRs, filterActiveSRs: an empty list is listed again later.
ListSRs ==
    /\ InOp("ListSRs")
    /\ Memory([After(ndop) EXCEPT !.srs = IF sr = "done" THEN "none" ELSE sr, !.waitSR = sr = "centrald"])
    /\ UNCHANGED <<node, nd, vd, vsr, sr, configured, attached, detach, stops, misled>>

\* waitForSRs, CanWaitOnSR: a request that enters agentd will not end by itself.
WaitForSRs ==
    /\ InOp("WaitForSRs")
    /\ \/ (~ndop.waitSR \/ sr = "done") /\ Memory(After(ndop))
       \/ ndop.waitSR /\ sr = "agentd" /\ RetryLater
    /\ UNCHANGED <<node, nd, vd, vsr, sr, configured, attached, detach, stops, misled>>

\* listAndClassifyNodeVSRs, of the VSRs and of the VOL_DETACH requests of an
\* earlier NODE_DELETE.
Requests == Vsr \cup ActiveSubs
By(r) == IF r \in Vsr THEN vsr[r].by ELSE "centrald"
Canceled(r) == IF r \in Vsr THEN vsr[r].canceled ELSE vd[r].canceled
Active == {r \in Requests : By(r) # "done"}
ToWaitOn == {r \in Active : By(r) = "undo"}
ToCancel == {r \in Active : By(r) \in {"clusterd", "centrald"}}
Listed(rs) == [r \in rs |-> <<By(r), Canceled(r)>>]
Changed(r) == r \notin Active \/ ndop.vsrs[r] # <<By(r), Canceled(r)>>

ListVSRs ==
    /\ InOp("ListVSRs") /\ Memory([After(ndop) EXCEPT !.vsrs = Listed(ToWaitOn)])
    /\ UNCHANGED <<node, nd, vd, vsr, sr, configured, attached, detach, stops, misled>>

\* waitForVSRs: the requests that were being undone have ended.
WaitForVSRs ==
    /\ InOp("WaitForVSRs") /\ DOMAIN ndop.vsrs \cap Active = {} /\ Memory(After(ndop))
    /\ UNCHANGED <<node, nd, vd, vsr, sr, configured, attached, detach, stops, misled>>

-----------------------------------------------------------------------------
(* CANCELING_REQUESTS *)

\* listActiveSRs keeps a list that is not empty; failSRs is refused for a
\* request that has changed since.
FailSRs ==
    LET seen == IF ndop.srs = "none" THEN sr ELSE ndop.srs IN
    /\ InOp("FailSRs")
    /\ IF seen = "done" \/ seen = sr
       THEN sr' = "done" /\ Memory(After(ndop))
       ELSE RetryLater /\ UNCHANGED sr
    /\ UNCHANGED <<node, nd, vd, vsr, configured, attached, detach, stops, misled>>

\* listAndClassifyNodeVSRs, cancelVSRs
CancelVSRs ==
    /\ InOp("CancelVSRs")
    /\ vsr' = [r \in Vsr |-> IF r \in ToCancel THEN [vsr[r] EXCEPT !.canceled = TRUE] ELSE vsr[r]]
    /\ vd' = [v \in Vol |-> IF v \in ToCancel THEN [vd[v] EXCEPT !.canceled = TRUE] ELSE vd[v]]
    /\ Memory(IF ToCancel = {} THEN [ndop EXCEPT !.pc = "ForceCancel", !.vsrs = Listed(Active)]
              ELSE [After(ndop) EXCEPT !.vsrs = Listed(ToCancel)])
    /\ UNCHANGED <<node, nd, sr, configured, attached, detach, stops, misled>>

\* waitForVSRs, CanWaitOnVSR
WaitForCanceled ==
    LET waiting == DOMAIN ndop.vsrs \cap Active IN
    /\ InOp("WaitForCanceled")
    /\ \/ \E r \in waiting : By(r) = "agentd" /\ RetryLater
       \/ waiting = {} /\ Memory(After(ndop))
    /\ UNCHANGED <<node, nd, vd, vsr, sr, configured, attached, detach, stops, misled>>

ListRemaining ==
    /\ InOp("ListRemaining") /\ Memory([After(ndop) EXCEPT !.vsrs = Listed(Active)])
    /\ UNCHANGED <<node, nd, vd, vsr, sr, configured, attached, detach, stops, misled>>

\* forceCancelRemainingVSRs: all that are left, whoever executes them.
ForceCancel ==
    LET all == DOMAIN ndop.vsrs
        hit == {r \in all : ~Changed(r)}
    IN /\ InOp("ForceCancel")
       /\ vsr' = [r \in Vsr |-> IF r \in hit THEN [vsr[r] EXCEPT !.by = "done"] ELSE vsr[r]]
       /\ vd' = [v \in Vol |-> IF v \in hit THEN [vd[v] EXCEPT !.st = "CANCELED"] ELSE vd[v]]
       /\ IF hit = all THEN Memory(After(ndop)) ELSE RetryLater
       /\ UNCHANGED <<node, nd, sr, configured, attached, detach, stops, misled>>

-----------------------------------------------------------------------------
(* DETACHING_VOLUMES *)

\* listConfiguredVS, primePeerMap
PrimePeerMap ==
    /\ InOp("PrimePeerMap")
    /\ nd' = [nd EXCEPT !.peers = [v \in Vol |-> IF v \in configured THEN "" ELSE NotInMap]]
    /\ Memory([ndop EXCEPT !.pc = "LaunchRemaining", !.ids = {}])
    /\ UNCHANGED <<node, vd, vsr, sr, configured, attached, detach, stops, misled>>

\* checkForSubordinates: those that are active, and those that the map shows.
MySubs == {v \in ActiveSubs : vd[v].mine} \cup {v \in Vol : nd.peers[v] \notin {"", NotInMap}}
CheckForSubordinates ==
    /\ InOp("CheckForSubordinates") /\ Memory([After(ndop) EXCEPT !.ids = MySubs])
    /\ UNCHANGED <<node, nd, vd, vsr, sr, configured, attached, detach, stops, misled>>

\* launchRemainingSubordinates: once some were created the rest is left to the
\* synchronization.
LaunchRemaining ==
    LET rest == {v \in Vol : InMap(v) /\ v \notin ndop.ids} IN
    /\ InOp("LaunchRemaining")
    /\ \/ \E v \in rest :
            /\ vd' = [vd EXCEPT ![v] = [st |-> SubPlan[1], mine |-> TRUE, canceled |-> FALSE]]
            /\ Memory([ndop EXCEPT !.ids = @ \cup {v}, !.pc = IF rest = {v} THEN "next" ELSE @])
       \/ rest = {} /\ Memory(After(ndop)) /\ UNCHANGED vd
    /\ UNCHANGED <<node, nd, vsr, sr, configured, attached, detach, stops, misled>>

\* allSubordinatesResponded
WaitForResponses ==
    /\ InOp("WaitForResponses")
    /\ Memory(IF \A v \in Vol : InMap(v) => v \in ndop.ids THEN After(ndop) ELSE Idle)
    /\ UNCHANGED <<node, nd, vd, vsr, sr, configured, attached, detach, stops, misled>>

-----------------------------------------------------------------------------
(* DETACHING_STORAGE *)

\* findAttachedStorage, findDetachSRs: an active DETACH request is taken for a
\* request of every storage.
FindDetachSRs ==
    LET active == {s \in Stg : detach[s] = "active"} IN
    /\ InOp("FindDetachSRs")
    /\ Memory([After(ndop) EXCEPT !.todo = IF active = {} THEN attached ELSE {}, !.wait = active])
    /\ misled' = (active # {})
    /\ UNCHANGED <<node, nd, vd, vsr, sr, configured, attached, detach, stops>>

\* launchDetachSRs: the requests that were found are replaced by the new ones.
LaunchDetachSRs ==
    /\ InOp("LaunchDetachSRs")
    /\ \/ \E s \in ndop.todo :
            /\ detach' = [detach EXCEPT ![s] = "active"]
            /\ Memory([ndop EXCEPT !.todo = @ \ {s}, !.new = @ \cup {s}])
       \/ ndop.todo = {} /\ Memory([After(ndop) EXCEPT !.wait = ndop.new]) /\ UNCHANGED detach
    /\ UNCHANGED <<node, nd, vd, vsr, sr, configured, attached, stops, misled>>

\* Mutant: the requests are launched and not waited for.
WaitForDetachSRs_Not ==
    /\ InOp("WaitForDetachSRs") /\ Memory(After(ndop))
    /\ UNCHANGED <<node, nd, vd, vsr, sr, configured, attached, detach, stops, misled>>

\* waitForSRs: a request that failed has ended too.
WaitForDetachSRs ==
    /\ InOp("WaitForDetachSRs") /\ \A s \in ndop.wait : detach[s] # "active"
    /\ Memory(After(ndop))
    /\ UNCHANGED <<node, nd, vd, vsr, sr, configured, attached, detach, stops, misled>>

-----------------------------------------------------------------------------
(* VOLUME_DETACH_WAIT, VOLUME_DETACHED, DELETING_NODE *)

PeersAt(st, others) ==
    /\ nd.me # "FAILED" /\ \A v \in Vol : nd.peers[v] # "FAILED"
    /\ \A v \in Vol \cap others : InMap(v) => SyncOrder(nd.peers[v]) >= SyncOrder(st)
Hopeless == nd.canceled \/ nd.me = "FAILED" \/ \E v \in Vol : nd.peers[v] = "FAILED"

\* syncState of NODE_DELETE, and syncFail when it fails.
SyncState ==
    /\ InOp("SyncState")
    /\ IF \A v \in Vol : ~InMap(v) THEN Memory(After(ndop)) /\ UNCHANGED nd
       ELSE \/ ~Hopeless /\ nd.me # nd.st /\ nd' = [nd EXCEPT !.me = nd.st] /\ UNCHANGED ndop
            \/ ~Hopeless /\ nd.me = nd.st /\ PeersAt(nd.st, Vol) /\ Memory(After(ndop)) /\ UNCHANGED nd
            \/ Hopeless /\ nd' = [nd EXCEPT !.me = "FAILED", !.st = "FAILED"] /\ Memory(Idle)
    /\ UNCHANGED <<node, vd, vsr, sr, configured, attached, detach, stops, misled>>

\* deleteNode: nodeDelete refuses while something refers to the node.
NodeInUse ==
    \/ sr # "done" \/ configured # {} \/ attached # {}
    \/ \E s \in Stg : detach[s] = "active"
    \/ Active # {}
DeleteNode ==
    /\ InOp("DeleteNode")
    /\ IF NodeInUse THEN RetryLater /\ UNCHANGED node ELSE node' = "DELETED" /\ Memory(After(ndop))
    /\ UNCHANGED <<nd, vd, vsr, sr, configured, attached, detach, stops, misled>>

NodeDeleteStep ==
    \/ Dispatch \/ NextState
    \/ TeardownNode \/ ListSRs \/ WaitForSRs \/ ListVSRs \/ WaitForVSRs
    \/ FailSRs \/ CancelVSRs \/ WaitForCanceled \/ ListRemaining \/ ForceCancel
    \/ PrimePeerMap \/ CheckForSubordinates \/ LaunchRemaining \/ WaitForResponses
    \/ FindDetachSRs \/ LaunchDetachSRs \/ WaitForDetachSRs
    \/ SyncState \/ DeleteNode

-----------------------------------------------------------------------------
(* VOL_DETACH *)

SubAt(v, st) == vd[v].st = st
\* Its coordinator has ended, is canceled or has failed, or a peer has.
SubHopeless(v) == ~vd[v].mine \/ vd[v].canceled \/ nd.st \in Terminal \/ Hopeless

\* syncState, and the next state; syncFail when it fails.
SubSync(v) ==
    /\ vd[v].st \in {"VOLUME_DETACH_WAIT", "VOLUME_DETACHED"}
    /\ \/ /\ SubHopeless(v)
          /\ vd' = [vd EXCEPT ![v].st = "FAILED"]
          /\ nd' = IF vd[v].mine THEN [nd EXCEPT !.peers[v] = "FAILED"] ELSE nd
       \/ /\ ~SubHopeless(v) /\ nd.peers[v] # vd[v].st
          /\ nd' = [nd EXCEPT !.peers[v] = vd[v].st] /\ UNCHANGED vd
       \/ /\ ~SubHopeless(v) /\ nd.peers[v] = vd[v].st
          /\ PeersAt(vd[v].st, Vol) /\ SyncOrder(nd.me) >= SyncOrder(vd[v].st)
          /\ vd' = [vd EXCEPT ![v].st = IF @ = "VOLUME_DETACHED" THEN "SUCCEEDED" ELSE "VOLUME_DETACHING"]
          /\ UNCHANGED nd
    /\ UNCHANGED <<node, ndop, vsr, sr, configured, attached, detach, stops, misled>>

\* detachVolume, and the next state.
DetachVolume(v) ==
    /\ SubAt(v, "VOLUME_DETACHING")
    /\ configured' = configured \ {v}
    /\ vd' = [vd EXCEPT ![v].st = IF vd[v].canceled THEN "CANCELED" ELSE "VOLUME_DETACHED"]
    /\ UNCHANGED <<node, nd, ndop, vsr, sr, attached, detach, stops, misled>>

SubStep(v) == SubSync(v) \/ DetachVolume(v)

-----------------------------------------------------------------------------
(* clusterd, and the other requests *)

\* Mutant: only nodes that are TIMED_OUT are looked at.
Relaunch_TimedOut ==
    /\ node = "TIMED_OUT" /\ nd.st \in Terminal
    /\ nd' = NewRequest
    /\ vd' = [v \in Vol |-> [vd[v] EXCEPT !.mine = FALSE]]
    /\ UNCHANGED <<node, ndop, vsr, sr, configured, attached, detach, stops, misled>>

\* detectTerminatedNodes for a node that is TIMED_OUT, relaunchFailedNodeDelete
\* for one in TEAR_DOWN; a second active NODE_DELETE is refused.
Relaunch ==
    /\ node \in {"TIMED_OUT", "TEAR_DOWN"} /\ nd.st \in Terminal
    /\ nd' = NewRequest
    /\ vd' = [v \in Vol |-> [vd[v] EXCEPT !.mine = FALSE]]
    /\ UNCHANGED <<node, ndop, vsr, sr, configured, attached, detach, stops, misled>>

\* volumeSeriesRequestCancel of NODE_DELETE
Cancel ==
    /\ nd.st \notin Terminal /\ ~nd.canceled /\ stops < MaxStops
    /\ nd' = [nd EXCEPT !.canceled = TRUE] /\ stops' = stops + 1
    /\ UNCHANGED <<node, ndop, vd, vsr, sr, configured, attached, detach, misled>>

\* A request moves on: to its agent, to its end, or to its undo states.
VsrStep(r) ==
    /\ \/ vsr[r].by = "clusterd" /\ ~vsr[r].canceled /\ \E b \in {"agentd", "undo", "done"} : vsr' = [vsr EXCEPT ![r].by = b]
       \/ vsr[r].by = "clusterd" /\ vsr[r].canceled /\ \E b \in {"agentd", "undo"} : vsr' = [vsr EXCEPT ![r].by = b]
       \/ vsr[r].by = "undo" /\ vsr' = [vsr EXCEPT ![r].by = "done"]
    /\ UNCHANGED <<node, nd, ndop, vd, sr, configured, attached, detach, stops, misled>>
SrStep ==
    /\ sr = "centrald" /\ sr' \in {"agentd", "done"}
    /\ UNCHANGED <<node, nd, ndop, vd, vsr, configured, attached, detach, stops, misled>>

\* A DETACH request ends (module StorageRequest).
DetachEnds(s) ==
    /\ detach[s] = "active"
    /\ \/ detach' = [detach EXCEPT ![s] = "done"] /\ attached' = attached \ {s}
       \/ MayFail /\ detach' = [detach EXCEPT ![s] = "failed"] /\ UNCHANGED attached
    /\ UNCHANGED <<node, nd, ndop, vd, vsr, sr, configured, stops, misled>>

Next ==
    \/ NodeDeleteStep \/ Stop \/ Relaunch \/ Cancel \/ SrStep
    \/ \E v \in Vol : SubStep(v)
    \/ \E r \in Vsr : VsrStep(r)
    \/ \E s \in Stg : DetachEnds(s)

Fairness ==
    /\ WF_vars(NodeDeleteStep) /\ WF_vars(Relaunch) /\ WF_vars(SrStep)
    /\ \A v \in Vol : WF_vars(SubStep(v))
    /\ \A r \in Vsr : WF_vars(VsrStep(r))
    /\ \A s \in Stg : WF_vars(DetachEnds(s))

Spec == Init /\ [][Next]_vars /\ Fairness

-----------------------------------------------------------------------------
\* The sub-states of the handlers, and the states of both kinds of request.
Members(plan) == {plan[i] : i \in DOMAIN plan}
Steps == {"idle", "next"} \cup UNION {Members(SubStates(st)) : st \in Members(Plan)}
States == {"NEW"} \cup Terminal \cup Members(Plan)
SubRequestStates == {"none"} \cup Terminal \cup Members(SubPlan)
Executors == {"clusterd", "centrald", "agentd", "undo", "done"}
Listings == UNION {[rs -> Executors \X BOOLEAN] : rs \in SUBSET (Vsr \cup Vol)}
Memories == [pc : Steps, srs : {"none", "centrald", "agentd"}, waitSR : BOOLEAN, vsrs : Listings,
             ids : SUBSET Vol, todo : SUBSET Stg, new : SUBSET Stg, wait : SUBSET Stg]

TypeOK ==
    /\ node \in {"TIMED_OUT", "TEAR_DOWN", "DELETED"}
    /\ nd \in [st : States, peers : [Vol -> {"", NotInMap} \cup SubRequestStates],
               me : {""} \cup States, canceled : BOOLEAN]
    /\ ndop \in Memories
    /\ vd \in [Vol -> [st : SubRequestStates, mine : BOOLEAN, canceled : BOOLEAN]]
    /\ vsr \in [Vsr -> [by : Executors, canceled : BOOLEAN]]
    /\ sr \in {"centrald", "agentd", "done"}
    /\ configured \subseteq Vol /\ attached \subseteq Stg
    /\ detach \in [Stg -> {"none", "active", "done", "failed"}]
    /\ stops \in Nat /\ misled \in BOOLEAN

\* A volume is given up by the node only when no storage of the node is still
\* to be detached: from then on the volume may be configured elsewhere, and its
\* data must not be reachable from two nodes (swagger.yaml:1372).  Between the
\* two lie several states of NODE_DELETE, its subordinates and the requests of
\* the storage.  The exception is what the code gets wrong: a handler that was
\* interrupted in DETACHING_STORAGE finds its own requests, forgets them in
\* launchDetachSRs (node_delete.go:611) and goes on without waiting for them.
FreedStep ==
    \A v \in configured \ configured' : misled \/ \A s \in attached : detach[s] = "failed"
VolumesFreedLast == [][FreedStep]_vars

\* The node is deleted and nothing is left of the requests for it, although
\* NODE_DELETE may be interrupted or canceled; unless storage cannot be detached,
\* or is left without a request because the handler was misled.
Deleted ==
    \/ /\ node = "DELETED" /\ nd.st \in Terminal
       /\ \A v \in Vol : vd[v].st \in Terminal \cup {"none"}
    \/ \E s \in attached : detach[s] = "failed" \/ misled
=============================================================================
