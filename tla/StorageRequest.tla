--------------------------- MODULE StorageRequest ---------------------------
(***************************************************************************)
(* StorageRequests: how centrald (src/pkg/centrald/sreq) and the agentd of *)
(* a node (src/pkg/agentd/sreq) provision, attach, format, open, close,    *)
(* move, detach and release one piece of storage.                          *)
(*                                                                         *)
(* A request is a list of operations on one Storage object.  Each daemon   *)
(* runs an animator per request: it computes the states that remain, saves *)
(* each state in the request before it calls the handler of the state, and *)
(* walks back through undo states when a handler fails or the deadline of  *)
(* the request has passed.  A handler is a small machine with at most one  *)
(* database update in each sub-state (`sub'), restarted from what the      *)
(* Storage object says.  States that belong to the other daemon are only   *)
(* written: that hands the request over.                                   *)
(*                                                                         *)
(* External: the volumes of the cloud service (`vol'), the database.  A    *)
(* call may fail (MaxFaults), a daemon may restart (MaxCrashes).           *)
(***************************************************************************)
EXTENDS Naturals, Sequences, FiniteSets

CONSTANTS
    SR,         \* requests
    Stg,        \* identifiers of Storage objects
    Vol,        \* volumes the cloud service can create
    Node,       \* nodes, each with its agentd
    Plans,      \* the sets of operations that are requested
    MaxFaults,  \* calls that fail
    MaxCrashes, \* restarts of a daemon
    MaxExpired, \* requests whose deadline passes
    MaxEvents,  \* all of these and the requests together
    ListFails   \* whether VolumeList of the cloud service may fail

None == "none"
Daemon == {"centrald"} \cup Node

ASSUME SizesAssumption ==
    /\ {MaxFaults, MaxCrashes, MaxExpired, MaxEvents} \subseteq Nat /\ IsFiniteSet(Vol)
    /\ None \notin SR \cup Stg \cup Vol \cup Node /\ "centrald" \notin Node

-----------------------------------------------------------------------------
(* What the API handler accepts.                                           *)

\* storageRequestOperationSequences: operations that can be combined.
Families == {{"PROVISION", "ATTACH", "FORMAT", "USE"}, {"CLOSE", "DETACH", "RELEASE"},
             {"REATTACH"}}

ASSUME PlansAssumption ==
    \A ops \in Plans : ops # {} /\ \E fam \in Families : ops \subseteq fam

AgentStates == {"FORMATTING", "USING", "CLOSING"}
Terminal == {"SUCCEEDED", "FAILED"}

\* centrald's stateOrder.
Order(st) ==
    CASE st \in {"NEW", "REATTACHING"} -> 0
      [] st = "PROVISIONING" -> 1
      [] st = "ATTACHING" -> 2
      [] st = "FORMATTING" -> 3
      [] st = "USING" -> 4
      [] st = "CLOSING" -> 5
      [] st = "DETACHING" -> 6
      [] st \in {"RELEASING", "REMOVING_TAG"} -> 7
      [] st = "UNDO_DETACHING" -> 8
      [] st = "UNDO_ATTACHING" -> 9
      [] st = "UNDO_PROVISIONING" -> 10
      [] OTHER -> 11

undoStateMap == [PROVISIONING |-> "UNDO_PROVISIONING", ATTACHING |-> "UNDO_ATTACHING",
                 DETACHING |-> "UNDO_DETACHING"]
undoOnly(st) == Order(st) \in 8..10

\* agentd's stateOrder; a state it does not list counts as NEW.
AgentOrder(st) ==
    CASE st = "FORMATTING" -> 1
      [] st = "USING" -> 2
      [] st = "CLOSING" -> 3
      [] st = "REMOVING_TAG" -> 4
      [] st \in Terminal -> 5
      [] OTHER -> 0

-----------------------------------------------------------------------------
VARIABLES
    req,      \* StorageRequest objects
    stg,      \* Storage objects
    vol,      \* volumes of the cloud service, with their tags
    go,       \* goroutines of the animators, by daemon and request
    expired,  \* requests whose completeByTime has passed
    cleanup,  \* how far the startup cleanup of centrald is
    faults, crashes

vars == <<req, stg, vol, go, expired, cleanup, faults, crashes>>

NoRequest == [st |-> None, ops |-> {}, sid |-> None, node |-> None, target |-> None]
NoStorage == [prov |-> None, att |-> "DETACHED", dev |-> "UNUSED",
              media |-> "UNFORMATTED", node |-> None, vol |-> None]
NoVolume == [stg |-> None, tag |-> None, at |-> None]

\* requestHandlerState: the copies of the request and of the storage, the
\* states still to run, those to undo, and the sub-state of the handler.
Idle == [pc |-> "idle", st |-> None, sid |-> None, node |-> None, todo |-> <<>>, undo |-> <<>>,
         sub |-> None, mem |-> NoStorage, ids |-> FALSE, err |-> FALSE,
         late |-> FALSE, retry |-> FALSE, noid |-> FALSE, back |-> FALSE]

Exists(s) == s # None /\ stg[s].prov # None
Fetched(s) == IF Exists(s) THEN stg[s] ELSE NoStorage
Active(r) == req[r].st \notin Terminal \cup {None}
G(d, r) == go[<<d, r>>]
Running(d, r) == G(d, r).pc # "idle"
Has(r, op) == op \in req[r].ops

Init ==
    /\ req = [r \in SR |-> NoRequest]
    /\ stg = [s \in Stg |-> NoStorage]
    /\ vol = [v \in Vol |-> NoVolume]
    /\ go = [p \in Daemon \X SR |-> Idle]
    /\ expired = {}
    /\ cleanup = "volumes"
    /\ faults = 0 /\ crashes = 0

Calm == Cardinality({r \in SR : req[r].st # None}) + faults + crashes + Cardinality(expired)
            < MaxEvents

-----------------------------------------------------------------------------
(***************************************************************************)
(* storageRequestCreate, under the write lock of the handlers: a storage   *)
(* object takes part in one active request at most.                        *)
(***************************************************************************)
InUseMutant(s) == \E r \in SR : req[r].st = "NEW" /\ req[r].sid = s
InUse(s) == \E r \in SR : Active(r) /\ req[r].sid = s

CreateProvision(r, ops, n) ==
    /\ "PROVISION" \in ops
    /\ ops \cap {"FORMAT", "USE"} # {} => "ATTACH" \in ops
    /\ "USE" \in ops => "FORMAT" \in ops
    /\ req' = [req EXCEPT ![r] = [NoRequest EXCEPT !.st = "NEW", !.ops = ops,
                                  !.node = IF "ATTACH" \in ops THEN n ELSE None]]

\* What the clients choose from the storage of the cluster: it is provisioned,
\* or was when they looked; detached if it is only to be released, and formatted
\* if it served volumes; what is moved serves one, so that nobody releases it
\* (ReleaseUnusedStorage, issueNewReattachStorageRequests, launchDetachSRs).
ClientAsks(ops, o) ==
    /\ o.prov \in {"PROVISIONED", "UNPROVISIONING"}
    /\ ops = {"RELEASE"} => o.att = "DETACHED"
    /\ ops \cap {"CLOSE", "REATTACH"} # {} => o.media = "FORMATTED"
    /\ "REATTACH" \in ops => o.prov = "PROVISIONED"

CreateOnStorage(r, ops, n, s) ==
    LET o == stg[s]
        attached == o.att # "DETACHED" /\ o.node # None
    IN
    /\ "PROVISION" \notin ops
    /\ Exists(s)
    /\ attached => "ATTACH" \notin ops
    /\ ops \cap {"FORMAT", "USE"} # {} /\ o.att # "ATTACHED" => "ATTACH" \in ops
    /\ ~InUse(s)
    /\ "USE" \in ops /\ "FORMAT" \notin ops => o.media = "FORMATTED"
    /\ "CLOSE" \in ops => o.att = "ATTACHED"
    /\ "REATTACH" \in ops => ~(o.node = n /\ o.dev = "OPEN")
    /\ ClientAsks(ops, o)
    /\ req' = [req EXCEPT ![r] =
                 [st |-> "NEW", ops |-> ops, sid |-> s,
                  node |-> IF attached \/ ("REATTACH" \in ops /\ o.node # None) THEN o.node
                           ELSE IF ops \cap {"ATTACH", "REATTACH"} # {} THEN n ELSE None,
                  target |-> IF "REATTACH" \in ops THEN n ELSE None]]

StorageRequestCreate(r) ==
    /\ req[r].st = None /\ Calm
    /\ \E ops \in Plans, n \in Node :
          \/ CreateProvision(r, ops, n)
          \/ \E s \in Stg : CreateOnStorage(r, ops, n, s)
    /\ UNCHANGED <<stg, vol, go, expired, cleanup, faults, crashes>>

\* completeByTime passes.
Expire(r) ==
    /\ Active(r) /\ r \notin expired /\ Cardinality(expired) < MaxExpired /\ Calm
    /\ expired' = expired \cup {r}
    /\ UNCHANGED <<req, stg, vol, go, cleanup, faults, crashes>>

-----------------------------------------------------------------------------
(***************************************************************************)
(* The lists of states.                                                    *)
(***************************************************************************)
When(cond, st) == IF cond THEN <<st>> ELSE <<>>

\* centrald's reattachGetStates.
CentralReattach(r, o) ==
    IF o.att = "ATTACHED"
    THEN IF o.node = req[r].target THEN <<"USING">>
         ELSE IF o.dev # "UNUSED" THEN <<"CLOSING">>
         ELSE <<"DETACHING", "REATTACHING", "ATTACHING", "USING">>
    ELSE When(req[r].node # req[r].target, "REATTACHING") \o <<"ATTACHING", "USING">>

CentralTodo(r, o) ==
    LET n == Order(req[r].st) IN
    (IF Has(r, "REATTACH") THEN CentralReattach(r, o) ELSE <<>>)
    \o When(Has(r, "PROVISION") /\ n <= 1, "PROVISIONING")
    \o When(Has(r, "ATTACH") /\ n <= 2, "ATTACHING")
    \o When(Has(r, "FORMAT") /\ n <= 3, "FORMATTING")
    \o When(Has(r, "USE") /\ ~Has(r, "FORMAT") /\ n <= 4, "USING")
    \o When(Has(r, "CLOSE") /\ n <= 5, "CLOSING")
    \o When(Has(r, "DETACH") /\ n <= 6, "DETACHING")
    \o When(Has(r, "RELEASE") /\ n <= 7, "RELEASING")
    \o When(Has(r, "PROVISION") /\ n <= 7, "REMOVING_TAG")

\* What earlier runs of the animator may have left to undo.
CentralUndoMutant(r) ==   \* a request found in an undo state starts over with the last one
    LET n == Order(req[r].st) IN When(Has(r, "PROVISION") /\ n \in 2..9, "UNDO_PROVISIONING")
CentralUndoSwapped(r) ==   \* the storage is released before it is detached
    LET n == Order(req[r].st) IN
    When(Has(r, "ATTACH") /\ n \in 3..9, "UNDO_ATTACHING")
    \o When(Has(r, "PROVISION") /\ n \in 2..10, "UNDO_PROVISIONING")
    \o When(Has(r, "DETACH") /\ n \in 7..8, "UNDO_DETACHING")
CentralUndo(r) ==
    LET n == Order(req[r].st) IN
    When(Has(r, "PROVISION") /\ n \in 2..10, "UNDO_PROVISIONING")
    \o When(Has(r, "ATTACH") /\ n \in 3..9, "UNDO_ATTACHING")
    \o When(Has(r, "DETACH") /\ n \in 7..8, "UNDO_DETACHING")

UndoOf(st) == IF st \in DOMAIN undoStateMap THEN <<undoStateMap[st]>> ELSE <<>>

\* agentd's lists; DETACHING and REMOVING_TAG hand over to centrald.
AgentReattach(r, n, o) ==
    IF o.att # "ATTACHED" \/ o.node # n THEN <<>>
    ELSE IF n = req[r].target
         THEN When(o.dev \in {"OPENING", "UNUSED", "ERROR"}, "USING")
         ELSE IF o.dev \in {"OPEN", "CLOSING", "ERROR", "UNUSED"}
              THEN When(o.dev # "UNUSED", "CLOSING") \o <<"DETACHING">>
              ELSE <<>>

AgentTodoMutant(r, n, o) ==   \* USING only follows in a later dispatch
    LET k == AgentOrder(req[r].st) IN
    IF Has(r, "REATTACH") THEN AgentReattach(r, n, o)
    ELSE When(Has(r, "FORMAT") /\ k <= 1, "FORMATTING")
         \o When(Has(r, "USE") /\ k = 2, "USING")
         \o When(Has(r, "CLOSE"), "CLOSING")
         \o When(Has(r, "CLOSE") /\ Has(r, "DETACH"), "DETACHING")
         \o When(Has(r, "PROVISION"), "REMOVING_TAG")
AgentTodo(r, n, o) ==
    LET k == AgentOrder(req[r].st) IN
    IF Has(r, "REATTACH") THEN AgentReattach(r, n, o)
    ELSE When(Has(r, "FORMAT") /\ k <= 1, "FORMATTING")
         \o When(Has(r, "USE") /\ k <= 2, "USING")
         \o When(Has(r, "CLOSE") /\ k <= 3, "CLOSING")
         \o When(Has(r, "CLOSE") /\ Has(r, "DETACH") /\ k <= 3, "DETACHING")
         \o When(Has(r, "PROVISION") /\ k <= 4, "REMOVING_TAG")

(***************************************************************************)
(* dispatchRequests: the list of active requests is read and each one that *)
(* belongs to the daemon and has no goroutine yet gets one.                *)
(***************************************************************************)
CentralSkipsMutant(r) ==   \* a request agentd has failed is thought to be agentd's
    req[r].st \in AgentStates \cup {"UNDO_ATTACHING"} \/ (Has(r, "CLOSE") /\ req[r].st = "NEW")
CentralSkips(r) ==
    LET st == req[r].st IN
    \/ /\ req[r].ops \cap {"FORMAT", "USE", "CLOSE"} # {}
       /\ \/ st = "NEW" /\ req[r].ops \cap {"PROVISION", "ATTACH", "REATTACH"} = {}
          \/ st \in AgentStates
    \/ /\ Has(r, "REATTACH")
       /\ st \notin {"DETACHING", "REATTACHING", "ATTACHING", "NEW"}

\* dispatchNewReattachSR: a new REATTACH is taken over half-way.
dispatchNewReattachSR(r, o) ==
    \/ o.dev = "UNUSED" /\ o.att # "DETACHED" /\ o.node # req[r].target
    \/ o.att = "DETACHED"

Start(d, r, o, todo, undo, err) ==
    go' = [go EXCEPT ![<<d, r>>] =
        [Idle EXCEPT !.pc = IF r \in expired \/ err THEN "turn" ELSE "next",
                     !.st = req[r].st, !.sid = req[r].sid, !.node = req[r].node, !.mem = o,
                     !.todo = todo, !.undo = undo, !.err = err, !.late = r \in expired]]

CentralDispatch(r) ==
    LET o == Fetched(req[r].sid)
        lost == req[r].sid # None /\ ~Exists(req[r].sid) /\ req[r].st # "RELEASING"
        err == lost \/ (r \notin expired /\ undoOnly(req[r].st))
        todo == CentralTodo(r, o)
    IN
    /\ cleanup = "done"
    /\ Active(r) /\ ~Running("centrald", r) /\ ~CentralSkips(r)
    /\ Has(r, "REATTACH") /\ req[r].st = "NEW" => dispatchNewReattachSR(r, o)
    /\ Start("centrald", r, o, todo,
             CentralUndo(r) \o IF (err \/ r \in expired) /\ todo # <<>> /\ ~Has(r, "REATTACH")
                               THEN UndoOf(todo[1]) ELSE <<>>,
             err)
    /\ UNCHANGED <<req, stg, vol, expired, cleanup, faults, crashes>>

AgentDispatch(n, r) ==
    LET o == Fetched(req[r].sid)
        st == req[r].st
        here == o.att = "ATTACHED" /\ o.node = n
        odd == /\ Has(r, "REATTACH") /\ here
               /\ IF n = req[r].target THEN o.dev \notin {"OPENING", "UNUSED", "ERROR", "OPEN"}
                  ELSE o.dev \notin {"OPEN", "CLOSING", "ERROR", "UNUSED"}
    IN
    /\ Active(r) /\ req[r].node = n /\ ~Running(n, r)
    /\ req[r].ops \cap {"FORMAT", "USE", "CLOSE", "REATTACH"} # {}
    /\ req[r].ops \cap {"PROVISION", "ATTACH"} # {} => st \in {"FORMATTING", "USING"}
    /\ Has(r, "CLOSE") => st \in {"NEW", "CLOSING"}
    /\ Has(r, "REATTACH") => st \in {"NEW", "CLOSING", "USING"} /\ here
    /\ Start(n, r, o, AgentTodo(r, n, o), <<>>, ~here \/ odd)
    /\ UNCHANGED <<req, stg, vol, expired, cleanup, faults, crashes>>

-----------------------------------------------------------------------------
Become(d, r, g) == go' = [go EXCEPT ![<<d, r>>] = g]
Fault == faults < MaxFaults /\ Calm /\ faults' = faults + 1

\* StorageUpdate of "storageState", conditional on the version of the copy:
\* it fails if someone else has changed the object since it was fetched.
StorageUpdate(d, r, new, ok, failed) ==
    LET g == G(d, r)
        s == g.sid
        current == /\ Exists(s) /\ \A f \in {"att", "dev", "media", "node"} : stg[s][f] = g.mem[f]
                   /\ stg[s].prov \in {g.mem.prov, "PROVISIONING"}
        saved == [new EXCEPT !.vol = IF g.sub = "setProvisioned" THEN @ ELSE stg[s].vol]
    IN
    \/ /\ current
       /\ stg' = [stg EXCEPT ![s] = saved]
       /\ Become(d, r, [ok EXCEPT !.mem = saved])
       /\ UNCHANGED faults
    \/ /\ \/ ~current /\ UNCHANGED faults
          \/ Fault
       /\ Become(d, r, failed)
       /\ UNCHANGED stg

-----------------------------------------------------------------------------
(***************************************************************************)
(* requestAnimator: the loop over the states, forwards and then backwards. *)
(***************************************************************************)
\* A handler returns to the loop: a state that has an undo state is noted.
Return(d, r, g) ==
    [g EXCEPT !.sub = None, !.ids = FALSE,
              !.pc = IF g.back THEN "next"
                     ELSE IF g.err \/ g.retry \/ g.todo = <<>> THEN "turn" ELSE "next",
              !.undo = IF d = "centrald" /\ ~g.back /\ ~Has(r, "REATTACH")
                       THEN @ \o UndoOf(g.st) ELSE @]

\* The sub-state in which the handler of a state starts (getInitialState).
ProvisionFirst(o) ==
    CASE o.prov = None -> "getCapacity"
      [] o.prov = "PROVISIONED" -> None
      [] OTHER -> "createCSPVolume"

\* Those of ATTACH and DETACH look at rhs.Storage without asking if it is nil.
AttachFirst(o) ==
    IF o.prov = None THEN "panic"
    ELSE CASE o.att = "ATTACHING" -> "attachStorage"
           [] o.att = "ATTACHED" -> None
           [] OTHER -> "setAttaching"

DetachFirst(st, o) ==
    IF o.prov = None THEN "panic"
    ELSE IF st = "UNDO_DETACHING" THEN "cleanup"
    ELSE CASE o.att \in {"DETACHING", "ATTACHING"} -> "detachStorage"
           [] o.att = "DETACHED" -> None
           [] OTHER -> "setDetaching"

ReleaseFirst(o) ==
    CASE o.prov = None -> None
      [] o.prov = "UNPROVISIONING" -> "deleteVolume"
      [] OTHER -> "setStorageState"

FormatFirst(o) == IF o.dev = "FORMATTING" THEN "formatDevice" ELSE "setFormatting"

UseFirst(st, o) ==
    IF st = "CLOSING" THEN IF o.dev = "CLOSING" THEN "closeDevice" ELSE "setClosing"
    ELSE IF o.media # "FORMATTED" THEN None
    ELSE IF o.dev = "OPENING" THEN "useDevice" ELSE "setOpening"

FirstSub(d, st, o) ==
    IF d = "centrald"
    THEN CASE st = "PROVISIONING" -> ProvisionFirst(o)
           [] st = "ATTACHING" -> AttachFirst(o)
           [] st \in {"DETACHING", "UNDO_ATTACHING", "UNDO_DETACHING"} -> DetachFirst(st, o)
           [] st \in {"RELEASING", "UNDO_PROVISIONING"} -> ReleaseFirst(o)
           [] st = "REMOVING_TAG" -> "removeCSPVolumeTag"
           [] OTHER -> None
    ELSE CASE st = "FORMATTING" -> FormatFirst(o)
           [] st \in {"USING", "CLOSING"} -> UseFirst(st, o)
           [] OTHER -> None

\* States whose handler is run by the other daemon: stop here for now.
HandsOver(d, st) ==
    IF d = "centrald" THEN st \in AgentStates ELSE st \in {"DETACHING", "REMOVING_TAG"}

EnterState(d, r, g0, st) ==
    LET g == [g0 EXCEPT !.st = st, !.todo = Tail(@),
                        !.retry = HandsOver(d, st),
                        !.node = IF st = "REATTACHING" THEN req[r].target ELSE @,
                        !.noid = @ \/ st \in {"RELEASING", "UNDO_PROVISIONING"},
                        !.ids = st = "PROVISIONING" /\ g0.mem.prov # None,
                        !.err = @ \/ (st = "USING" /\ d # "centrald" /\ g0.mem.media # "FORMATTED")]
        sub == FirstSub(d, st, g.mem)
    IN IF sub = None THEN Return(d, r, g) ELSE [g EXCEPT !.pc = "call", !.sub = sub]

\* The API refuses an update of a request that has terminated, and one that
\* names a Storage object that is gone (agentd does not write storageId).
Writable(d, r, g) ==
    /\ Active(r)
    /\ d = "centrald" /\ ~g.noid /\ g.sid # None => Exists(g.sid)

\* The update also carries the storageId and, from centrald, the node; after
\* a version conflict the node is the one of the copy that was fetched again.
Written(d, r, g, st) ==
    [req[r] EXCEPT !.st = st,
                   !.sid = IF d = "centrald" /\ ~g.noid THEN g.sid ELSE @,
                   !.node = IF d = "centrald" /\ req[r].st = g.st THEN g.node ELSE @]

\* setAndUpdateRequestState and the call of the handler.
NextState(d, r) ==
    LET g == G(d, r)
        st == Head(g.todo)
    IN
    /\ g.pc = "next" /\ g.todo # <<>> /\ ~g.retry
    /\ \/ /\ st = g.st
          /\ Become(d, r, EnterState(d, r, g, st))
          /\ UNCHANGED <<req, faults>>
       \/ /\ st # g.st /\ Writable(d, r, g)
          /\ req' = [req EXCEPT ![r] = Written(d, r, g, st)]
          /\ Become(d, r, EnterState(d, r, [g EXCEPT !.node = req'[r].node], st))
          /\ UNCHANGED faults
       \/ /\ st # g.st /\ ~Writable(d, r, g)
          /\ Become(d, r, [g EXCEPT !.err = TRUE, !.todo = <<>>, !.pc = IF g.back THEN "next" ELSE "turn"])
          /\ UNCHANGED <<req, faults>>
       \/ \* a transient error, or the node is not active
          /\ st # g.st /\ Fault
          /\ \E e \in IF st \in AgentStates THEN BOOLEAN ELSE {FALSE} :
                Become(d, r, [g EXCEPT !.err = @ \/ e, !.retry = ~e, !.todo = <<>>,
                                       !.pc = IF g.back THEN "next" ELSE "turn"])
          /\ UNCHANGED req
    /\ UNCHANGED <<stg, vol, expired, cleanup, crashes>>

\* The end of the forward loop, or of the backward one.
Finish(d, r, g) ==
    IF g.retry THEN Idle
    ELSE [g EXCEPT !.pc = IF d # "centrald" /\ (g.err \/ g.late) /\ ~Has(r, "REATTACH")
                          THEN "reset" ELSE "final", !.todo = <<>>, !.undo = <<>>]

Turn(d, r) ==
    LET g == G(d, r)
        n == Len(g.undo)
        failing == g.err \/ g.late
    IN
    /\ \/ /\ g.pc = "turn"
          /\ Become(d, r,
                IF d = "centrald" /\ failing /\ ~g.retry /\ n > 0
                THEN [g EXCEPT !.pc = "next", !.back = TRUE,
                               !.todo = [i \in 1..n |-> g.undo[n + 1 - i]], !.undo = <<>>]
                ELSE IF d # "centrald" /\ failing /\ Has(r, "ATTACH")
                THEN [g EXCEPT !.pc = "handback"]
                ELSE Finish(d, r, g))
       \/ /\ g.pc = "next" /\ (g.todo = <<>> \/ g.retry)
          /\ Become(d, r, IF g.back THEN Finish(d, r, g) ELSE [g EXCEPT !.pc = "turn"])
    /\ UNCHANGED <<req, stg, vol, expired, cleanup, faults, crashes>>

\* agentd cannot undo an ATTACH: it leaves that to centrald.
HandBack(n, r) ==
    LET g == G(n, r) IN
    /\ g.pc = "handback"
    /\ \/ /\ Active(r) /\ req' = [req EXCEPT ![r].st = "UNDO_ATTACHING"]
          /\ Become(n, r, Idle) /\ UNCHANGED faults
       \/ ~Active(r) /\ Become(n, r, [g EXCEPT !.pc = "reset"]) /\ UNCHANGED <<req, faults>>
       \/ Fault /\ Become(n, r, Idle) /\ UNCHANGED req
    /\ UNCHANGED <<stg, vol, expired, cleanup, crashes>>

\* Failures of these two updates are ignored.
ResetDevice(n, r) ==
    LET g == G(n, r)
        o == [g.mem EXCEPT !.dev = IF Has(r, "CLOSE") THEN "OPEN" ELSE "UNUSED"]
        ended == [g EXCEPT !.pc = "final"]
    IN
    /\ g.pc = "reset"
    /\ StorageUpdate(n, r, o, ended, ended)
    /\ UNCHANGED <<req, vol, expired, cleanup, crashes>>

EnterTerminal(d, r) ==
    LET g == G(d, r)
        st == IF g.err \/ g.late THEN "FAILED" ELSE "SUCCEEDED"
    IN
    /\ g.pc = "final"
    /\ Become(d, r, Idle)
    /\ \/ Writable(d, r, g) /\ req' = [req EXCEPT ![r] = Written(d, r, g, st)] /\ UNCHANGED faults
       \/ ~Writable(d, r, g) /\ UNCHANGED <<req, faults>>
       \/ Fault /\ UNCHANGED req
    /\ UNCHANGED <<stg, vol, expired, cleanup, crashes>>

-----------------------------------------------------------------------------
(***************************************************************************)
(* The handlers of centrald.  Each action is one sub-state: a call of the  *)
(* cloud service or an update.  InState says where the goroutine is, Call  *)
(* goes on to the next sub-state.                                          *)
(***************************************************************************)
InSub(d, r, sub) == G(d, r).pc = "call" /\ G(d, r).sub = sub
Call(g, sub) == [g EXCEPT !.sub = sub]
Failing(d, r, g) == Return(d, r, [g EXCEPT !.err = TRUE])
Later(d, r, g) == Return(d, r, [g EXCEPT !.retry = TRUE])

\* setAndUpdateRequestMessage writes the state again, with the message.
SaysWhy(r) == req' = IF Active(r) THEN [req EXCEPT ![r].st = G("centrald", r).st] ELSE req

\* A sub-state that only updates the Storage object.
CentralSave(r, sub, new, ok) ==
    LET g == G("centrald", r) IN
    /\ InSub("centrald", r, sub)
    /\ StorageUpdate("centrald", r, new, ok, Later("centrald", r, g))
    /\ IF go'[<<"centrald", r>>] = Later("centrald", r, g) THEN SaysWhy(r) ELSE UNCHANGED req
    /\ UNCHANGED <<vol, expired, cleanup, crashes>>

getCapacity(r) ==
    LET g == G("centrald", r) IN
    /\ InSub("centrald", r, "getCapacity")
    /\ \/ Become("centrald", r, Call(g, "createStorage")) /\ UNCHANGED faults
       \/ Fault /\ Become("centrald", r, Failing("centrald", r, g))
       \/ Fault /\ Become("centrald", r, Later("centrald", r, g))
    /\ UNCHANGED <<req, stg, vol, expired, cleanup, crashes>>

\* Identifiers of objects and of volumes are not used twice.
UnusedVolumes ==
    {v \in Vol : /\ vol[v].stg = None
                 /\ \A s \in Stg : stg[s].vol # v
                 /\ \A p \in DOMAIN go : go[p].mem.vol # v}
Unused(s) ==
    /\ ~Exists(s)
    /\ \A r \in SR : req[r].sid # s /\ \A d \in Daemon : G(d, r).sid # s
    /\ \A v \in Vol : vol[v].stg # s

createStorage(r) ==
    LET g == G("centrald", r)
        new == [NoStorage EXCEPT !.prov = "PROVISIONING"]
    IN
    /\ InSub("centrald", r, "createStorage")
    /\ \/ \E s \in Stg :
            /\ Unused(s)
            /\ stg' = [stg EXCEPT ![s] = new]
            /\ \/ /\ Become("centrald", r, [Call(g, "setIds") EXCEPT !.sid = s, !.mem = new])
                  /\ UNCHANGED faults
               \/ Fault /\ Become("centrald", r, Failing("centrald", r, g))
       \/ /\ Fault \/ (UNCHANGED faults /\ ~\E s \in Stg : Unused(s))
          /\ Become("centrald", r, Failing("centrald", r, g))
          /\ UNCHANGED stg
    /\ UNCHANGED <<req, vol, expired, cleanup, crashes>>

setIds(r) ==
    LET g == G("centrald", r) IN
    /\ InSub("centrald", r, "setIds")
    /\ \/ /\ req' = [req EXCEPT ![r] = Written("centrald", r, g, g.st)]
          /\ Become("centrald", r, Call(g, "createCSPVolume"))
          /\ UNCHANGED faults
       \/ Fault /\ Become("centrald", r, Failing("centrald", r, g)) /\ UNCHANGED req
    /\ UNCHANGED <<stg, vol, expired, cleanup, crashes>>

\* If the identifiers were there already a volume may have been created in an
\* earlier run: it is looked for by its tags.
createCSPVolume(r) ==
    LET g == G("centrald", r)
        found == {v \in Vol : vol[v].stg = g.sid /\ vol[v].tag = r}
        made(v) == [Call(g, "setProvisioned") EXCEPT !.mem.vol = v, !.mem.prov = "PROVISIONED"]
        new(v) == [vol EXCEPT ![v] = [stg |-> g.sid, tag |-> r, at |-> None]]
        creates == ~g.ids \/ found = {}
        free == UnusedVolumes
    IN
    /\ InSub("centrald", r, "createCSPVolume")
    /\ \/ \E v \in found : g.ids /\ Become("centrald", r, made(v)) /\ UNCHANGED <<vol, faults>>
       \/ /\ \/ creates /\ UNCHANGED faults
             \/ ListFails /\ Fault   \* the error is ignored
          /\ \E v \in free : vol' = new(v) /\ Become("centrald", r, made(v))
       \/ \* VolumeCreate fails, whether or not there is a volume now
          /\ creates \/ ListFails
          /\ Fault \/ (UNCHANGED faults /\ free = {} /\ found = {})
          /\ Become("centrald", r, Failing("centrald", r, g))
          /\ UNCHANGED vol \/ \E v \in free : vol' = new(v)
       \/ Fault /\ Become("centrald", r, Later("centrald", r, g)) /\ UNCHANGED vol
    /\ UNCHANGED <<req, stg, expired, cleanup, crashes>>

\* The copy in memory keeps the identifier if the update fails.
setProvisioned(r) ==
    LET g == G("centrald", r) IN
    /\ InSub("centrald", r, "setProvisioned")
    /\ StorageUpdate("centrald", r, g.mem, Return("centrald", r, g), Failing("centrald", r, g))
    /\ UNCHANGED <<req, vol, expired, cleanup, crashes>>

\* Best effort: an error of VolumeTagsDelete is ignored.
removeCSPVolumeTag(r) ==
    LET g == G("centrald", r) IN
    /\ InSub("centrald", r, "removeCSPVolumeTag")
    /\ \/ /\ vol' = [vol EXCEPT ![g.mem.vol].tag = None]
          /\ Become("centrald", r, Return("centrald", r, g))
          /\ UNCHANGED faults
       \/ Fault /\ Become("centrald", r, Return("centrald", r, g)) /\ UNCHANGED vol
       \/ Fault /\ Become("centrald", r, Later("centrald", r, g)) /\ UNCHANGED vol
    /\ UNCHANGED <<req, stg, expired, cleanup, crashes>>

setAttaching(r) ==
    LET g == G("centrald", r) IN
    CentralSave(r, "setAttaching", [g.mem EXCEPT !.att = "ATTACHING", !.node = g.node],
                Call(g, "attachStorage"))

\* VolumeAttach succeeds for a volume that is attached to the node already.
attachStorage(r) ==
    LET g == G("centrald", r)
        v == g.mem.vol
        attached == [vol EXCEPT ![v].at = g.node]
    IN
    /\ InSub("centrald", r, "attachStorage")
    /\ \/ /\ vol[v].at \in {None, g.node}
          /\ vol' = attached
          /\ Become("centrald", r, Call(g, "setAttached"))
          /\ UNCHANGED faults
       \/ /\ vol[v].at \notin {None, g.node} /\ UNCHANGED <<vol, faults>>
          /\ Become("centrald", r, Failing("centrald", r, g))
       \/ /\ Fault /\ Become("centrald", r, Failing("centrald", r, g))
          /\ UNCHANGED vol \/ (vol[v].at = None /\ vol' = attached)
       \/ Fault /\ Become("centrald", r, Later("centrald", r, g)) /\ UNCHANGED vol
    /\ UNCHANGED <<req, stg, expired, cleanup, crashes>>

setAttached(r) ==
    LET g == G("centrald", r) IN
    CentralSave(r, "setAttached", [g.mem EXCEPT !.att = "ATTACHED"], Return("centrald", r, g))

setDetaching(r) ==
    LET g == G("centrald", r) IN
    CentralSave(r, "setDetaching", [g.mem EXCEPT !.att = "DETACHING"], Call(g, "detachStorage"))

\* VolumeDetach fails for a volume that is attached to another node.
detachStorage(r) ==
    LET g == G("centrald", r)
        v == g.mem.vol
        here == vol[v].at \in {None, g.node}
        detached == [vol EXCEPT ![v].at = IF here THEN None ELSE @]
    IN
    /\ InSub("centrald", r, "detachStorage")
    /\ \/ /\ here /\ vol' = detached
          /\ Become("centrald", r, Call(g, "setDetached")) /\ UNCHANGED <<req, faults>>
       \/ /\ ~here /\ UNCHANGED <<vol, faults>>
          /\ Become("centrald", r, Later("centrald", r, g)) /\ SaysWhy(r)
       \/ /\ Fault /\ vol' \in {vol, detached}
          /\ Become("centrald", r, Later("centrald", r, g)) /\ SaysWhy(r)
    /\ UNCHANGED <<stg, expired, cleanup, crashes>>

\* The detach of a node that is gone is forced; it also ends the use of the device.
setDetached(r) ==
    LET g == G("centrald", r) IN
    CentralSave(r, "setDetached",
                [g.mem EXCEPT !.att = "DETACHED", !.node = None,
                              !.dev = IF req[r].ops = {"DETACH"} THEN "UNUSED" ELSE @],
                Return("centrald", r, g))

\* UndoDetachStorage; a failure is ignored.
cleanupDetach(r) ==
    LET g == G("centrald", r) IN
    /\ InSub("centrald", r, "cleanup")
    /\ StorageUpdate("centrald", r, [g.mem EXCEPT !.att = "ERROR"],
                     Return("centrald", r, g), Return("centrald", r, g))
    /\ UNCHANGED <<req, vol, expired, cleanup, crashes>>

setStorageState(r) ==
    LET g == G("centrald", r) IN
    CentralSave(r, "setStorageState", [g.mem EXCEPT !.prov = "UNPROVISIONING"],
                Call(g, "deleteVolume"))

\* VolumeDelete is refused while the volume is attached.
deleteVolumeMutant(r) ==   \* the Storage object goes first
    LET g == G("centrald", r) IN
    /\ InSub("centrald", r, "deleteVolume")
    /\ Become("centrald", r, Call(g, "deleteStorage"))
    /\ UNCHANGED <<req, stg, vol, expired, cleanup, crashes, faults>>
deleteVolume(r) ==
    LET g == G("centrald", r)
        v == g.mem.vol
        deleted == [vol EXCEPT ![v] = NoVolume]
    IN
    /\ InSub("centrald", r, "deleteVolume")
    /\ \/ /\ \/ v = None /\ UNCHANGED vol
             \/ v # None /\ vol[v].at = None /\ vol' = deleted
          /\ Become("centrald", r, Call(g, "deleteStorage"))
          /\ UNCHANGED <<req, faults>>
       \/ /\ v # None
          /\ \/ vol[v].at # None /\ UNCHANGED <<vol, faults>>
             \/ Fault /\ (UNCHANGED vol \/ (vol[v].at = None /\ vol' = deleted))
          /\ Become("centrald", r, Later("centrald", r, g)) /\ SaysWhy(r)
    /\ UNCHANGED <<stg, expired, cleanup, crashes>>

deleteStorage(r) ==
    LET g == G("centrald", r)
        deleted == [stg EXCEPT ![g.sid] = NoStorage]
    IN
    /\ InSub("centrald", r, "deleteStorage")
    /\ \/ stg' = deleted /\ Become("centrald", r, Return("centrald", r, g)) /\ UNCHANGED <<req, faults>>
       \/ /\ Fault /\ Become("centrald", r, Later("centrald", r, g)) /\ SaysWhy(r)
          /\ stg' \in {stg, deleted}
    /\ UNCHANGED <<vol, expired, cleanup, crashes>>

-----------------------------------------------------------------------------
(***************************************************************************)
(* The handlers of agentd: the state of the device is set, the storage     *)
(* daemon is called, and the result is saved.  All can be repeated.        *)
(***************************************************************************)
SetDeviceState(n, r, sub, dev, next) ==
    LET g == G(n, r) IN
    /\ InSub(n, r, sub)
    /\ StorageUpdate(n, r, [g.mem EXCEPT !.dev = dev], Call(g, next), Later(n, r, g))
    /\ UNCHANGED <<req, vol, expired, cleanup, crashes>>

CallDevice(n, r, sub, new, worst) ==
    LET g == G(n, r) IN
    /\ InSub(n, r, sub)
    /\ \/ StorageUpdate(n, r, new, Return(n, r, g), Later(n, r, g))
       \/ Fault /\ Become(n, r, Failing(n, r, [g EXCEPT !.mem = worst])) /\ UNCHANGED stg
    /\ UNCHANGED <<req, vol, expired, cleanup, crashes>>

FormatStorage(n, r) ==
    LET o == G(n, r).mem IN
    \/ SetDeviceState(n, r, "setFormatting", "FORMATTING", "formatDevice")
    \/ CallDevice(n, r, "formatDevice",
                  [o EXCEPT !.media = "FORMATTED",
                            !.dev = IF Has(r, "USE") THEN "OPENING" ELSE "UNUSED"],
                  [o EXCEPT !.media = "UNFORMATTED"])

UseStorage(n, r) ==
    LET o == G(n, r).mem IN
    \/ SetDeviceState(n, r, "setOpening", "OPENING", "useDevice")
    \/ CallDevice(n, r, "useDevice", [o EXCEPT !.dev = "OPEN"], o)

CloseStorage(n, r) ==
    LET o == G(n, r).mem IN
    \/ SetDeviceState(n, r, "setClosing", "CLOSING", "closeDevice")
    \/ CallDevice(n, r, "closeDevice", [o EXCEPT !.dev = "UNUSED"], o)

-----------------------------------------------------------------------------
(***************************************************************************)
(* Restarts.                                                               *)
(***************************************************************************)
Forget(d) == go' = [p \in Daemon \X SR |-> IF p[1] = d THEN Idle ELSE go[p]]

CrashCentrald ==
    /\ crashes < MaxCrashes /\ Calm /\ crashes' = crashes + 1
    /\ Forget("centrald")
    /\ cleanup' = "volumes"
    /\ UNCHANGED <<req, stg, vol, expired, faults>>

\* RecoverStorageInUse: devices in use are opened again before any request is
\* looked at.  One whose volume is gone from the node is noted as detached,
\* one that cannot be opened is marked.
Recovered(n, bad, s) ==
    LET o == stg[s] IN
    IF ~(Exists(s) /\ o.node = n /\ o.dev = "OPEN") THEN o
    ELSE IF o.vol # None /\ vol[o.vol].at # n
         THEN [o EXCEPT !.att = "DETACHED", !.node = None, !.dev = "UNUSED"]
    ELSE IF s \in bad THEN [o EXCEPT !.dev = "ERROR"]
    ELSE o

CrashAgentd(n) ==
    /\ crashes < MaxCrashes /\ Calm /\ crashes' = crashes + 1
    /\ Forget(n)
    /\ \E bad \in SUBSET Stg :
          /\ \A s \in bad : stg[s].node = n /\ stg[s].dev = "OPEN"
          /\ stg' = [s \in Stg |-> Recovered(n, bad, s)]
    /\ UNCHANGED <<req, vol, expired, cleanup, faults>>

(***************************************************************************)
(* The startup cleanup of centrald, before any request is dispatched.      *)
(***************************************************************************)
Tagged == {v \in Vol : vol[v].stg # None /\ vol[v].tag # None}
Orphans == {v \in Tagged : ~(Exists(vol[v].stg) /\ stg[vol[v].stg].prov = "PROVISIONED")}

\* Errors of the cloud service are ignored: some volumes may stay.
releaseOrphanedCSPVolumes ==
    /\ cleanup = "volumes"
    /\ \E kept \in SUBSET Tagged :
          /\ faults + Cardinality(kept) <= MaxFaults
          /\ kept # {} => Calm
          /\ faults' = faults + Cardinality(kept)
          /\ vol' = [v \in Vol |->
                IF v \in kept \/ v \notin Tagged THEN vol[v]
                ELSE IF v \in Orphans THEN IF vol[v].at = None THEN NoVolume ELSE vol[v]
                ELSE IF ~Active(vol[v].tag) THEN [vol[v] EXCEPT !.tag = None]
                ELSE vol[v]]
    /\ cleanup' = "provisioning"
    /\ UNCHANGED <<req, stg, go, expired, crashes>>

\* The requests of a Storage object lose their link, then it is marked.
makeProvisioningStorageUnprovisioned ==
    /\ cleanup = "provisioning"
    /\ LET left == {s \in Stg : stg[s].prov = "PROVISIONING"} IN
       IF left = {} THEN cleanup' = "unprovisioned" /\ UNCHANGED <<req, stg>>
       ELSE \E s \in left :
              /\ IF InUse(s)
                 THEN /\ \E r \in SR : /\ Active(r) /\ req[r].sid = s
                                       /\ req' = [req EXCEPT ![r].sid = None]
                      /\ UNCHANGED stg
                 ELSE stg' = [stg EXCEPT ![s].prov = "UNPROVISIONED"] /\ UNCHANGED req
              /\ UNCHANGED cleanup
    /\ UNCHANGED <<vol, go, expired, faults, crashes>>

deleteUnprovisionedStorage ==
    /\ cleanup = "unprovisioned"
    /\ LET left == {s \in Stg : stg[s].prov = "UNPROVISIONED"} IN
       IF left = {} THEN cleanup' = "done" /\ UNCHANGED stg
       ELSE /\ \E s \in left : stg' = [stg EXCEPT ![s] = NoStorage]
            /\ UNCHANGED cleanup
    /\ UNCHANGED <<req, vol, go, expired, faults, crashes>>

-----------------------------------------------------------------------------
Animate(d, r) == NextState(d, r) \/ Turn(d, r) \/ EnterTerminal(d, r)

Provision(r) == getCapacity(r) \/ createStorage(r) \/ setIds(r) \/ createCSPVolume(r)
                \/ setProvisioned(r) \/ removeCSPVolumeTag(r)
Attach(r) == setAttaching(r) \/ attachStorage(r) \/ setAttached(r)
Detach(r) == setDetaching(r) \/ detachStorage(r) \/ setDetached(r) \/ cleanupDetach(r)
Release(r) == setStorageState(r) \/ deleteVolume(r) \/ deleteStorage(r)
Central(r) == CentralDispatch(r) \/ Animate("centrald", r)
              \/ Provision(r) \/ Attach(r) \/ Detach(r) \/ Release(r)

Agent(n, r) == AgentDispatch(n, r) \/ Animate(n, r) \/ HandBack(n, r) \/ ResetDevice(n, r)
               \/ FormatStorage(n, r) \/ UseStorage(n, r) \/ CloseStorage(n, r)

Cleanup == releaseOrphanedCSPVolumes \/ makeProvisioningStorageUnprovisioned
           \/ deleteUnprovisionedStorage

Next ==
    \/ \E r \in SR : StorageRequestCreate(r) \/ Expire(r) \/ Central(r)
    \/ \E r \in SR, n \in Node : Agent(n, r)
    \/ Cleanup
    \/ CrashCentrald
    \/ \E n \in Node : CrashAgentd(n)

Spec == Init /\ [][Next]_vars

\* Goroutines run and calls return; the run loops wake up at least every
\* RetryInterval; time passes.
FairSpec ==
    /\ Spec
    /\ WF_vars(Cleanup)
    /\ \A r \in SR : WF_vars(Central(r)) /\ WF_vars(Expire(r))
    /\ \A r \in SR, n \in Node : WF_vars(Agent(n, r))

-----------------------------------------------------------------------------
Storage == [prov : {None, "PROVISIONING", "PROVISIONED", "UNPROVISIONING", "UNPROVISIONED"},
            att : {"DETACHED", "ATTACHING", "ATTACHED", "DETACHING", "ERROR"},
            dev : {"UNUSED", "FORMATTING", "OPENING", "OPEN", "CLOSING", "ERROR"},
            media : {"UNFORMATTED", "FORMATTED"}, node : Node \cup {None}, vol : Vol \cup {None}]

States == {"NEW", "PROVISIONING", "ATTACHING", "FORMATTING", "USING", "CLOSING", "DETACHING",
           "RELEASING", "REMOVING_TAG", "REATTACHING", "UNDO_PROVISIONING", "UNDO_ATTACHING",
           "UNDO_DETACHING"} \cup Terminal

Requests == [st : States \cup {None}, ops : Plans \cup {{}}, sid : Stg \cup {None},
             node : Node \cup {None}, target : Node \cup {None}]

Subs == {"getCapacity", "createStorage", "setIds", "createCSPVolume", "setProvisioned",
         "removeCSPVolumeTag", "setAttaching", "attachStorage", "setAttached", "setDetaching",
         "detachStorage", "setDetached", "cleanup", "setStorageState", "deleteVolume",
         "deleteStorage", "setFormatting", "formatDevice", "setOpening", "useDevice",
         "setClosing", "closeDevice", "panic"}

Goroutines == [pc : {"idle", "next", "turn", "call", "handback", "reset", "final"},
               st : States \cup {None}, sid : Stg \cup {None}, node : Node \cup {None},
               todo : Seq(States), undo : Seq(States), sub : Subs \cup {None},
               mem : Storage,
               ids : BOOLEAN, err : BOOLEAN, late : BOOLEAN, retry : BOOLEAN,
               noid : BOOLEAN, back : BOOLEAN]

TypeOK ==
    /\ req \in [SR -> Requests]
    /\ stg \in [Stg -> Storage]
    /\ vol \in [Vol -> [stg : Stg \cup {None}, tag : SR \cup {None}, at : Node \cup {None}]]
    /\ go \in [Daemon \X SR -> Goroutines]
    /\ expired \subseteq SR
    /\ cleanup \in {"volumes", "provisioning", "unprovisioned", "done"}
    /\ faults \in Nat /\ crashes \in Nat

\* createCSPVolumeSetStorageProvisioned leaves a volume "to be cleaned up
\* elsewhere" when it fails: a volume that no Storage object names carries the
\* tag of a request, by which releaseOrphanedCSPVolumes finds it.
OrphansAreTagged ==
    \A v \in Vol : vol[v].stg # None =>
        \/ \E s \in Stg : Exists(s) /\ stg[s].vol = v
        \/ vol[v].tag # None

\* storageRequestCreate: two requests never work on the same storage, although
\* what they work on is only linked to them while they run, and one may have
\* been taken over by the other daemon (a goroutine with `retry' only returns).
\* A REATTACH is the exception, see README: both daemons may have taken it, and
\* the one that finds its deadline passed ends it while the other works on.
Works(d, r) == Running(d, r) /\ ~G(d, r).retry /\ G(d, r).sid # None
Overtaken(r) == Has(r, "REATTACH") /\ ~Active(r)
OneRequestPerStorage ==
    \A r1, r2 \in SR : \A d1, d2 \in Daemon :
        /\ r1 # r2 /\ Works(d1, r1) /\ Works(d2, r2)
        /\ ~Overtaken(r1) /\ ~Overtaken(r2)
        => G(d1, r1).sid # G(d2, r2).sid

\* A PROVISION request that fails gives everything back: storage that is
\* provisioned belongs to a request that is under way or has succeeded.
ProvisionedIsOwned ==
    \A s \in Stg : stg[s].prov = "PROVISIONED" =>
        \E r \in SR : req[r].sid = s /\ Has(r, "PROVISION") /\ req[r].st # "FAILED"

Achieved(r) ==
    LET o == Fetched(req[r].sid) IN
    /\ req[r].ops \cap {"PROVISION", "ATTACH", "FORMAT", "USE", "REATTACH"} # {} =>
          o.prov = "PROVISIONED" /\ vol[o.vol].stg = req[r].sid
    /\ req[r].ops \cap {"ATTACH", "REATTACH"} # {} =>
          o.att = "ATTACHED" /\ vol[o.vol].at = o.node
          /\ o.node = IF Has(r, "ATTACH") THEN req[r].node ELSE req[r].target
    /\ Has(r, "FORMAT") => o.media = "FORMATTED"
    /\ req[r].ops \cap {"USE", "REATTACH"} # {} => o.dev \in {"OPEN", "ERROR"}
    /\ Has(r, "CLOSE") => o.dev = "UNUSED"
    /\ Has(r, "DETACH") => o.att = "DETACHED" /\ \A v \in Vol : vol[v].stg = req[r].sid => vol[v].at = None
    /\ Has(r, "RELEASE") => o.prov = None

\* A request SUCCEEDED only when all that was asked for is so, in the database
\* and in the cloud, whichever daemon did it and however often it was repeated.
\* (ERROR: a device that was open and could not be opened again after a restart.)
\* One exception: the DETACH of a node that is gone, when a REATTACH of the storage
\* has FAILED under centrald's hands, which may attach it again meanwhile.
Disturbed(r) ==
    req[r].ops = {"DETACH"} /\ \E q \in SR : Has(q, "REATTACH") /\ req[q].st = "FAILED"
                                             /\ req[q].sid = req[r].sid
SuccessIsReal ==
    [][\A r \in SR : Active(r) /\ req'[r].st = "SUCCEEDED" => Achieved(r) \/ Disturbed(r)]_vars

\* The stage a Storage object is in.
LifeOf(o) ==
    CASE o.prov = None -> "absent"
      [] o.prov = "PROVISIONING" -> "provisioning"
      [] o.prov = "UNPROVISIONED" -> "discarded"
      [] o.prov = "UNPROVISIONING" -> "releasing"
      [] OTHER -> IF o.att = "DETACHED" THEN "detached"
                  ELSE IF o.att # "ATTACHED" THEN "moving"
                  ELSE IF o.dev = "OPEN" THEN "open" ELSE "attached"

\* Storage of which a REATTACH has FAILED, and a plain RELEASE is under way.
OvertakenStorage ==
    {s \in Stg : /\ \E r \in SR : Has(r, "REATTACH") /\ req[r].st = "FAILED" /\ req[r].sid = s
                 /\ \E r \in SR : req[r].ops = {"RELEASE"} /\ Active(r) /\ req[r].sid = s}

Life == INSTANCE StorageLife WITH life <- [s \in Stg |-> LifeOf(stg[s])],
                                  overtaken <- OvertakenStorage

\* The handlers of both daemons, their undo handlers, the startup cleanup and
\* the recovery of agentd together implement StorageLife.  One exception, which
\* storageRequestCreate does not prevent: a REATTACH that agentd has ended at its
\* deadline is still carried out by centrald, so that a RELEASE accepted while
\* the storage was detached finds it attaching or attached, and releases it all
\* the same (release.go asks nothing about the attachment).
ImplementsLife == Life!LifeSpec

\* A release that was interrupted after its Storage object was deleted, and
\* whose deadline passes: it cannot be updated any more (see README).
CannotEnd(r) ==
    /\ req[r].st = "RELEASING" /\ Has(r, "DETACH") /\ r \in expired
    /\ ~Exists(req[r].sid)

\* Every request is processed by its deadline or fails, as completeByTime says
\* (one kind excepted).
AllEnded == \A r \in SR : req[r].st \in Terminal \cup {None} \/ CannotEnd(r)
RequestsEnd == <>[]AllEnded
=============================================================================
