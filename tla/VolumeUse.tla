------------------------------ MODULE VolumeUse ------------------------------
(***************************************************************************)
(* The use of volumes on one node: agentd configures, exports, attaches,   *)
(* snapshots and releases volumes with the storage process of the node     *)
(* ("nuvo"), keeps the node's cache accounts, and recovers when either of  *)
(* the two restarts under the other.                                       *)
(* pkg/agentd/vreq: configure.go, export.go, attach_fs.go, recover.go;     *)
(* pkg/agentd/state/state.go; InitializeNuvo in pkg/agentd/appctx.go.      *)
(*                                                                         *)
(* A step is one call with an effect outside the handler.  op[v].vs is the *)
(* VolumeSeries object as the handler has it: decisions are made with it,  *)
(* updates are made on the current object (VolumeSeriesUpdater).  A volume *)
(* has at most one active request (module ApiTables), except that a        *)
(* CHANGE_CAPACITY, which has a slot of its own, overlaps a snapshot.      *)
(***************************************************************************)
EXTENDS Integers, Sequences, FiniteSets, FiniteSetsExt

CONSTANTS Vol,
          Resize,       \* volume -> the slot of its CHANGE_CAPACITY
          Kinds,        \* the requests that may be made
          TotalCache,   \* cache of the node
          Unit,         \* cacheUnitSizeBytes
          Want,         \* volume -> cache desired by its storage plan
          Least,        \* volume -> least cache that is acceptable
          NewWant,      \* volume -> cache desired by CHANGE_CAPACITY
          Restarts,     \* the processes that may restart
          MayFail,      \* sub-states whose call may fail
          MaxRequests,  \* bound: requests per volume
          MaxFaults,    \* bound: restarts, interruptions and failed calls
          MaxWrites     \* bound: writes per volume

VARIABLES
    vs,      \* VolumeSeries objects
    req,     \* slot -> its request
    op,      \* slot -> the handler of its request, in memory
    agent,   \* agentd, in memory: readiness, recovery, cache claims, LUN cache
    guard,   \* holder of the LMDGuard
    avail,   \* availableCacheBytes of the Node object
    nuvo,    \* the storage process
    fs,      \* volumes whose filesystem is mounted on the host, from a device that works
    dirty,   \* volumes with data that is in no snapshot
    since,   \* volumes written to since their last point-in-time
    odd,     \* history: volumes whose need of a final snapshot a MOUNT forgot, those whose
             \* cache a recovery gave up though it is in use, and those that a restart of the
             \* storage process or its recovery changed while a handler had them in memory
    faults

useVars == <<vs, req, op, agent, guard, avail, nuvo, fs, dirty, since, odd, faults>>

None == "none"
NoStat == <<0, 0>>
Slot == Vol \cup {Resize[v] : v \in Vol}
VolOf(r) == IF r \in Vol THEN r ELSE CHOOSE v \in Vol : Resize[v] = r
Mounted(o) == o.head # None \/ o.tip # None \/ o.left
Configured(o) == o.state \in {"CONFIGURED", "IN_USE"}

-----------------------------------------------------------------------------
(* Requests and their states *)

Plan(kind) ==
    CASE kind = "MOUNT" -> <<"PLACEMENT", "VOLUME_CONFIG", "VOLUME_EXPORT">>
      [] kind = "UNMOUNT" -> <<"UNDO_VOLUME_EXPORT">>
      [] kind = "ATTACH_FS" -> <<"ATTACHING_FS">>
      [] kind = "DETACH_FS" -> <<"UNDO_ATTACHING_FS">>
      [] kind = "SNAPSHOT" -> <<"CREATING_PIT", "SNAPSHOT_UPLOADING", "FINALIZING_SNAPSHOT">>
      [] kind = "CONFIGURE_SNAPSHOT" -> <<"VOLUME_CONFIG", "CREATING_PIT", "SNAPSHOT_UPLOADING", "FINALIZING_SNAPSHOT">>
      [] kind = "CHANGE_CAPACITY" -> <<"REALLOCATING_CACHE">>
      [] kind = "UNBIND" -> <<"UNDO_VOLUME_CONFIG", "UNDO_PLACEMENT">>
UndoOf(st) ==
    CASE st = "PLACEMENT" -> "UNDO_PLACEMENT"
      [] st = "VOLUME_CONFIG" -> "UNDO_VOLUME_CONFIG"
      [] st = "VOLUME_EXPORT" -> "UNDO_VOLUME_EXPORT"
      [] st = "ATTACHING_FS" -> "UNDO_ATTACHING_FS"
      [] st = "CREATING_PIT" -> "UNDO_CREATING_PIT"
      [] st = "SNAPSHOT_UPLOADING" -> "UNDO_SNAPSHOT_UPLOADING"
      [] st = "REALLOCATING_CACHE" -> "UNDO_REALLOCATING_CACHE"
      [] OTHER -> None

\* Whether a request may be made: volumeSeriesRequestCreate.
Accepts(v, kind) ==
    CASE kind = "MOUNT" -> vs[v].state \in {"BOUND", "PROVISIONED", "CONFIGURED"}
      [] kind = "UNMOUNT" -> vs[v].state = "IN_USE" /\ vs[v].head # None /\ ~vs[v].fsTag
      [] kind = "ATTACH_FS" -> vs[v].state = "IN_USE" /\ vs[v].head # None /\ ~vs[v].fsTag
      [] kind = "DETACH_FS" -> vs[v].state = "IN_USE" /\ vs[v].head # None /\ vs[v].fsTag
      [] kind = "SNAPSHOT" -> vs[v].state = "CONFIGURED" \/ (vs[v].state = "IN_USE" /\ (vs[v].head = "MOUNTED" \/ vs[v].left))
      [] kind = "CONFIGURE_SNAPSHOT" -> vs[v].state = "PROVISIONED" /\ vs[v].fsn
      [] kind = "CHANGE_CAPACITY" -> vs[v].state = "IN_USE"
      [] kind = "UNBIND" -> vs[v].state = "PROVISIONED" /\ ~vs[v].fsn /\ vs[v].root

SnapshotStates == {"CREATING_PIT", "SNAPSHOT_UPLOADING", "FINALIZING_SNAPSHOT"}

Idle == [pc |-> "idle", vs |-> <<>>, planned |-> FALSE, err |-> FALSE, abort |-> FALSE,
         stats |-> NoStat, claim |-> 0, ret |-> None]
NoRequest == [kind |-> None, i |-> 0, undo |-> FALSE, n |-> 0, placed |-> FALSE,
              saved |-> -1, pit |-> FALSE, unexp |-> 0, stat |-> NoStat]
Active(r) == req[r].i # 0
StateOf(r) == LET st == Plan(req[r].kind)[req[r].i] IN IF req[r].undo THEN UndoOf(st) ELSE st

Init ==
    /\ vs = [v \in Vol |-> [state |-> "BOUND", node |-> FALSE, root |-> FALSE, tag |-> None,
                            head |-> None, tip |-> None, left |-> FALSE, fsTag |-> FALSE, alloc |-> 0,
                            fsn |-> FALSE, stat |-> NoStat, lmd |-> NoStat, unexp |-> 0]]
    /\ req = [r \in Slot |-> NoRequest]
    /\ op = [r \in Slot |-> Idle]
    /\ agent = [ready |-> FALSE, first |-> TRUE, pc |-> "start", todo |-> {}, loaded |-> FALSE,
                claims |-> [v \in Vol |-> 0], luns |-> {}]
    /\ guard = None
    /\ avail = TotalCache
    /\ nuvo = [init |-> FALSE, exists |-> {}, open |-> {}, luns |-> {}, tips |-> {}, left |-> {},
               cache |-> [v \in Vol |-> 0], series |-> 1, count |-> [v \in Vol |-> 0]]
    /\ fs = {} /\ dirty = {} /\ since = {} /\ faults = 0
    /\ odd = [forgot |-> {}, given |-> {}, crossed |-> {}]

At(v, pc) == op[v].pc = pc
SetOp(v, m) == op' = [op EXCEPT ![v] = m]
Goto(v, pc) == SetOp(v, [op[v] EXCEPT !.pc = pc])
Fail(v) == SetOp(v, [op[v] EXCEPT !.pc = "next", !.err = TRUE])
\* VolumeSeriesUpdater: the object is written and the handler has what was written.
Update(v, o, pc) == vs' = [vs EXCEPT ![v] = o] /\ SetOp(v, [op[v] EXCEPT !.vs = o, !.pc = pc])

-----------------------------------------------------------------------------
(* Cache accounts: pkg/agentd/state *)

Round(n, floor) == IF floor THEN (n \div Unit) * Unit ELSE ((n + Unit - 1) \div Unit) * Unit
Claimed == FoldSet(LAMBDA v, s : s + agent.claims[v], 0, Vol)
Free == TotalCache - Claimed
\* Mutant: what is available is not looked at.
Granted_NoLimit(v, desired, least) == Round(desired, FALSE)
\* What ClaimCache grants, or -1 when not even the least can be had.
Granted(v, desired, least) ==
    LET cur == agent.claims[v]
        more == Round(desired, FALSE) - cur
        rest == Round(Free, TRUE)
    IN IF desired = cur THEN cur
       ELSE IF more <= Free THEN cur + more
       ELSE IF least <= rest THEN cur + rest ELSE -1
WithClaim(v, n) == [agent EXCEPT !.claims[v] = n]

-----------------------------------------------------------------------------
(* The animator *)

\* volumeSeriesRequestCreateCheckConcurrentVolOps
SlotFor(v, kind) == IF kind = "CHANGE_CAPACITY" THEN Resize[v] ELSE v
Overlap(v, kind) ==
    /\ ~Active(SlotFor(v, kind))
    /\ kind = "CHANGE_CAPACITY" => ~Active(v) \/ req[v].kind = "SNAPSHOT"
    /\ Active(Resize[v]) => kind = "SNAPSHOT"

Request(v, kind) ==
    /\ Overlap(v, kind) /\ req[v].n + req[Resize[v]].n < MaxRequests /\ Accepts(v, kind)
    /\ LET r == SlotFor(v, kind)
       IN /\ req' = [req EXCEPT ![r] = [NoRequest EXCEPT !.kind = kind, !.i = 1, !.n = req[r].n + 1]]
          /\ vs' = IF r = v THEN [vs EXCEPT ![v].tag = None] ELSE vs
    /\ UNCHANGED <<op, agent, guard, avail, nuvo, fs, dirty, since, odd, faults>>

\* RunBody: the cache claims are read again from the volumes of the node.
Reload ==
    /\ agent.ready /\ guard = None
    /\ agent' = [agent EXCEPT !.loaded = TRUE,
                              !.claims = [v \in Vol |-> IF vs[v].node THEN vs[v].alloc ELSE 0]]
    /\ UNCHANGED <<vs, req, op, guard, avail, nuvo, fs, dirty, since, odd, faults>>

\* getInitialState of the handlers, by the state of the request and the volume.
StartConfigure(o) ==
    IF ~o.root THEN "SetRoot"
    ELSE CASE o.tag = "created" -> "OpenLogVol"
           [] o.tag = "creator" -> "CreateLogVol"
           [] OTHER -> IF Configured(o) THEN "next" ELSE "OpenLogVol"
StartUnconfigure(o, unbind) ==
    IF o.tag # None THEN "CloseDelete"
    ELSE IF unbind THEN IF o.root THEN "CloseDelete" ELSE "done"
    ELSE IF ~o.root \/ o.state = "IN_USE" THEN "done" ELSE "SetProvisioned"
StartExport(o) ==
    CASE o.head = "MOUNTING" -> "GetStat" [] o.head = "MOUNTED" -> "next" [] OTHER -> "SetMounting"
StartUnexport(o) ==
    CASE o.head = None -> "next" [] o.head = "MOUNTING" -> "SetError"
      [] o.head = "MOUNTED" -> "SetUnmounting" [] OTHER -> "UnexportLun"
Start(v, st, o) ==
    CASE st = "PLACEMENT" -> IF o.state = "BOUND" THEN "Place" ELSE "next"
      [] st = "UNDO_PLACEMENT" -> IF req[v].kind = "UNBIND" \/ req[v].placed THEN "Unplace" ELSE "next"
      [] st = "VOLUME_CONFIG" -> StartConfigure(o)
      [] st = "UNDO_VOLUME_CONFIG" -> StartUnconfigure(o, req[v].kind = "UNBIND")
      [] st = "VOLUME_EXPORT" -> StartExport(o)
      [] st = "UNDO_VOLUME_EXPORT" -> StartUnexport(o)
      [] st = "ATTACHING_FS" -> IF o.head # None THEN "DoMount" ELSE "error"
      [] st = "UNDO_ATTACHING_FS" -> IF o.head # None THEN "DoUnmount" ELSE "ClearFsTag"
      [] st = "UNDO_SNAPSHOT_UPLOADING" -> IF o.tip = "MOUNTED" THEN "UnmountTip" ELSE "next"
      [] st = "UNDO_CREATING_PIT" -> IF req[v].pit THEN "DeletePiT" ELSE "next"
      [] st \in SnapshotStates ->
           IF ~Configured(o) THEN "error"
           ELSE CASE st = "CREATING_PIT" -> "Timestamp"
                  [] st = "SNAPSHOT_UPLOADING" -> IF o.tip = "MOUNTED" THEN "Upload" ELSE "MountTip"
                  [] OTHER -> "UnmountTip"
      [] st = "REALLOCATING_CACHE" -> "SaveProps"
      [] st = "UNDO_REALLOCATING_CACHE" -> IF req[v].saved = -1 THEN "next" ELSE "RestoreCache"

\* What a handler has in memory lasts while its request stays with agentd, and is lost
\* with a restart or a retry: the next dispatch loads the volume.
Dispatch(r) ==
    /\ At(r, "idle") /\ Active(r)
    /\ LET st == StateOf(r)
           fresh == op[r].vs = <<>>
           o == IF fresh THEN vs[VolOf(r)] ELSE op[r].vs
       IN /\ fresh => agent.ready /\ agent.loaded
          /\ SetOp(r, [Idle EXCEPT !.pc = Start(r, st, o), !.vs = o,
                          !.planned = op[r].planned \/ st \in {"SNAPSHOT_UPLOADING", "UNDO_SNAPSHOT_UPLOADING"}])
    /\ UNCHANGED <<vs, req, agent, guard, avail, nuvo, fs, dirty, since, odd, faults>>

\* The sub-state that follows an unconfigure: of its own, or within another handler.
Done(v) ==
    /\ At(v, "done")
    /\ Goto(v, IF op[v].ret = None THEN "next" ELSE op[v].ret)
    /\ UNCHANGED <<vs, req, agent, guard, avail, nuvo, fs, dirty, since, odd, faults>>

\* SetAndUpdateRequestState: the next state of the plan, or of its undo.  The mount of a
\* snapshot that is there when its request ends is left: the next has an id of its own.
NextState(r) ==
    /\ op[r].pc \in {"next", "error"}
    /\ LET q == req[r]
           v == VolOf(r)
           err == op[r].err \/ At(r, "error")
           undone == q.undo \/ err
           below == {j \in 1..q.i : UndoOf(Plan(q.kind)[j]) # None /\ (q.undo => j < q.i)}
           i == IF undone THEN IF below = {} \/ op[r].abort THEN 0 ELSE Max(below)
                ELSE IF q.i = Len(Plan(q.kind)) THEN 0 ELSE q.i + 1
           ends == i = 0 /\ r = v
           stays == i # 0 /\ "PLACEMENT" # Plan(q.kind)[i] /\ "PLACEMENT" # Plan(q.kind)[q.i]
       IN /\ req' = [req EXCEPT ![r] = IF i = 0 THEN [NoRequest EXCEPT !.n = q.n]
                                       ELSE [q EXCEPT !.i = i, !.undo = undone]]
          /\ SetOp(r, IF stays THEN [Idle EXCEPT !.vs = op[r].vs, !.planned = op[r].planned] ELSE Idle)
          /\ vs' = IF ends THEN [vs EXCEPT ![v].tip = None, ![v].left = @ \/ vs[v].tip # None] ELSE vs
          /\ nuvo' = IF ends THEN [nuvo EXCEPT !.tips = @ \ {v}, !.left = @ \cup (nuvo.tips \cap {v})] ELSE nuvo
    /\ UNCHANGED <<agent, guard, avail, fs, dirty, since, odd, faults>>

\* A call of the sub-state fails for good.
CallFails(r) ==
    /\ op[r].pc \in MayFail /\ faults < MaxFaults
    /\ faults' = faults + 1
    /\ Fail(r)
    /\ UNCHANGED <<vs, req, agent, guard, avail, nuvo, fs, dirty, since, odd>>

\* RetryLater: a temporary error, or an update that is not made.  Deferred calls leave the guard.
Interrupt(r) ==
    /\ op[r].pc \notin {"idle", "next", "error", "done"} /\ faults < MaxFaults
    /\ faults' = faults + 1
    /\ SetOp(r, Idle)
    /\ guard' = IF guard = r THEN None ELSE guard
    /\ UNCHANGED <<vs, req, agent, avail, nuvo, fs, dirty, since, odd>>

-----------------------------------------------------------------------------
(* VOLUME_CONFIG and its undo: configure.go *)

SetRootStorageID(v) ==
    /\ At(v, "SetRoot")
    /\ IF vs[v].root THEN Fail(v) /\ UNCHANGED vs
       ELSE Update(v, [vs[v] EXCEPT !.root = TRUE, !.tag = "creator"], "CreateLogVol")
    /\ UNCHANGED <<req, agent, guard, avail, nuvo, fs, dirty, since, odd, faults>>

\* A volume that exists is left to OpenVol.
CreateLogVol(v) ==
    /\ At(v, "CreateLogVol")
    /\ IF ~nuvo.init THEN Fail(v) /\ UNCHANGED <<nuvo, dirty, since>>
       ELSE IF v \in nuvo.exists THEN Goto(v, "OpenLogVol") /\ UNCHANGED <<nuvo, dirty, since>>
       ELSE /\ nuvo' = [nuvo EXCEPT !.exists = @ \cup {v}, !.open = @ \cup {v}]
            /\ dirty' = dirty \ {v} /\ since' = since \ {v}
            /\ Goto(v, "TagCreated")
    /\ UNCHANGED <<vs, req, agent, guard, avail, fs, odd, faults>>

TagCreated(v) ==
    /\ At(v, "TagCreated")
    /\ Update(v, [vs[v] EXCEPT !.tag = "created"], "SetConfigured")
    /\ UNCHANGED <<req, agent, guard, avail, nuvo, fs, dirty, since, odd, faults>>

OpenLogVol(v) ==
    /\ At(v, "OpenLogVol")
    /\ IF nuvo.init /\ v \in nuvo.exists
       THEN nuvo' = [nuvo EXCEPT !.open = @ \cup {v}] /\ Goto(v, "SetConfigured")
       ELSE Fail(v) /\ UNCHANGED nuvo
    /\ UNCHANGED <<vs, req, agent, guard, avail, fs, dirty, since, odd, faults>>

SetConfigured(v) ==
    /\ At(v, "SetConfigured")
    /\ Update(v, [vs[v] EXCEPT !.state = "CONFIGURED", !.node = TRUE], "next")
    /\ UNCHANGED <<req, agent, guard, avail, nuvo, fs, dirty, since, odd, faults>>

SetProvisioned(v) ==
    /\ At(v, "SetProvisioned")
    /\ Update(v, [vs[v] EXCEPT !.state = "PROVISIONED", !.node = FALSE], "CloseLogVol")
    /\ UNCHANGED <<req, agent, guard, avail, nuvo, fs, dirty, since, odd, faults>>

\* The storage process forgets the cache of a volume it closes; a volume that is exported stays open.
Closed(n, v) == [n EXCEPT !.open = @ \ {v}, !.cache[v] = 0]

CloseLogVol(v) ==
    /\ op[v].pc \in {"CloseLogVol", "CloseDelete"}
    /\ IF ~nuvo.init THEN SetOp(v, Idle) /\ UNCHANGED nuvo
       ELSE IF v \in nuvo.luns \cup nuvo.tips \cup nuvo.left
       THEN SetOp(v, [op[v] EXCEPT !.pc = "done", !.err = TRUE, !.abort = TRUE]) /\ UNCHANGED nuvo
       ELSE /\ nuvo' = Closed(nuvo, v)
            /\ Goto(v, IF At(v, "CloseLogVol") THEN "done" ELSE "DeleteLogVol")
    /\ UNCHANGED <<vs, req, agent, guard, avail, fs, dirty, since, odd, faults>>

DeleteLogVol(v) ==
    /\ At(v, "DeleteLogVol")
    /\ IF ~nuvo.init THEN SetOp(v, Idle) /\ UNCHANGED <<nuvo, dirty, since, odd>>
       ELSE /\ nuvo' = [nuvo EXCEPT !.exists = @ \ {v}]
            /\ dirty' = dirty \ {v} /\ since' = since \ {v}
            /\ odd' = [odd EXCEPT !.forgot = @ \ {v}]
            /\ Goto(v, "ResetRoot")
    /\ UNCHANGED <<vs, req, agent, guard, avail, fs, faults>>

ResetRootStorageID(v) ==
    /\ At(v, "ResetRoot")
    /\ Update(v, [vs[v] EXCEPT !.root = FALSE, !.fsn = FALSE, !.tag = None], "done")
    /\ UNCHANGED <<req, agent, guard, avail, nuvo, fs, dirty, since, odd, faults>>

\* The placement of the volume on storage: module Placement.
Place(v) ==
    /\ At(v, "Place")
    /\ Update(v, [vs[v] EXCEPT !.state = "PROVISIONED"], "next")
    /\ req' = [req EXCEPT ![v].placed = TRUE]
    /\ UNCHANGED <<agent, guard, avail, nuvo, fs, dirty, since, odd, faults>>

Unplace(v) ==
    /\ At(v, "Unplace")
    /\ Update(v, [vs[v] EXCEPT !.state = "BOUND"], "next")
    /\ UNCHANGED <<req, agent, guard, avail, nuvo, fs, dirty, since, odd, faults>>

-----------------------------------------------------------------------------
(* VOLUME_EXPORT: export.go *)

\* setMountState(MOUNTING)
SetMounting(v) ==
    /\ At(v, "SetMounting")
    /\ Update(v, [vs[v] EXCEPT !.head = "MOUNTING", !.state = "IN_USE", !.node = TRUE], "GetStat")
    /\ UNCHANGED <<req, agent, guard, avail, nuvo, fs, dirty, since, odd, faults>>

\* nuvoGetWriteStat: an error is ignored.
WriteStat(v) == IF nuvo.init /\ v \in nuvo.open THEN <<nuvo.series, nuvo.count[v]>> ELSE NoStat
GetStat(v) ==
    /\ op[v].pc \in {"GetStat", "GetStatCount"}
    /\ SetOp(v, [op[v] EXCEPT !.stats = WriteStat(v),
                              !.pc = IF At(v, "GetStat") THEN "ClaimCache" ELSE "SetUnmounted"])
    /\ UNCHANGED <<vs, req, agent, guard, avail, nuvo, fs, dirty, since, odd, faults>>

\* The claim and the call to the storage process; the objects follow.
SetCache(r, n, ret) ==
    /\ nuvo' = [nuvo EXCEPT !.cache[VolOf(r)] = n]
    /\ agent' = WithClaim(VolOf(r), n)
    /\ guard' = r
    /\ SetOp(r, [op[r] EXCEPT !.pc = "CacheNode", !.claim = n, !.ret = ret])
    /\ odd' = [odd EXCEPT !.given = @ \ {VolOf(r)}]

\* allocateCache
AllocateCache(v) ==
    /\ At(v, "ClaimCache")
    /\ LET n == Granted(v, Want[v], Least[v])
       IN IF op[v].vs.alloc # 0 \/ Want[v] = 0
          THEN Goto(v, "ExportLun") /\ UNCHANGED <<agent, guard, nuvo, odd>>
          ELSE /\ guard = None
               /\ IF n = -1 THEN Fail(v) /\ UNCHANGED <<agent, guard, nuvo, odd>>
                  ELSE IF ~nuvo.init \/ v \notin nuvo.open
                  THEN Fail(v) /\ agent' = WithClaim(v, 0) /\ UNCHANGED <<guard, nuvo, odd>>
                  ELSE SetCache(v, n, "ExportLun")
    /\ UNCHANGED <<vs, req, avail, fs, dirty, since, faults>>

\* UpdateNodeAvailableCache, then the allocation in the volume, and the guard is left.
CacheNode(r) ==
    /\ At(r, "CacheNode")
    /\ avail' = Free
    /\ Goto(r, "CacheVS")
    /\ UNCHANGED <<vs, req, agent, guard, nuvo, fs, dirty, since, odd, faults>>
CacheVS(r) ==
    /\ At(r, "CacheVS")
    /\ vs' = [vs EXCEPT ![VolOf(r)].alloc = op[r].claim]
    /\ SetOp(r, [op[r] EXCEPT !.vs = vs'[VolOf(r)], !.pc = op[r].ret, !.ret = None])
    /\ guard' = None
    /\ UNCHANGED <<req, agent, avail, nuvo, fs, dirty, since, odd, faults>>

ExportLun(v) ==
    /\ At(v, "ExportLun")
    /\ IF nuvo.init /\ v \in nuvo.open
       THEN nuvo' = [nuvo EXCEPT !.luns = @ \cup {v}] /\ Goto(v, "AddLUN")
       ELSE Fail(v) /\ UNCHANGED nuvo
    /\ UNCHANGED <<vs, req, agent, guard, avail, fs, dirty, since, odd, faults>>

\* AddLUN waits for a recovery that is running.
AddLUN(v) ==
    /\ At(v, "AddLUN") /\ agent.pc = "none"
    /\ agent' = [agent EXCEPT !.luns = @ \cup {v}]
    /\ Goto(v, "SetMounted")
    /\ UNCHANGED <<vs, req, guard, avail, nuvo, fs, dirty, since, odd, faults>>

\* setMountState(MOUNTED) resets the snapshot schedule of the volume.
SetMounted(v) ==
    /\ At(v, "SetMounted")
    /\ IF vs[v].head = None THEN Fail(v) /\ UNCHANGED <<vs, odd>>
       ELSE /\ Update(v, [vs[v] EXCEPT !.head = "MOUNTED", !.state = "IN_USE", !.node = TRUE, !.fsn = FALSE,
                                       !.stat = op[v].stats, !.lmd = NoStat, !.fsTag = FALSE], "next")
            /\ odd' = [odd EXCEPT !.forgot = IF vs[v].fsn THEN @ \cup ({v} \cap dirty) ELSE @]
    /\ UNCHANGED <<req, agent, guard, avail, nuvo, fs, dirty, since, faults>>

-----------------------------------------------------------------------------
(* UNDO_VOLUME_EXPORT: export.go *)

\* setMountState(ERROR), setMountState(UNMOUNTING)
SetUnmounting(v) ==
    /\ op[v].pc \in {"SetError", "SetUnmounting"}
    /\ IF vs[v].head = None THEN Fail(v) /\ UNCHANGED vs
       ELSE Update(v, [vs[v] EXCEPT !.head = "UNMOUNTING"], "UnexportLun")
    /\ UNCHANGED <<req, agent, guard, avail, nuvo, fs, dirty, since, odd, faults>>

\* A LUN that is not exported is not an error.
UnexportLun(v) ==
    /\ At(v, "UnexportLun")
    /\ IF nuvo.init THEN nuvo' = [nuvo EXCEPT !.luns = @ \ {v}] /\ Goto(v, "RemoveLUN")
       ELSE Fail(v) /\ UNCHANGED nuvo
    /\ UNCHANGED <<vs, req, agent, guard, avail, fs, dirty, since, odd, faults>>

RemoveLUN(v) ==
    /\ At(v, "RemoveLUN") /\ agent.pc = "none"
    /\ agent' = [agent EXCEPT !.luns = @ \ {v}]
    /\ Goto(v, "ReleaseCache")
    /\ UNCHANGED <<vs, req, guard, avail, nuvo, fs, dirty, since, odd, faults>>

ReleaseCache(v) ==
    /\ At(v, "ReleaseCache")
    /\ IF op[v].vs.alloc = 0 THEN Goto(v, "GetStatCount") /\ UNCHANGED <<agent, guard, nuvo, odd>>
       ELSE /\ guard = None
            /\ IF ~nuvo.init THEN Fail(v) /\ UNCHANGED <<agent, guard, nuvo, odd>>
               ELSE SetCache(v, 0, "GetStatCount")
    /\ UNCHANGED <<vs, req, avail, fs, dirty, since, faults>>

\* setMountState(UNMOUNTED), then an unconfigure when no final snapshot is needed.
\* What was written is told by the statistics recorded when the volume was mounted,
\* or when it was last snapshot.
NoWrites(o, stats) == stats # NoStat /\ stats = o.stat
SetUnmounted(v) ==
    /\ At(v, "SetUnmounted")
    /\ LET needed == ~NoWrites(op[v].vs, op[v].stats)
           gone == vs[v].head = None
           o == IF gone THEN vs[v]
                ELSE [vs[v] EXCEPT !.head = None, !.stat = NoStat, !.fsTag = FALSE, !.unexp = @ + 1,
                                   !.state = IF vs[v].tip = None /\ ~vs[v].left THEN "CONFIGURED" ELSE @,
                                   !.fsn = @ \/ needed]
       IN Update(v, o, IF o.state = "CONFIGURED" /\ ~Mounted(o) /\ ~needed
                       THEN StartUnconfigure(o, FALSE) ELSE "next")
    /\ UNCHANGED <<req, agent, guard, avail, nuvo, fs, dirty, since, odd, faults>>

-----------------------------------------------------------------------------
(* REALLOCATING_CACHE of CHANGE_CAPACITY and its undo: export.go *)

SaveProps(r) ==
    /\ At(r, "SaveProps")
    /\ req' = [req EXCEPT ![r].saved = IF @ = -1 THEN op[r].vs.alloc ELSE @]
    /\ Goto(r, "UpdateCache")
    /\ UNCHANGED <<vs, agent, guard, avail, nuvo, fs, dirty, since, odd, faults>>

\* updateCache: nothing is left to do when the LUN is gone.  A claim is increased
\* before the storage process is told and decreased after.
UpdateCache(r) ==
    /\ At(r, "UpdateCache") /\ guard = None /\ agent.pc = "none"
    /\ LET v == VolOf(r)
           n == IF NewWant[v] > agent.claims[v] THEN Granted(v, NewWant[v], Least[v])
                ELSE Round(NewWant[v], FALSE)
       IN IF v \notin agent.luns THEN Goto(r, "next") /\ UNCHANGED <<agent, guard, nuvo, odd>>
          ELSE IF n = -1 \/ ~nuvo.init \/ v \notin nuvo.open
          THEN Fail(r) /\ UNCHANGED <<agent, guard, nuvo, odd>>
          ELSE SetCache(r, n, "next")
    /\ UNCHANGED <<vs, req, avail, fs, dirty, since, faults>>

\* restoreCache: the undo is aborted when the cache cannot be had again.
RestoreCache(r) ==
    /\ At(r, "RestoreCache") /\ guard = None
    /\ LET v == VolOf(r)
           saved == req[r].saved
           n == IF saved > agent.claims[v] THEN Granted(v, saved, saved) ELSE saved
       IN IF n = -1 \/ ~nuvo.init \/ v \notin nuvo.open
          THEN /\ SetOp(r, [op[r] EXCEPT !.pc = "next", !.err = TRUE, !.abort = TRUE])
               /\ UNCHANGED <<agent, guard, nuvo, odd>>
          ELSE SetCache(r, n, "next")
    /\ UNCHANGED <<vs, req, avail, fs, dirty, since, faults>>

-----------------------------------------------------------------------------
(* ATTACH_FS and DETACH_FS: attach_fs.go *)

DoMount(v) ==
    /\ At(v, "DoMount")
    /\ IF v \in nuvo.luns THEN fs' = fs \cup {v} /\ Goto(v, "SetFsTag")
       ELSE Fail(v) /\ UNCHANGED fs
    /\ UNCHANGED <<vs, req, agent, guard, avail, nuvo, dirty, since, odd, faults>>
DoUnmount(v) ==
    /\ At(v, "DoUnmount")
    /\ fs' = fs \ {v} /\ Goto(v, "ClearFsTag")
    /\ UNCHANGED <<vs, req, agent, guard, avail, nuvo, dirty, since, odd, faults>>
SetFsTag(v) ==
    /\ At(v, "SetFsTag")
    /\ Update(v, [vs[v] EXCEPT !.fsTag = TRUE], "next")
    /\ UNCHANGED <<req, agent, guard, avail, nuvo, fs, dirty, since, odd, faults>>
ClearFsTag(v) ==
    /\ At(v, "ClearFsTag")
    /\ Update(v, [vs[v] EXCEPT !.fsTag = FALSE], "next")
    /\ UNCHANGED <<req, agent, guard, avail, nuvo, fs, dirty, since, odd, faults>>

-----------------------------------------------------------------------------
(* The volume in VOL_SNAPSHOT_CREATE: vol_snap_create.go (its barriers: module Snapshot) *)

\* timestampPiT remembers when the HEAD was last unexported.
TimestampPiT(v) ==
    /\ At(v, "Timestamp")
    /\ req' = [req EXCEPT ![v].unexp = op[v].vs.unexp]
    /\ Goto(v, "CreatePiT")
    /\ UNCHANGED <<vs, agent, guard, avail, nuvo, fs, dirty, since, odd, faults>>

\* A redispatch creates the point-in-time again: the storage process may refuse it.
CreatePiT(v) ==
    /\ At(v, "CreatePiT")
    /\ \/ /\ nuvo.init /\ v \in nuvo.open
          /\ req' = [req EXCEPT ![v].pit = TRUE]
          /\ since' = IF req[v].pit THEN since ELSE since \ {v}
          /\ Goto(v, "PiTStat")
       \/ /\ ~nuvo.init \/ v \notin nuvo.open \/ req[v].pit
          /\ Fail(v) /\ UNCHANGED <<req, since>>
    /\ UNCHANGED <<vs, agent, guard, avail, nuvo, fs, dirty, odd, faults>>

\* nuvoGetWriteStat: an error is ignored here, too.
PiTStat(v) ==
    /\ At(v, "PiTStat")
    /\ req' = [req EXCEPT ![v].stat = IF WriteStat(v) = NoStat THEN @ ELSE WriteStat(v)]
    /\ Goto(v, "next")
    /\ UNCHANGED <<vs, agent, guard, avail, nuvo, fs, dirty, since, odd, faults>>
StatFails(v) ==
    /\ op[v].pc \in {"GetStat", "GetStatCount", "PiTStat"} /\ faults < MaxFaults
    /\ faults' = faults + 1
    /\ Goto(v, CASE At(v, "GetStat") -> "ClaimCache" [] At(v, "GetStatCount") -> "SetUnmounted"
                 [] OTHER -> "next")
    /\ UNCHANGED <<vs, req, agent, guard, avail, nuvo, fs, dirty, since, odd>>

\* exportTip: Export with the snapshot, which is neither cached nor written.
MountTip(v) ==
    /\ At(v, "MountTip")
    /\ Update(v, [vs[v] EXCEPT !.tip = "MOUNTING", !.state = "IN_USE", !.node = TRUE], "ExportTip")
    /\ UNCHANGED <<req, agent, guard, avail, nuvo, fs, dirty, since, odd, faults>>
ExportTip(v) ==
    /\ At(v, "ExportTip")
    /\ IF nuvo.init /\ v \in nuvo.open
       THEN nuvo' = [nuvo EXCEPT !.tips = @ \cup {v}] /\ Goto(v, "TipMounted")
       ELSE Fail(v) /\ UNCHANGED nuvo
    /\ UNCHANGED <<vs, req, agent, guard, avail, fs, dirty, since, odd, faults>>
TipMounted(v) ==
    /\ At(v, "TipMounted")
    /\ IF vs[v].tip = None THEN Fail(v) /\ UNCHANGED vs
       ELSE Update(v, [vs[v] EXCEPT !.tip = "MOUNTED", !.state = "IN_USE"], "Upload")
    /\ UNCHANGED <<req, agent, guard, avail, nuvo, fs, dirty, since, odd, faults>>

\* psUpload: without statistics of its own the snapshot has those of the one before.
Upload(v) ==
    /\ At(v, "Upload")
    /\ IF v \in nuvo.tips
       THEN /\ req' = [req EXCEPT ![v].stat = IF @ = NoStat THEN op[v].vs.lmd ELSE @]
            /\ Goto(v, "next")
       ELSE Fail(v) /\ UNCHANGED req
    /\ UNCHANGED <<vs, agent, guard, avail, nuvo, fs, dirty, since, odd, faults>>

\* unexportTip: UndoExport with the snapshot; its errors are ignored.  Only planCopy
\* tells the handler which snapshot: one that is dispatched in FINALIZING_SNAPSHOT knows none.
AfterTip(v) == IF req[v].undo THEN "next" ELSE "SnapObject"
UnmountTip(v) ==
    /\ At(v, "UnmountTip")
    /\ IF op[v].planned /\ op[v].vs.tip # None /\ vs[v].tip # None
       THEN Update(v, [vs[v] EXCEPT !.tip = "UNMOUNTING"], "UnexportTip")
       ELSE Goto(v, AfterTip(v)) /\ UNCHANGED vs
    /\ UNCHANGED <<req, agent, guard, avail, nuvo, fs, dirty, since, odd, faults>>
UnexportTip(v) ==
    /\ At(v, "UnexportTip")
    /\ IF nuvo.init
       THEN LET none == vs[v].head = None /\ vs[v].tip # None /\ ~vs[v].left
                o == [vs[v] EXCEPT !.tip = None, !.state = IF none THEN "CONFIGURED" ELSE @]
            IN /\ nuvo' = [nuvo EXCEPT !.tips = @ \ {v}]
               /\ vs' = [vs EXCEPT ![v] = o]
               /\ SetOp(v, [op[v] EXCEPT !.vs = o, !.ret = AfterTip(v),
                              !.pc = IF o.state = "CONFIGURED" /\ ~Mounted(o)
                                     THEN StartUnconfigure(o, FALSE) ELSE AfterTip(v)])
       ELSE Goto(v, AfterTip(v)) /\ UNCHANGED <<vs, nuvo>>
    /\ UNCHANGED <<req, agent, guard, avail, fs, dirty, since, odd, faults>>

DeletePiT(v) ==
    /\ At(v, "DeletePiT")
    /\ IF nuvo.init /\ v \in nuvo.open THEN req' = [req EXCEPT ![v].pit = FALSE] /\ Goto(v, "next")
       ELSE Fail(v) /\ UNCHANGED req
    /\ since' = IF v \in dirty THEN since \cup {v} ELSE since
    /\ UNCHANGED <<vs, agent, guard, avail, nuvo, fs, dirty, odd, faults>>

\* createSnapshotObject: what was written before the point-in-time is safe.
CreateSnapshotObject(v) ==
    /\ At(v, "SnapObject")
    /\ dirty' = IF v \in since THEN dirty ELSE dirty \ {v}
    /\ odd' = [odd EXCEPT !.forgot = @ \cap dirty']
    /\ SetOp(v, [op[v] EXCEPT !.pc = "FinalizeData", !.ret = None, !.err = FALSE])
    /\ UNCHANGED <<vs, req, agent, guard, avail, nuvo, fs, since, faults>>

\* Mutant: an unexport of the HEAD in the meantime is not noticed.
FinalizeSnapshotData_Always(v) ==
    /\ At(v, "FinalizeData") /\ guard = None
    /\ Update(v, [vs[v] EXCEPT !.stat = req[v].stat, !.lmd = req[v].stat, !.fsn = FALSE], "next")
    /\ UNCHANGED <<req, agent, guard, avail, nuvo, fs, dirty, since, odd, faults>>

\* finalizeSnapshotDataInVolume: FinalSnapshotNeeded is cleared unless the HEAD was
\* unexported since the request took its time stamp.
FinalizeSnapshotData(v) ==
    /\ At(v, "FinalizeData") /\ guard = None
    /\ Update(v, [vs[v] EXCEPT !.stat = req[v].stat, !.lmd = req[v].stat,
                               !.fsn = @ /\ vs[v].unexp # req[v].unexp], "next")
    /\ UNCHANGED <<req, agent, guard, avail, nuvo, fs, dirty, since, odd, faults>>

-----------------------------------------------------------------------------
(* Restarts and recovery: InitializeNuvo of appctx.go, recover.go, hb.go *)

AgentRestart ==
    /\ "agentd" \in Restarts /\ faults < MaxFaults /\ faults' = faults + 1
    /\ agent' = [ready |-> FALSE, first |-> TRUE, pc |-> "start", todo |-> {}, loaded |-> FALSE,
                 claims |-> [v \in Vol |-> 0], luns |-> {}]
    /\ op' = [r \in Slot |-> Idle] /\ guard' = None
    /\ UNCHANGED <<vs, req, avail, nuvo, fs, dirty, since, odd>>

\* The storage process loses what is open and exported; statistics start a new series.
InHand(v) == \E r \in {v, Resize[v]} : op[r].vs # <<>>
NuvoRestart ==
    /\ "nuvo" \in Restarts /\ faults < MaxFaults /\ faults' = faults + 1
    /\ nuvo' = [nuvo EXCEPT !.init = FALSE, !.open = {}, !.luns = {}, !.tips = {}, !.left = {},
                            !.cache = [v \in Vol |-> 0], !.series = @ + 1, !.count = [v \in Vol |-> 0]]
    /\ fs' = {}
    /\ odd' = [odd EXCEPT !.crossed = @ \cup {v \in Vol : InHand(v)}]
    /\ UNCHANGED <<vs, req, op, agent, guard, avail, dirty, since>>

\* Mutant: agentd is not ready, and nothing starts the recovery.
PingNuvo_NoRecovery ==
    /\ agent.ready /\ ~nuvo.init
    /\ agent' = [agent EXCEPT !.ready = FALSE]
    /\ UNCHANGED <<vs, req, op, guard, avail, nuvo, fs, dirty, since, odd, faults>>

\* pingNuvo: the storage process does not know the node.
PingNuvo ==
    /\ agent.ready /\ ~nuvo.init
    /\ agent' = [agent EXCEPT !.ready = FALSE, !.pc = "start"]
    /\ UNCHANGED <<vs, req, op, guard, avail, nuvo, fs, dirty, since, odd, faults>>

Local == {v \in Vol : vs[v].node}

\* Mutant: a restart of the storage process under a running agentd purges nothing.
BeginRecovery_AgentOnly ==
    /\ agent.pc = "start"
    /\ agent' = IF ~agent.first \/ (nuvo.init /\ nuvo.open # {})
                THEN [agent EXCEPT !.pc = "init", !.todo = {}]
                ELSE [agent EXCEPT !.pc = "purge", !.todo = Local]
    /\ UNCHANGED <<vs, req, op, guard, avail, nuvo, fs, dirty, since, odd, faults>>

\* CheckNuvoVolumes when agentd starts, NoVolumesInUse when it has been running.
BeginRecovery ==
    /\ agent.pc = "start"
    /\ agent' = IF agent.first /\ nuvo.init /\ nuvo.open # {}
                THEN [agent EXCEPT !.pc = "init", !.todo = {}]
                ELSE [agent EXCEPT !.pc = "purge", !.todo = Local]
    /\ UNCHANGED <<vs, req, op, guard, avail, nuvo, fs, dirty, since, odd, faults>>

\* removeLocalMounts; cache is released whenever a mount is removed.
Removed(o, onlySnap) ==
    LET left == [o EXCEPT !.tip = None, !.left = FALSE, !.head = IF onlySnap THEN @ ELSE None]
        crashed == ~onlySnap /\ o.head # None
        p == IF crashed THEN [left EXCEPT !.fsn = TRUE, !.unexp = @ + 1, !.stat = NoStat, !.fsTag = FALSE]
             ELSE left
    IN IF Mounted(p) THEN p
       ELSE [p EXCEPT !.state = IF onlySnap THEN "CONFIGURED" ELSE "PROVISIONED", !.node = FALSE]
RemoveLocalMounts(v, onlySnap) ==
    LET o == Removed(vs[v], onlySnap)
        skip == \/ ~Configured(vs[v]) \/ (onlySnap /\ vs[v].state = "CONFIGURED")
                \/ (Mounted(o) /\ o = vs[v])
        free == ~skip /\ vs[v].alloc # 0
        held == ~skip /\ InHand(v)
        a == [agent EXCEPT !.todo = @ \ {v}, !.claims[v] = IF free THEN 0 ELSE @]
    IN /\ vs' = [vs EXCEPT ![v] = IF skip THEN @ ELSE [o EXCEPT !.alloc = 0]]
       /\ agent' = a
       /\ odd' = [odd EXCEPT !.given = IF free /\ v \in nuvo.open THEN @ \cup {v} ELSE @,
                              !.crossed = IF held THEN @ \cup {v} ELSE @]
       /\ avail' = IF free THEN Free + agent.claims[v] ELSE avail

\* NoVolumesInUse, for one volume.
PurgeVolume(v) ==
    /\ agent.pc = "purge" /\ v \in agent.todo
    /\ RemoveLocalMounts(v, FALSE)
    /\ UNCHANGED <<req, op, guard, nuvo, fs, dirty, since, faults>>

\* NoVolumesInUse ends; UseNodeUUID.
UseNodeUUID ==
    /\ agent.pc \in {"purge", "init"} /\ agent.todo = {}
    /\ nuvo' = [nuvo EXCEPT !.init = TRUE]
    /\ agent' = IF agent.first
                THEN [agent EXCEPT !.pc = "recover", !.todo = {v \in Local : vs[v].state # "CONFIGURED"}]
                ELSE [agent EXCEPT !.pc = "ready", !.luns = {}]
    /\ UNCHANGED <<vs, req, op, guard, avail, fs, dirty, since, odd, faults>>

\* RecoverVolumesInUse, for one volume.
RecoverVolume(v) ==
    /\ agent.pc = "recover" /\ v \in agent.todo
    /\ LET snaps == vs[v].tip # None \/ vs[v].left
       IN IF ~nuvo.init /\ snaps
          THEN agent' = [agent EXCEPT !.pc = "start", !.todo = {}] /\ UNCHANGED <<vs, avail, nuvo, odd>>
          ELSE IF ~snaps
          THEN agent' = [agent EXCEPT !.todo = @ \ {v}] /\ UNCHANGED <<vs, avail, nuvo, odd>>
          ELSE /\ nuvo' = [nuvo EXCEPT !.tips = @ \ {v}, !.left = @ \ {v}]
               /\ RemoveLocalMounts(v, TRUE)
    /\ UNCHANGED <<req, op, guard, fs, dirty, since, faults>>

Ready ==
    /\ agent.pc \in {"recover", "ready"} /\ agent.todo = {}
    /\ agent' = IF ~nuvo.init THEN [agent EXCEPT !.pc = "start"]
                ELSE [agent EXCEPT !.ready = TRUE, !.first = FALSE, !.pc = "none",
                                   !.luns = IF agent.pc = "recover"
                                            THEN {v \in Local : vs[v].head # None} ELSE @]
    /\ UNCHANGED <<vs, req, op, guard, avail, nuvo, fs, dirty, since, odd, faults>>

\* An application writes; IO is paused while a point-in-time is created.
Write(v) ==
    /\ v \in nuvo.luns /\ vs[v].head = "MOUNTED" /\ nuvo.count[v] < MaxWrites
    /\ ~(Active(v) /\ StateOf(v) = "CREATING_PIT")
    /\ nuvo' = [nuvo EXCEPT !.count[v] = @ + 1]
    /\ dirty' = dirty \cup {v} /\ since' = since \cup {v}
    /\ odd' = [odd EXCEPT !.forgot = @ \ {v}]
    /\ UNCHANGED <<vs, req, op, agent, guard, avail, fs, faults>>

-----------------------------------------------------------------------------

Handler(r) ==
    \/ Dispatch(r) \/ NextState(r)
    \/ SaveProps(r) \/ UpdateCache(r) \/ RestoreCache(r) \/ CacheNode(r) \/ CacheVS(r)
    \/ Place(r) \/ Unplace(r)
    \/ SetRootStorageID(r) \/ CreateLogVol(r) \/ TagCreated(r) \/ OpenLogVol(r) \/ SetConfigured(r)
    \/ SetProvisioned(r) \/ CloseLogVol(r) \/ DeleteLogVol(r) \/ ResetRootStorageID(r) \/ Done(r)
    \/ SetMounting(r) \/ GetStat(r) \/ AllocateCache(r) \/ ExportLun(r) \/ AddLUN(r) \/ SetMounted(r)
    \/ SetUnmounting(r) \/ UnexportLun(r) \/ RemoveLUN(r) \/ ReleaseCache(r) \/ SetUnmounted(r)
    \/ DoMount(r) \/ DoUnmount(r) \/ SetFsTag(r) \/ ClearFsTag(r)
    \/ TimestampPiT(r) \/ CreatePiT(r) \/ PiTStat(r)
    \/ MountTip(r) \/ ExportTip(r) \/ TipMounted(r) \/ Upload(r)
    \/ UnmountTip(r) \/ UnexportTip(r) \/ DeletePiT(r) \/ CreateSnapshotObject(r) \/ FinalizeSnapshotData(r)

Recovery ==
    \/ PingNuvo \/ BeginRecovery \/ UseNodeUUID \/ Ready
    \/ \E v \in Vol : PurgeVolume(v) \/ RecoverVolume(v)

Next ==
    \/ Reload \/ Recovery \/ AgentRestart \/ NuvoRestart
    \/ \E r \in Slot : Handler(r) \/ CallFails(r) \/ StatFails(r) \/ Interrupt(r)
    \/ \E v \in Vol : Write(v) \/ \E kind \in Kinds : Request(v, kind)

\* The animator and the heartbeat run again and again.
Fairness ==
    /\ WF_useVars(Reload) /\ WF_useVars(Recovery)
    /\ \A r \in Slot : WF_useVars(Handler(r))
Spec == Init /\ [][Next]_useVars /\ Fairness

-----------------------------------------------------------------------------
(* Properties *)

\* A volume that is not mounted, with data that is in no snapshot, says that a final
\* snapshot is needed: otherwise it may be unbound, or mounted elsewhere, and the data
\* is lost.  FinalSnapshotNeeded of setMountState, removeLocalMounts and
\* finalizeSnapshotDataInVolume.  The exception is the code's: nothing keeps a MOUNT from
\* a volume whose final snapshot is still to be taken, setMountState then clears the
\* flag, and an unmount before anything else is written does not set it again.
FinalSnapshot ==
    \A v \in Vol : vs[v].head = None /\ v \in dirty => vs[v].fsn \/ v \in odd.forgot

\* When no request is active and agentd has recovered, the objects tell what the
\* storage process has: a mounted HEAD is exported, and only that; a snapshot that is
\* exported is in the object, as one is that a redispatched FINALIZING_SNAPSHOT has left
\* mounted; a configured volume is open; a filesystem that is mounted is known to be.
\* The exception is the code's: a recovery does not wait for the handlers at work, and one
\* of them may go on with a volume as it was before, and write that it is configured.
Quiet == agent.ready /\ agent.loaded /\ nuvo.init /\ \A r \in Slot : ~Active(r)
ObjectsAreTrue ==
    Quiet => \A v \in Vol :
        /\ vs[v].head = "MOUNTED" => v \in nuvo.luns \cap agent.luns
        /\ v \in nuvo.luns => vs[v].head # None
        /\ v \in nuvo.left => vs[v].left
        /\ Configured(vs[v]) => v \in nuvo.open \cup odd.crossed
        /\ v \in fs => vs[v].fsTag

\* Then, too, the cache accounts of volumes and storage process agree, and no more is
\* allocated than there is: allocateCache, updateCache, restoreCache and releaseCache.
\* The exceptions are the code's: removeLocalMounts takes the cache from a volume without
\* a word to the storage process, also when the HEAD stays exported (agentd finds a
\* snapshot mounted when it starts), and without the LMDGuard, so that a handler at work
\* may write an allocation that the storage process no longer knows.
CacheAccounts ==
    Quiet => /\ \A v \in Vol \ (odd.given \cup odd.crossed) : Configured(vs[v]) => nuvo.cache[v] = vs[v].alloc
             /\ odd.given \cup odd.crossed = {} => FoldSet(LAMBDA v, s : s + nuvo.cache[v], 0, Vol) <= TotalCache

\* Every request ends, whatever restarts: RetryLater and recovery.
AllEnded == \A r \in Slot : ~Active(r)

=============================================================================
