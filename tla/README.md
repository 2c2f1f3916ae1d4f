# A TLA+ verification of the Nuvoloso controller

The Nuvoloso controller manages virtual volumes for applications that run in
Kubernetes clusters. Its daemons cooperate through objects in a central
database: nobody calls anybody to get work done; a daemon finds an object in a
state it has the handler of, does the work, and writes the next state. What
makes the system correct is therefore the discipline of these state changes,
under concurrent updates, cancels, timeouts, errors and restarts. This project
models that discipline, checks it with TLC and proves parts of it with TLAPS.

Paths below are relative to `src/`; "VSR" is a VolumeSeriesRequest, "SR" a
StorageRequest, "SPA" a ServicePlanAllocation, "PiT" a point in time.

Sections: 1 inventory, 2 modules, 3 runs, 4 disagreements with the code's own
documentation, 5 what does not hold and is not claimed, 6 proofs, 7 what is only
model-checked, 8 plan, 9 not modelled.

## 1. Inventory

### Processes

| process | role |
|---|---|
| `centrald` | one per installation: REST API, database, capacity, creation and deletion of objects, cloud volumes |
| `clusterd` | one per cluster: sizes and places volumes on storage, publishes them, takes consistency-group snapshots |
| `agentd` | one per node: configures, exports and snapshots volumes through the storage process ("nuvo"), formats storage |
| `mongo` and its sidecar | the database |
| `copy` | a program that agentd runs to move a snapshot to or from a protection store |

### Components

| component | state it keeps | operations | correct if |
|---|---|---|---|
| **VSR animator** (`pkg/vra/animator.go`, `request.go`, `states.go`) | the VSR (version, state, `cancelRequested`, `completeByTime`), per daemon `activeRequests`, `doneRequests`, one `RequestHandlerState` per goroutine | list, dispatch, compute forward and undo states, write each state before its handler, undo in reverse, hand over by leaving | a request ends, succeeds only with every step done, leaves nothing behind when it fails, is animated by one daemon at a time |
| **request synchronization** (`pkg/vra/sync.go`) | a `syncPeers` record per participant in a coordinator VSR; `origGen` in memory | `Synchronize`, `SyncAbort`, event callback | nobody passes a phase others have not reached; all get through if nothing fails |
| **object updater** (`pkg/mgmtclient/crud/updater.go`) | none | fetch, modify, write the fetched version, repeat on conflict | no update is lost |
| **critical section guard** (`pkg/util/cs.go`) | queue of identifiers, flag | `Enter`, `Leave`, `Drain` | mutual exclusion, first come first served, every call returns |
| **capacity accounting** (`pkg/centrald/vreq/allocate_capacity.go`, `bind.go`) | SPA, pools, authorized accounts, volume | ALLOCATE_CAPACITY, DELETE_SPA, BIND, UNBIND, CHANGE_CAPACITY | capacity is conserved between pools, SPA and volumes; no reservation mark is left |
| **cluster state and placement** (`pkg/clusterd/state`, `pkg/clusterd/vreq`) | cache of storage, claims on SRs under way | reload, release of unused storage, SIZE, PLACE, undo | storage in use is kept, claims hold, parcels are accounted for |
| **StorageRequest animators** (`pkg/centrald/sreq`, `pkg/agentd/sreq`) | SR, Storage, cloud volume | PROVISION, ATTACH, FORMAT, USE, CLOSE, REATTACH, DETACH, RELEASE | no cloud volume is leaked; two requests never work on one Storage; success is real |
| **cloud plugins** (`pkg/csp`) | cloud volume, tags, device names | attach, detach, delete, tags | what they answer is so |
| **snapshots** (`pkg/clusterd/vreq/cg_snap_create.go`, `pkg/agentd/vreq/vol_snap_create.go`) | group request, subordinates, PiTs, Snapshot objects | four synchronized phases per volume | the snapshots of a group keep the order of writes |
| **copy engine** (`cmd/copy`, `pkg/endpoint`, `pkg/metadata`, `pkg/pstore`) | chunks, metadata files | backup, restore | what is recorded can be restored |
| **volume use on a node** (`pkg/agentd/vreq`, `pkg/agentd/state`) | mounts, LUNs, file systems, cache claims | CONFIGURE, MOUNT, ATTACH_FS, UNMOUNT, recovery | objects tell what the storage process has; no written data is forgotten |
| **volume creation, deletion, RENAME** (`pkg/centrald/vreq/create.go`, `rename.go`) | volume, its groups | CREATE, DELETE, RENAME | whole or not at all |
| **node delete** (`pkg/centrald/vreq/node_delete.go`, `vol_detach.go`) | Node, NODE_DELETE, VOL_DETACH subordinates | drain, cancel, detach storage, detach volumes | volumes are given up after storage; the node is deleted in the end |
| **heartbeats** (`pkg/*/heartbeat`, `pkg/housekeeping`) | Cluster, Node, tasks | claim, beat, time out, tear down | one orchestrator cluster per Cluster object; a torn-down node stays so |
| **CRUD events** (`pkg/crude`) and the loops they wake | watchers, queues, notification channels | monitor, watch, terminate | no wake-up is lost for good |
| **API handlers** (`pkg/centrald/handlers`) | 17 object types | create, update, delete with locks and checks | references do not dangle |
| **data store** (`pkg/centrald/mongods`) | 17 collections | create, fetch, list, update, delete | an update does what it was asked, to the version it names |
| snapper, unbinder, purge, metric mover, drivers, clients, tools | | | section 9 |

### Interactions

    client --create/cancel--> API handlers --> data store <--update/list-- animators
                                                  |                        |  ^
                                                  +---CRUD events----------+  |
                                                  |                           |
                                                  +---syncPeers--- barrier <--+ (handlers)
                                                  +---StorageRequests <-------+ (placement)
                          handlers --Enter/Leave--> critical section guards
                          StorageRequests --calls--> cloud plugins
                          snapshot handlers --run--> copy program
                          heartbeats --launch--> NODE_DELETE --launch--> VOL_DETACH

What is hard is the same everywhere: a copy of an object that is out of date when
it is used, an update that loses to another, a daemon that restarts between two
writes, a call whose answer is lost, a cancel or a deadline at the wrong moment.
The hazards of this code, each at its line, are listed under `hazards` in
`PROJECT.json` with the properties that would reveal them.

## 2. Modules

| module | models | its state and actions |
|---|---|---|
| `RequestSync` | `vra/sync.go` with the updater and the environment | the coordinator object and a participant's `Synchronize`, one action per step of it |
| `VsrStates` | the tables of `states.go`, the lists of states that `requestAnimator` computes | constant operators |
| `VsrAnimator` | run loop, dispatch, state machine, updates, outcomes of handlers | one request and three daemons; a handler is what it reports |
| `CriticalSection` | `util/cs.go` | one action per stretch under the mutex |
| `Capacity` | ALLOCATE_CAPACITY, DELETE_SPA, BIND, UNBIND, CHANGE_CAPACITY | SPA, pools, volume, accounts; a step is one API call with the checks of its handler |
| `Placement` | SIZE, PLACE and their undo, the deletion of a volume, `clusterd/state` | the cache, the claims, the run loop's pass; each write of an object is an action |
| `StorageRequest` | both SR animators with their handlers | the SR, the Storage, the cloud volume, a goroutine per daemon and request |
| `StorageRequestInv` | the inductive invariant of `StorageRequest` | no state of its own: the layers of the invariant and the relations that its proof groups the actions by |
| `StorageLife` | what an SR promises: the stages of a piece of storage | abstract specification that `StorageRequest` implements |
| `CspVolume` | attach, detach, delete and tags of the AWS, Azure and GCE plugins | the call in the plugin and its effect in the cloud apart |
| `Snapshot` | CG_SNAPSHOT_CREATE and VOL_SNAPSHOT_CREATE | a request per volume, its handler in memory, the volume with its PiT and uploaded data |
| `CopyEngine` | the copy program, its end points, metadata and the operations that run it | differ, workers, collector; chunks are small numbers |
| `VolumeUse` | configure, export, file system, cache and recovery on a node | the volume object, the handler's copy of it, the storage process |
| `VolumeCreate`, `Rename` | CREATE and DELETE; RENAME | one action per API call; the tags and names by which a handler finds out what has been done |
| `NodeDelete` | NODE_DELETE with its VOL_DETACH subordinates and the requests of a lost node | the handler's sub-states, the subordinates, the other requests |
| `Heartbeat` | heartbeats of agentd and clusterd, consolidated tasks, timeouts, teardown | processes that take their turn in each period |
| `Crude` | upstream monitor, watchers, queues, the loops that are notified | one object and its versions |
| `ApiObjects`, `ApiTables` | the object handlers and their locks; `ApiTables` is what each of the 17 handlers validates, under which lock | goroutines of the API server |
| `Documents`, `DocTables` | the data store; `DocTables` is what each collection stores | clients that read, change and write |
| `*Proofs` | theorems | section 6 |
| `MC*` | instances for TLC | section 3 |

The modules meet where the components do. `RequestSync` has the details of the
barrier that `Snapshot` and `NodeDelete` use as a guarantee; `StorageRequest` is
reduced in `Placement` to what a placement sees of it, and takes the operations
of `CspVolume` for atomic (`PluginKeepsItsWord` is what it relies on there);
`CopyEngine` is the upload of `Snapshot`; `ApiObjects` justifies that a VSR finds
the objects it refers to; `Heartbeat` launches what `NodeDelete` models.

Notes on faithfulness:

*RequestSync.* `modifyCoordinator` returns the set of possible outcomes: there may
be two, since the code stops its scan of a Go map, whose order is not defined, at
the first peer out of step. `origGen` is set whether or not the write succeeds,
as in the code. Notifications may be late or coalesced and none needs to arrive.

*VsrAnimator.* `Steps(ops, vol)` is the plan in the order of the code: every
`if hasX { ... }` block is a row with its forward and its undo state. Updates are
split like those of the code (compute, then write), since a cancel may come in
between. A handler that fails or is interrupted by a restart counts as having had
its effect: the worst case for compensation.

*Handlers* (`Capacity`, `Placement`, `Snapshot`, `VolumeUse`, `VolumeCreate`,
`NodeDelete`). What a handler has in memory is a variable of its own (`op`,
`sop`, ...) that is lost when the daemon restarts, and decisions are made with
the copy of an object that the handler has, not with the object. A failed call,
a lost answer and a restart count against one bound, which each `.cfg` names.

*Data.* Capacities are small numbers, chunks and names members of small sets,
a document has one field of each kind, since the code treats fields of one kind
alike. Messages, formatting and the contents of audit records are left out.

## 3. What TLC checks

Six runs are of one module each. The other five put modules that have nothing to
do with one another side by side: `MCProgress`, `MCCapacity`, `MCDaemons`,
`MCData` and `MCStorage` extend one module and instantiate the others on the
variables `x1`, `x2`, ... The variable `part` is chosen in the initial state and never
changes; in a behaviour of one part the variables of the others do not move. A
property of such a run is an implication of `part`, and its fairness is that of
the parts' own `Fairness`, restricted to their behaviours.

| run | instance | properties | shows |
|---|---|---|---|
| `sync_barrier` | 2 participants, 2 phases, 1 foreign update, 1 restart; cancels, deadline, errors, lost replies; `TimelySpec` | `BarrierHolds`, `NoOvertaking`, `AllStop` | nobody passes a barrier some participant has not reached, nor overtakes one that waits; everybody stops by the deadline |
| `vsr_requests` | 11 lists of operations, 1 retry (2 for those that place storage), 1 fault, timeout; 3 of them canceled | `Compensated`, `SuccessIsComplete`, `UndoInReverse`, `OneAnimator`, `OrderAdvances` | what failed is undone in reverse order, what succeeded is complete, one daemon animates |
| `storage_life` | 3 SRs of 5 kinds, 1 Storage, 2 volumes, 2 nodes; 2 faults, 2 restarts, 1 deadline, 4 events together; or 3 SRs of 4 kinds after which storage is attached and unused, with deadlines only | `OrphansAreTagged`, `OneRequestPerStorage`, `ProvisionedIsOwned`, `SuccessIsReal`, `ImplementsLife` | storage goes through the stages of `StorageLife` only, that of an overtaken REATTACH excepted |
| `placement_claims` | 2 volumes placed at the same time, 1 deleted; 2 disks, 2 SRs, shared or not, 1 fault: any call, SR or a restart | `CapacityAccounted`, `UsedStorageIsKept`, `ClaimsHold` | no parcel is lost or given twice |
| `api_refs` | 2 callers, every pair of types one of which protects the other | `RefsResolve`, `DeletesOnlyTerminated` | references do not dangle |
| `snap_group` | 2 volumes, an application that writes first one, then the other; 1 fault or cancel, a deadline, a volume that leaves | `GroupIsConsistent` | the snapshots keep the order of writes |
| `capacity` | one request of each kind on one SPA and volume; 1 fault (any call, a lost answer, a restart), any of them canceled. Placement: one volume placed and deleted | `CapacityConserved`, `PoolsMatch`, `MarksReleased`, `EverythingEnds` | capacity is conserved; requests end |
| `progress` | 3 undisturbed participants; 7 lists of operations with cancel, deadline, retry and fault; 4 goroutines with 3 identifiers, 6 calls, 1 drain | `MutualExclusion`, `FirstComeFirstServed`, `EverythingEnds` | nobody overtakes or waits forever |
| `storage` | 2 SRs with deadlines; 2 volumes of each cloud, 5 operations, 1 fault; a node with 2 volumes, 2 storages and 1 other request, 2 interruptions at any step | `PluginKeepsItsWord`, `VolumesFreedLast`, `EverythingEnds` | plugins answer truly; a node is deleted with its volumes last |
| `daemons` | 1 volume (4 requests of 7 kinds), 1 volume whose capacity is changed meanwhile (3 requests), 2 volumes that share the cache (2 requests each); 2 CREATEs and a DELETE (1 fault), a CREATE and a DELETE (2 faults); RENAME; a loop of either kind; a node with 2 clusterd in 2 clusters; 3 clusterd | `FinalSnapshot`, `ObjectsAreTrue`, `CreateIsWhole`, `RenameIsWhole`, `NoLostWakeup`, `OneSite`, `TornDownStays`, `EverythingEnds` | objects agree with what is there; nothing is half done |
| `data` | 2 clients, all 17 collections; S3 copies with 2 workers, 2 snapshots, 1 restore; copies to a directory | `UpdatesAreTrue`, `SnapshotsAreTrue`, `EverythingEnds` | updates are true to the version they name; snapshots can be restored |
| `timeout_race` | 1 node, 1 clusterd | `TimeoutIsTrue` (violated) | section 4 |

Each run takes between one and four minutes with two workers. Deadlock is not
checked where behaviours end (all requests done, all calls made): that is every
run but `timeout_race`, and `EverythingEnds` and `AllStop` say instead that
what ends does so because it is done.

*Bounds.* Two phases are the least in which a fast participant can be ahead of a
slow one, and generation counters only matter relative to the last phase; a
third participant (`progress`) gives somebody who is neither first nor last, which
the catch-up of generations needs. One foreign update, one restart and one lost
reply can hit any step of any participant. For an animator one retry and one fault can hit any state on any path; a
request that places storage has two retries, since it must wait for storage and then
have its plan recomputed to go back from STORAGE_WAIT to SIZING. The lists of operations
are those that clients and other components of the repository request; together
they have every kind of plan: states of one and of several daemons, undo states
on the forward path, wait states, shared undo states. The guard needs two waiters
behind a holder, a goroutine with the identifier of one of them, and enough
calls for somebody to come back. Placement needs a disk that is shared and one
that is new, two volumes that compete for it, and a third request that makes
storage unused. A group needs two volumes and two writes, one of which depends on
the other. A fault of any kind can hit any call, and one is enough to separate
any two writes of a handler; where one fault is repaired by a second run of the
handler, a second one (`storage_life`, `storage`, `daemons`) hits the repair. In
`ApiObjects` a reference is between two types, so pairs of types (and the triple
of volume, plan and account) have every interleaving of a check and a delete. The
domains of sizes have three values at most: enough to grow, shrink and exceed.

*Fairness.* Goroutines run, and calls return with a result or an error: weak
fairness of the steps of a handler, of a participant, of `requestAnimator` and of
a goroutine that got a wake-up. The run loop of an animator wakes up at least
every `RetryInterval`, whether it is notified or not, and so does the ticker of
`Synchronize`: weak fairness of `RunLoop` and of the steps after it is justified
although no notification needs to be delivered (`Crude` has the loop itself). The
lock of `Capacity` and the guard of `Placement` are critical section guards, which
serve their callers in order (`FirstComeFirstServed`): strong fairness of taking
them (`WaitForLock`, `TakeGuard`, `LoopStarts`). The users of a guard leave it by
`defer`, so `Leave` is fair. `TimelySpec` of `RequestSync` and `Expire` of
`StorageRequest` add that time passes. Nothing forces a failure, a cancel, a
notification or a restart to happen.

*Timing.* Two modules assume something about durations. In `Heartbeat` a period
(`Tick`) ends when every running process has had its turn in it; that a task is
delayed beyond the period is a fault and bounded by `MaxLost`. In `Placement` a
pass of the run loop is faster than the cloud is at making a volume
(`PassIsQuick`); without it, an SR that was listed before its Storage object
existed could lose its claim.

## 4. Findings

`timeout_race`: the task that marks a cluster as timed out checks whether a real
heartbeat arrived between the decision and its own run
(`cluster_heartbeat_task.go:219`: "check for race between cluster timeout and
real heartbeat"). The check applies only if the task has one message
(`cluster_heartbeat_task.go:113`), but the task scheduler has added a message of
its own before (`pkg/housekeeping/task.go:211` by way of `:147`), so it never
applies: a cluster whose heartbeat came in between is marked as timed out until
the next heartbeat.

## 5. What does not hold, and is not claimed

While modelling, these behaviours of the code came up that a reader of its
comments would not expect. Where a module can show one it defines the property
(its name is given here) and no run lists it, or the property of a run names the
behaviour as its exception, with a variable that remembers where it has happened: the
run has the case, and the property says exactly what is lost. In a few places a
constant that allows the behaviour is off in a run. Each was seen as a TLC
counterexample.

*Overlap after a cancel* (`VsrAnimator`). A cancel noticed by the update that
hands a request over lets its writer go on with its own undo states, while the
other daemon dispatches the state that was written: `OneAnimator` fails for
CHANGE_CAPACITY and CONFIGURE with a cancel, so `MCVsrAnimator` cancels only
requests whose undo path stays in one daemon. After a restart the undo states
still to run are found by comparing orders, and for CONFIGURE with
VOL_SNAPSHOT_CREATE those of the snapshot are above the one of the configuration,
which is then skipped. `undoOnly` does not know UNPUBLISH and DETACH_FS: a retry
in their only state, an undo state, makes the request fail without an error. A
canceled request whose undo path is handed over ends in FAILED rather than
CANCELED.

*A volume that cannot be loaded* (`VsrAnimator`). If `VolumeSeriesFetch` fails with an
error that is not transient, the request is dispatched with that error and without
a volume (`request.go:958-967`). For UNBIND, DELETE and CHANGE_CAPACITY the plan itself
reads the volume (`request.go:386-404`, `:653`), for others some undo handlers do
(`ReadsVolume`): the goroutine panics, and `failOnPanic` writes FAILED with nothing
undone. `Compensated` excepts a request that ended so.

*Barrier* (`RequestSync`). `modifyCoordinator` sets `origGen` while it computes an
update. If that update loses to a version conflict, the second call skips the
generation check and never writes the adjusted generation; the peers wait until
their deadline. One unrelated update of the coordinator is enough, hence
`progress` has none (`MaxTouches = 0`): among participants alone a conflict leaves
no generation behind (section 6). `NoOvertaking` makes its claim while nothing has
disturbed the participants (`Undisturbed`): one that restarts has forgotten
`origGen` and catches up with those it waits for.

*Guard* (`CriticalSection`). `Drain` waits forever if it is called between a
departure and the wake-up of the next goroutine, which leaves its identifier in
the queue. The calls of `Enter` return all the same.

*StorageRequests*. (1) A new REATTACH whose storage is attached to another node
and unused is dispatched by centrald (`centrald/sreq/reattach.go:60-77`) and by
the agentd of the source node (`agentd/sreq/request.go:337-341`); the one that
finds the deadline passed ends it while the other works on, and
`storageRequestCreate` then admits a new request for the same storage: the
exception `Overtaken` in `OneRequestPerStorage`. (2) A REATTACH that is
interrupted while it detaches goes on as if the storage were detached
(`reattachGetStates`, `reattach.go:34-47`, asks for ATTACHED), the attaching
fails, and the storage stays ATTACHING; no later REATTACH succeeds, although
`reattach.go:26-28` expects it to be "reattempted until it succeeds". (3) A
RELEASE that was interrupted after its Storage object was deleted cannot be
updated once its deadline has passed (`CannotEnd`). (4) The list CLOSE, RELEASE
without DETACH, which the API accepts, releases nothing: agentd, which does the
CLOSE, has no state left after it and ends the request SUCCEEDED
(`SuccessIsReal` fails for such a plan; no client asks for it). (5) An error of the
`VolumeList` that looks for the volume of an earlier run is ignored
(`centrald/sreq/provision.go:276`). With `ListFails` and three
faults (the update of the Storage object, that of the request to
UNDO_PROVISIONING, the list) a second volume gets the tags of the first, and the
startup cleanup later takes the first for one in use and removes its tag: it is
lost (`OrphansAreTagged`). `storage_life` therefore has `ListFails = FALSE`;
`storage` has it TRUE. (6) A REATTACH that agentd has ended at its deadline is still
carried out by centrald. A RELEASE that was accepted while the storage was detached
then finds it attaching or attached, and releases it all the same (`release.go` asks
nothing about the attachment), skipping the stages of `StorageLife`
(`OvertakenStorage`, the exception of `ImplementsLife`); and a DETACH of a node that is
gone may succeed while centrald attaches the storage again (`Disturbed`, the exception
of `SuccessIsReal`). Both need storage that is attached and unused, which the second
part of `storage_life` starts from.

*Capacity*. The run lets every call fail, an answer get lost, centrald restart and
any request be canceled, and its properties name what the code gets wrong.
(1) A restart of centrald during BIND or CHANGE_CAPACITY after `BindCommitSPA` has
removed the mark (`bind.go:300`) makes the reservation run again (`bind.go:557`): the
capacity is taken or returned twice, though `bind.go:553` calls it idempotent. So does a
CHANGE_CAPACITY that is undone after its commit: it computes a difference of 0
(`moves.amiss`). (2) An UNBIND interrupted after `vsUndo` finds an unbound volume and
nothing to return; a BIND or CHANGE_CAPACITY that was interrupted after its reservation
may then wait for more capacity, and if it is canceled there it is taken to have none
(`EndsUnreturned`). `CapacityConserved` and `MarksReleased` except these. (3) A
DELETE_SPA or an UNBIND undoes nothing when it is canceled, so its mark stays
(`MarksReleased`). (4) An ALLOCATE_CAPACITY that is undone after `finalizeSPA` is refused
for ever (`UndoneTooLate`), a CHANGE_CAPACITY that is undone before it has reserved
anything too (`UndoneTooEarly`), and a BIND or CHANGE_CAPACITY that has named its pools
and failed to reserve waits for the mark of a DELETE_SPA that waits for it
(`WaitsForUser`): the exceptions of `AllEnded`.

*Placement*. A failed write of a Storage object leaves its change in the cluster state
(`place.go:877`, `:921`): until the run loop has reloaded it, another request of the
same storage takes that for what is stored (`torn`), and its own handler, which has
given up the claim before (`place.go:673`), shows nobody that it is due (`missed`). If
instead the write of the plan fails after the claim was given up, the claim is lost
as well (`missed`), and once the SR is no longer listed the request starts over and
forgets the storage it has already taken (`place.go:755`; `torn`). `CapacityAccounted`,
`UsedStorageIsKept` and `ClaimsHold` except these. Two failures, more than the run has, may
lose more: a failed creation or claim, or a cancel, with a pass and a restart lets
claimed storage be released, and in a shared layout two end in a nil Storage with the
guard held (`place.go:364`).

*Snapshots*. `GroupIsComplete`: subordinates that fail early remove themselves from
the peers, and a group request none is left of succeeds without a snapshot
(`cg_snap_create.go:171`). A Snapshot object stays when the synchronization in
FINALIZING_SNAPSHOT fails; a redispatch in that state deletes the PiT of the tip.

*Node delete*. DETACHING_STORAGE keeps the requests it waits for in memory only. A
handler that is interrupted there and finds DETACH requests of its earlier dispatch
still active waits for those and launches none for the rest of the storage
(`node_delete.go:581-613`): it goes on to give up the volumes with storage still attached
(`misled`), although swagger.yaml:1372 has the order. `VolumesFreedLast` excepts what
follows. A request of the lost node whose undo is under way is failed
(`node_delete.go:505`; swagger.yaml:1367-1368).

*Volume use*. Five things are remembered in `odd` and `left` and excepted. A MOUNT of a
volume whose final snapshot is still to be taken is accepted
(`volume_series_request_handlers.go:722-735`) and clears the flag (`export.go:497-506`;
swagger.yaml:6704 has it otherwise): `odd.forgot`, the exception of `FinalSnapshot`.
`removeLocalMounts` takes the cache from a volume without telling the storage process,
also when its HEAD stays exported (`recover.go:211-224`): `odd.given`. A recovery does not
wait for handlers at work, which may go on with the volume as they knew it and write that
it is configured, or an allocation of cache that is no more: `odd.crossed`, the exceptions
of `ObjectsAreTrue` and `CacheAccounts`. A VOL_SNAPSHOT_CREATE that is dispatched again in
FINALIZING_SNAPSHOT knows no snapshot to unexport (`vol_snap_create.go:365`, `:719-735`), so
that the tip stays mounted: `left`. And an interruption in the right place leaves a volume
that nobody uses open in the storage process (`configure.go:563`, `export.go:817`); no
property claims that it is closed. Redispatched in CREATING_PIT, the handler asks for
the point in time again, under the identifier that the request has had since its creation
(`volume_series_request_handlers.go:1010`), which the storage process may refuse.

*Creation, deletion, RENAME*. A DELETE is admitted from `createVolumeSeries` on, before
the CREATE has named its volume in the request (`create.go:423`): then the CREATE may
succeed though the volume is gone, or make again what the DELETE has deleted. `early`
remembers it, and `CreateIsWhole` excepts such volumes. A CREATE whose
named group was deleted retries for as long as it is missing, even when it is canceled
(`create.go:294`). The undo of RENAME finds groups by the new name (`rename.go:143`), so
that one which had the new name before the request is given the old one (`Misnamed`, the
exception of `RenameIsWhole`; the comment at `rename.go:88` says it "reverses the
changes").

*CRUD events*. `WaiterIsWoken`: a notification that comes while the body of a
waiter runs is lost (`vra/helpers.go:311`), in spite of the comment that it "will
force another call"; the next poll repairs it. `TerminationAlwaysEnds`: the
termination of all watchers, which "blocks until termination"
(`crude_manager.go:393`), does not end when it is called while the monitor
connects; nobody closes the connection made then. A `Watch` racing
it dereferences nil (`crude_manager.go:373-374`).

*Cloud plugins*. `NameIsCurrent` (a cached device name outlives its volume,
`aws.go:354`), `EveryRetrySucceeds` (the GCE plugin never answers that a volume is not attached
or not there, so the repetition of a detach or delete whose answer was lost
fails forever, `gc_volume.go:258-293`), `DeviceIsFree` (the instance is fetched
before the lock that protects the names handed out, `aws_volume.go:326`).

*Copies*. Chunks that the answer of the storage process leaves out at its end are dropped
(`nuvoendpoint.go:218` "off = progress", although `:140-142` expects "a Clean diff on the
end"), from the snapshot and from those based on it (`gapped`). A catalog in the domain of
the snapshots takes the place of their metadata (`shared`). `Recoverable` excepts both.
A restore whose `lun.Sync` fails reports success (`nuvoendpoint.go:323`), the exception of
`RestoreIsTrue`. With the Google and directory stores a recorded snapshot may not be
restorable, since failed writes to them are not reported or leave a part of a file; hence
`SnapshotsAreTrue` is claimed for S3.

*Data store*. `AnswerIsStored`: the object in memory after an update need not be
what is stored, since the answer is decoded over the body (`odh.go:325`), where a map
keeps keys that the update has removed. The cache of clusters holds that object, under
the version that is stored, and serves it: the client of a cluster may see keys that are
not there. It never misses one that is, and that is what `NoLostUpdate` says of maps; of
all other fields, that the document an update changes is the one its client has read. The
cache is written after the database, in a step of its own, so that an older answer may
replace a newer one there; an update from it loses to its version. With `Subfields`, one
field of a policy that is inherited may be set, which has no effect that can be read
(`UpdateAsAsked`).

*Heartbeats*. A process that dies between its claim and its first heartbeat
leaves the cluster MANAGED with an unknown service state; a node that returns
between the launch of NODE_DELETE and TEAR_DOWN is deleted.

## 6. What is proved

Eight modules hold proofs; each proves an inductive invariant, type correctness
with it, and from it the properties that the runs check. All theorems are for
every value of the constants that the named assumptions of the modules admit:
types, and where noted what the theorem states as a hypothesis. TLC evaluates the
assumptions in every run. Each inductive invariant was checked with TLC on a small
instance before it was proved.

| theorem | states |
|---|---|
| `RequestSyncProofs!BarrierCorrect` | `Spec => []BarrierHolds`, for any participants, phases, restarts and foreign updates |
| `RequestSyncProofs!NoOvertakingCorrect` | `Spec => []NoOvertaking`, for any participants, phases, cancels, failures and conflicts |
| `CriticalSectionProofs!MutexCorrect`, `FifoCorrect` | `MutualExclusion` and `FirstComeFirstServed`, for any goroutines and identifiers |
| `ApiObjectsProofs!RefsCorrect`, `DeletesCorrect` | `RefsResolve` and `DeletesOnlyTerminated`, for any number of callers and any tables that obey the discipline |
| `DaemonsProofs!OneSiteCorrect`, `TornDownCorrect` | `OneSite` and `TornDownStays` of `Heartbeat`, for any nodes, processes and clusters |
| `DaemonsProofs!RenameCorrect` | `RenameIsWhole` of `Rename`, for any names, faults and crashes, groups that have the new name before the request included |
| `DaemonsProofs!WakeupCorrect` | `NoLostWakeup` of `Crude`, for any kinds of loop, versions, connections and faults |
| `DaemonsProofs!PluginsCorrect` | `PluginKeepsItsWord` of `CspVolume`, for any volumes, clouds, operations and failures, if no device has the name `None` |
| `SnapshotProofs!GroupCorrect` | `GroupIsConsistent`, for any volumes, writes and deadlines |
| `NodeDeleteProofs!FreedLast` | `VolumesFreedLast`, for any volumes, storage, requests and interruptions |
| `VsrAnimatorProofs!OneAnimatorCorrect` | `OneAnimator`, for any operations, retries, faults and restarts, if what can be canceled is undone by one daemon |
| `StorageRequestProofs!OneDaemonCorrect` | `OneDaemon`: centrald and the agentd of the node never work on one request together, for any requests, plans, faults and restarts |
| `...!OneRequestCorrect`, `...!ProvisionedCorrect` | `OneRequestPerStorage` and `ProvisionedIsOwned`, for any requests, storage, volumes, nodes and plans |
| `...!OrphansCorrect` | `OrphansAreTagged`, for the same, if `VolumeList` does not fail |
| `...!TypeCorrect`, `...!Invariance` | `TypeOK` and the inductive invariant of each of these modules |

*The barrier.* `BarrierHolds` is not inductive: that a participant passes is
decided when it fetches the coordinator, and becomes true when it writes. The
invariant adds that a label in the coordinator is a phase its owner has reached
(`LabelsReached`), that a participant about to write from the version that is
still current saw labels that are still there (`ViewsCurrent`), and that phases stay
proper. A step that writes makes every other view out of date, and `WriteApplied`
refuses those. The generation counters play no part.

*The sessions.* They are what keeps a fast participant from advertising the next
phase over the label that a slow one still waits for (`NoOvertaking`). The
invariant `Sessions` says that generation k is for those who have advertised phase
k: no generation is above a phase that somebody has yet to advertise, the last one
to advertise a phase raises its generation (`Generations`), and a participant joins
a session only when the others have caught up (`InSession`). Its difficult part is
the defect of section 5: `origGen` may be set while the own generation is still
behind. Then the write that repairs this is under way and is computed from the
current version (`Current`), and nobody else can write before it (lemma
`NoConflict`): those in the new session wait for this generation, those in an
earlier phase have advertised theirs. A foreign update breaks that, and a
participant that gives up or a cancel ends the session for all (`Broken`).

*The guard.* The holder is the head of the queue; until the guard is closed
everybody active is in it, in the order of the calls; active goroutines have
different identifiers. After `Drain` the queue no longer lists those who wait, but
nobody gets in any more.

*References.* `RefsResolve` is not inductive: a call that has made its checks will
write, so what it has checked must stay true until then. The invariant says what
each call knows at each of its steps, and that a writer with the lock is alone. What
the handlers have to do for this is an assumption on the tables (`TableAssumption`
in `ApiObjects`: what is set is fetched under the lock, what a delete
counts covers every protected reference), and TLC evaluates it for the tables of
the 17 handlers in `api_refs`. So the theorem also covers the pairs of types that
`MCFocus` leaves out.

*Heartbeats.* The identifier of a cluster is made in the cluster it stands for
(`IdentsAreLocal`), whoever serves has the identifier that is in the Cluster
object, and the object keeps it once it has left DEPLOYABLE
(`ServersAreClaimed`): two that serve are in one cluster, however their claims
raced. `TornDownStays` needs only that a node that is being deleted has an
object (`DeletedExist`).

*Snapshots.* The invariant follows each volume through its handler: I/O is paused
when its PiT is made (`sop` and `vol` agree in every sub-state, after an
interruption too), and stays paused until the second synchronization, which
nobody passes before all volumes of the group have their PiT. A write that is
missing in one snapshot therefore comes after every PiT, or its volume is paused
until then. Of the four synchronizations only the one on CREATED_PIT matters for
the order of writes; the proof does not use the one on PAUSED_IO. That no volume
gets two subordinates rests on what the group request finds again after an
interruption.

*Node delete.* A volume is given up by a subordinate, long after the storage was
detached and perhaps under a later NODE_DELETE. The invariant follows the order
through both requests: a subordinate comes to the detaching of its volume only
through the synchronization with a NODE_DELETE that is past the storage
(`Synchronized`, `Freeing`), and no storage is asked for again while such a
subordinate is left, since a NODE_DELETE on its way there has ended all the
subordinates of an earlier one (`Mine`, `Listing`) and its own have not got that
far (`Behind`). All of this stands under `~misled`: the one interruption after which
storage is left to nobody (section 5) is recorded when the handler finds the old requests,
and from then on the invariant claims nothing of the storage. The theorem has no other
hypothesis.

*The animators.* Nothing is locked between the three daemons: each takes a
request whose state it has the handler of, and lets go of it by writing a state of
another. As a rule (`Alone`) an active daemon has the handler of the state in the
database or is about to find that it has not, and what another one has listed is
outdated and known to be so (`Outdated`): its `doneRequests` or the version of its
goroutine is ahead of the list. The rule is broken by a cancel that is noticed in
the write that hands the request over, since the goroutine goes on to undo. From
then on (`Split`) the daemons but one have nothing to undo themselves and only
leave. This needs that one daemon undoes everything
(`Contained`), which is the theorem's hypothesis on the operations that are
canceled; without it handlers overlap, as section 5 describes. TLC evaluates the
hypothesis for the lists that `vsr_requests` cancels (`CanceledAssumption`).
`Coherent` relates the lists of a goroutine to the state it has written last.
`Invariance` and `TypeCorrect` have no hypothesis: with operations that are undone
by several daemons the invariant says nothing of who is active (`Overlapping`).
That a plan consists of states that do not end a request is an assumption of the
module (`PlanAssumption`), evaluated by TLC for every list of operations of the runs,
since the library states nothing of `SelectSeq`.

*StorageRequests.* Two requests are kept apart by a check that is made once, when
the second is created, against a link that the first gets late. The invariant
(module `StorageRequestInv`) has five layers, each of which a step preserves only
from the ones before. `Inv1` is
the shape of a goroutine: its list holds states that serve the operations of its
request, its undo list undo states only, and the sub-state of a handler is one of
that handler's. `Inv2` is about whose turn it is: a goroutine that works on (and
not only returns) belongs to the daemon that the state in the database names,
and this state is the one it has written (`OneDaemon`). `Inv3` says what a request
holds: the storage it is linked to or, between `createStorage` and `setIds`, the
storage its goroutine has made (`Fresh`); the copy in memory agrees with the
Storage object except for the volume just made (`Made`) and after the object was
deleted (`Gone`); and no two requests hold the same (`Apart`). The startup cleanup
takes links away, but only while centrald has no goroutines (`Idled`). `Inv4` says
what is left to undo: a goroutine of centrald whose storage is PROVISIONED has
UNDO_PROVISIONING before it or in its undo list, so that it cannot end FAILED
with the storage still there, and a request that is interrupted finds
UNDO_PROVISIONING again from its state (`CentralUndo`). `Inv5` adds the volumes:
a storage has at most one, which carries the tag of the request as long as the
storage is being provisioned and loses it only when the Storage object names it
(`Clouded`); what a handler's copy says of the volume is what the object says, or
the volume is gone (`AllBacked`). A second volume is not created, since
`createCSPVolume` finds the first by its tag, be it a run or a restart later: this
is where `OrphansCorrect` needs its hypothesis `~ListFails`, without which TLC finds
the violation of section 5. Until the object is linked to the request
nobody can have created a volume for it (`Fresh`). The proof of
`OneRequestPerStorage` first failed on `StorageUpdate`: its version check had left out the
stage of the storage, with which the copy of an overtaken goroutine could bring
storage back that was being released.

*RENAME.* A handler that starts over knows only the names and the tag. `RenameInv`
says what the names tell in either direction: on the way there, that what comes
before the next step has been renamed and what is left is among the loaded groups
(`RenameAhead`); on the way back, in the opposite order, that what comes before has
its old name again, unless a call of the undo failed (`RevertAhead`); and that an
object with the new name had it from the start, or had the old one, which the tag keeps,
or is a group that the undo took for a renamed one and reverted (`NamesKnown`). A group
that had the new name before cannot be told from one that the request renamed: the
invariant says where such a group may stand in between (`Swapped`), and the property
that it is the only thing that may be left changed (`Misnamed`).

*Wakeups.* `LoopInv` says that a loop of an animator that dispatches or waits, and
has been notified of a version newer than the one it fetched, has its flag set. It
rests on the order of the loop: `notifyReset`, then the fetch. The loop that waits
for one request fetches first and resets after, which is why the property excludes
it (section 5).

*Plugins.* `CallInv` says what a call in progress may rely on between its looks at the
cloud: a volume that AWS did not list for the instance is detached, and nobody else
attaches it before this call does; the tags that GCE is going to write are those of the
volume if the fingerprint still is; and until the answer nobody knows better
(`view` is "unsure"). The only hypothesis is that the cloud gives no device the name that
stands for none.

*A refinement.* That `StorageRequest` implements `StorageLife` (the stages of a
piece of storage and the moves between them, under the refinement mapping `life`)
is checked by TLC (`ImplementsLife`) and not proved. The moves of storage of which
a REATTACH was overtaken are an exception that follows two requests and both daemons
through the whole of a behaviour; the invariant `Inv5` says nothing of them.

## 7. What is only model-checked

- Liveness (`EverythingEnds`, `AllStop`): the prover has no support for fairness.
- `CapacityConserved`, `PoolsMatch`, `CapacityAccounted`: sums over sets are folds,
  and what a fold returns for every set needs induction over data.
- `Compensated`, `SuccessIsComplete`, `UndoInReverse`, `OrderAdvances` of `VsrAnimator`:
  they follow the order of the plan, a selection from a list of rows (`SelectSeq`),
  which again needs induction.
- `SnapshotsAreTrue` (positions in sequences of any length), `UpdatesAreTrue` (folds
  over attributes).
- `ImplementsLife` and `SuccessIsReal`: they need an invariant that follows an overtaken
  REATTACH, and hold with the exceptions of section 5 for the plans and within the
  number of events of the run.
- `MarksReleased`: with the exceptions of section 5 for one request of each kind and one
  fault (two faults were looked at as well, outside the runs).
- `FinalSnapshot`: whether a volume must be saved is decided from three recordings made
  at different times (the statistics of the last mount or snapshot, the count of
  unexports that a request has noted, the flag itself), each of them used by a handler that
  may have been interrupted since and may overlap with a CHANGE_CAPACITY.
- `UsedStorageIsKept`, `ClaimsHold`, `ObjectsAreTrue`, `CreateIsWhole`: within reach, and
  next on the plan.
- `TimeoutIsTrue` is violated.

## 8. Plan

1. Done: the modules above, their runs, and the eight modules of proofs.
2. Next proofs, in this order: `FinalSnapshot` and `ObjectsAreTrue` of `VolumeUse`,
   `CreateIsWhole` of `VolumeCreate`, `ClaimsHold` of `Placement`.
3. Not yet modelled and worth it: periodic creation of snapshot, purge and unbind
   requests; the metric queue; restore of snapshots and publishing step by step;
   placement on several nodes.

## 9. Not modelled

CSI and FlexVolume drivers translate calls and poll requests; the cluster client
and the storage process API are calls of external services, which appear as
outcomes; creation of cloud volumes and of protection stores is one atomic
operation; the management client, authentication, auditing and metrics are
transport and reporting; command line tools format; the REST models are generated;
the mongo sidecar configures an external database. Of the data store, filters are
modelled as far as `ApiObjects` needs them; connection, retry and indexes are not.
`planOnly` requests are modelled in `Rename` only. In `Placement` there is one node, and
remote storage and the reattachment of storage to another node are left out. What the
database does is part of the modules that use it: an update is applied to the
version it names, or fails.
