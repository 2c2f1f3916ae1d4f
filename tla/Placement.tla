------------------------------ MODULE Placement ------------------------------
(***************************************************************************)
(* How clusterd places volumes on storage: pkg/clusterd/vreq/size.go,      *)
(* place.go and component.go, and the cluster state that they share,       *)
(* pkg/clusterd/state.                                                     *)
(*                                                                         *)
(* The state (cs) is a cache of the storage of the cluster and of the      *)
(* claims that requests have made on storage that is still being           *)
(* provisioned.  The run loop reloads it, releases storage that nobody     *)
(* uses, and dispatches the requests; a handler works on it under the same *)
(* guard and writes Storage, StorageRequest, VolumeSeries and request      *)
(* objects one at a time.  Each such write is an action here, so a call    *)
(* may fail and clusterd may restart between any two of them.  What the    *)
(* StorageRequests do (module StorageRequest) is reduced to what a         *)
(* placement sees of it.  Capacity is counted in parcels of one pool, and  *)
(* there is one node: which of two suitable objects is taken first is left *)
(* open.                                                                   *)
(***************************************************************************)
EXTENDS Integers, Sequences, FiniteSets, SequencesExt

CONSTANTS Volumes, Requests, Disks, Srs, None,
          OpOf,         \* request -> "PLACE" or "DELETE"
          VolOf,        \* request -> its volume
          Need,         \* volume -> parcels to place: reservedBytes
          FixedParcels, \* parcels of a Storage object of fixed size
          MinParcels, MaxParcels, \* parcels of one of variable size
          Cancelable,   \* requests that may be canceled, or run out of time
          Layouts,      \* layout algorithms to choose from
          Failing,      \* what may fail: kinds of calls, StorageRequests, clusterd
          MaxFaults,    \* bound: calls and StorageRequests that fail, and restarts
          MaxTroubles   \* bound: these and cancels together

ASSUME RequestsAssumption ==
    /\ OpOf \in [Requests -> {"PLACE", "DELETE"}]
    /\ VolOf \in [Requests -> Volumes]
    /\ Cancelable \subseteq Requests
    /\ Need \in [Volumes -> Nat \ {0}]
    /\ {FixedParcels, MinParcels, MaxParcels} \subseteq Nat \ {0}
    /\ MinParcels <= MaxParcels
ASSUME NoneAssumption == None \notin Requests \cup Disks \cup Srs \cup {"loop"}
ASSUME LayoutsAssumption == Layouts \subseteq {"shared", "unshared"}
ASSUME FailingAssumption ==
    Failing \subseteq {"load", "create", "claim", "plan", "storage", "volume", "provision", "release", "crash"}
ASSUME PlacementBounds == MaxFaults \in Nat /\ MaxTroubles \in Nat

VARIABLES
    layout,   \* the layout algorithm clusterd is configured with
    req,      \* VolumeSeriesRequest objects
    vol,      \* VolumeSeries objects
    disk,     \* Storage objects
    sr,       \* StorageRequest objects
    cs,       \* ClusterState, in memory
    lock,     \* holder of the StateGuard
    loop,     \* the run loop
    run,      \* the handler of each request
    faults,   \* number of failures so far
    missed,   \* for the properties: claims given up for a write that failed, not repeated yet
    torn      \* for the properties: Storage treated as a failed write has left it, or forgotten

db == <<req, vol, disk, sr>>
past == <<faults, missed, torn>>
vars == <<layout, req, vol, disk, sr, cs, lock, loop, run, past>>

Keys == 1..(Cardinality(Disks) + Cardinality(Srs) + Max({Need[v] : v \in Volumes}))
                            \* pseudo keys of parcels that are not on a Storage object yet
Empty == [x \in {} |-> 0]
Drop(f, S) == [x \in DOMAIN f \ S |-> f[x]]
Put(f, x, e) == [y \in DOMAIN f \cup {x} |-> IF y = x THEN e ELSE f[y]]

NoDisk == [st |-> "none", total |-> 0, avail |-> 0, tags |-> {}]
NoSr == [st |-> "none", op |-> "PROVISION", disk |-> None, size |-> 0, rem |-> 0, claims |-> Empty]
Idle == [pc |-> "idle", held |-> {}, active |-> FALSE, changed |-> FALSE]
NewCS == [primed |-> FALSE, storage |-> Empty, detached |-> Empty, srs |-> Empty, claimed |-> {}]
LoopIdle == [pc |-> "idle", srs |-> Empty, left |-> {}]

Init ==
    /\ layout \in Layouts
    /\ req = [r \in Requests |-> [st |-> "none", kind |-> "none", plan |-> Empty, over |-> FALSE]]
    /\ vol = [v \in Volumes |-> [parcels |-> Empty, tags |-> {}]]
    /\ disk = [d \in Disks |-> NoDisk]
    /\ sr = [s \in Srs |-> NoSr]
    /\ cs = NewCS
    /\ lock = None
    /\ loop = LoopIdle
    /\ run = [r \in Requests |-> Idle]
    /\ faults = 0 /\ missed = {} /\ torn = {}

Terminal == {"SUCCEEDED", "FAILED"}
ClusterdStates == {"SIZING", "PLACEMENT", "STORAGE_WAIT", "UNDO_PLACEMENT", "UNDO_SIZING"}
Waiting == {"PLACEMENT", "STORAGE_WAIT"}

Troubles == faults + Cardinality({r \in Requests : req[r].over})

CallFails(kind) ==
    /\ kind \in Failing /\ faults < MaxFaults /\ Troubles < MaxTroubles
    /\ faults' = faults + 1

Fault(kind) == CallFails(kind) /\ UNCHANGED <<missed, torn>>
Works == UNCHANGED past

----------------------------------------------------------------------------
(* Requests.  A volume is placed once and may be deleted afterwards; what  *)
(* other daemons do with a request that is placed ends well or not.        *)

Submit(r) ==
    /\ req[r].st = "none"
    /\ LET others == {q \in Requests \ {r} : VolOf[q] = VolOf[r] /\ req[q].st # "none"}
       IN  /\ \A q \in others : req[q].st \in Terminal
           /\ OpOf[r] = "PLACE" => others = {}
           /\ OpOf[r] = "DELETE" => vol[VolOf[r]].parcels # Empty
    /\ req' = [req EXCEPT ![r].st = IF OpOf[r] = "PLACE" THEN "SIZING" ELSE "UNDO_PLACEMENT"]
    /\ UNCHANGED <<layout, vol, disk, sr, cs, lock, loop, run, past>>

(* The request is canceled by its user, or its time is over.               *)
Cancel(r) ==
    /\ OpOf[r] = "PLACE" /\ r \in Cancelable /\ Troubles < MaxTroubles
    /\ req[r].st \in {"SIZING"} \cup Waiting /\ ~ req[r].over
    /\ req' = [req EXCEPT ![r].over = TRUE]
    /\ UNCHANGED <<layout, vol, disk, sr, cs, lock, loop, run, past>>

Downstream(r) ==
    /\ req[r].st = "PLACED"
    /\ \E st \in {"SUCCEEDED", "UNDO_PLACEMENT"} : req' = [req EXCEPT ![r].st = st]
    /\ UNCHANGED <<layout, vol, disk, sr, cs, lock, loop, run, past>>

----------------------------------------------------------------------------
(* StorageRequests, as a placement sees them.                              *)

SetSr(s, st) == sr' = [sr EXCEPT ![s].st = st]
SetDisk(d, st) == disk' = [disk EXCEPT ![d].st = st]

(* An object that is over and that nobody refers to is forgotten: its name *)
(* may be used for another.                                                *)
Free(s) ==
    \/ sr[s].st = "none"
    \/ /\ sr[s].st \in Terminal
       /\ s \notin DOMAIN cs.srs \cup DOMAIN loop.srs
       /\ \A r \in DOMAIN sr[s].claims : req[r].st \in Terminal
       /\ \A r \in Requests : \A k \in DOMAIN req[r].plan : req[r].plan[k].from # s

FreeDisk(d) ==
    /\ disk[d].st = "none"
    /\ d \notin DOMAIN cs.storage \cup DOMAIN cs.detached \cup cs.claimed \cup loop.left
    /\ \A s \in Srs : sr[s].disk = d => Free(s) \/ (sr[s].op = "RELEASE" /\ sr[s].st # "active")
    /\ \A r \in Requests : d \in DOMAIN req[r].plan => req[r].st \in Terminal

(* Names are interchangeable: any that is free does.                       *)
AnyOf(S) == IF S = {} THEN {} ELSE {CHOOSE x \in S : TRUE}
NewSr == AnyOf({s \in Srs : Free(s)})
NewDisk == AnyOf({d \in Disks : FreeDisk(d)})

Provision(s) ==
    /\ sr[s].disk = None
    /\ \E d \in NewDisk :
          /\ disk' = [disk EXCEPT ![d] = [st |-> "provisioning", total |-> sr[s].size,
                                          avail |-> sr[s].size, tags |-> {}]]
          /\ sr' = [sr EXCEPT ![s].disk = d]

(* The run loop lists StorageRequests, then Storage, and acts on what it   *)
(* has seen.  A pass takes less time than the cloud takes to make a        *)
(* volume: a request that the pass saw without an object is still being    *)
(* provisioned when it ends.                                               *)
PassIsQuick(s) == s \in DOMAIN loop.srs => loop.srs[s].disk # None

Attach(s) ==
    /\ sr[s].disk # None
    /\ \/ /\ disk[sr[s].disk].st = "provisioning" /\ PassIsQuick(s)
          /\ SetDisk(sr[s].disk, "detached") /\ UNCHANGED sr
       \/ /\ disk[sr[s].disk].st = "detached"
          /\ SetDisk(sr[s].disk, "attached") /\ UNCHANGED sr
       \/ /\ disk[sr[s].disk].st = "attached"
          /\ SetSr(s, "SUCCEEDED") /\ UNCHANGED disk

ProvisionFails(s) ==
    /\ Fault("provision")
    /\ SetSr(s, "FAILED")
    /\ disk' = [d \in Disks |-> IF d = sr[s].disk THEN NoDisk ELSE disk[d]]

Release(s) ==
    LET d == sr[s].disk IN
    \/ disk[d].st = "attached" /\ SetDisk(d, "busy") /\ UNCHANGED sr
    \/ disk[d].st = "busy" /\ SetDisk(d, "detached") /\ UNCHANGED sr
    \/ /\ disk[d].st = "detached"
       /\ disk' = [disk EXCEPT ![d] = NoDisk] /\ SetSr(s, "SUCCEEDED")

ReleaseFails(s) ==
    LET d == sr[s].disk IN
    /\ Fault("release")
    /\ SetSr(s, "FAILED")
    /\ IF disk[d].st = "busy" THEN SetDisk(d, "attached") ELSE UNCHANGED disk

StorageRequestStep(s) ==
    /\ sr[s].st = "active"
    /\ \/ sr[s].op = "PROVISION" /\ (Provision(s) \/ Attach(s)) /\ Works
       \/ sr[s].op = "PROVISION" /\ ProvisionFails(s)
       \/ sr[s].op = "RELEASE" /\ Release(s) /\ Works
       \/ sr[s].op = "RELEASE" /\ ReleaseFails(s)
    /\ UNCHANGED <<layout, req, vol, cs, lock, loop, run>>

InUse(d) == \E s \in Srs : sr[s].st = "active" /\ sr[s].disk = d

----------------------------------------------------------------------------
(* The cluster state.                                                      *)

TrackStorageRequest(srs, s) ==
    IF s \in DOMAIN srs THEN srs
    ELSE Put(srs, s, [st |-> sr[s].st, disk |-> sr[s].disk, claims |-> sr[s].claims, rem |-> sr[s].rem])

RemoveClaimsMutant(srs, R) == srs   \* claims are never dropped

RemoveClaims(srs, R) == [s \in DOMAIN srs |-> [srs[s] EXCEPT !.claims = Drop(@, R)]]

primeSRCacheMutant == cs.srs   \* a restart forgets the claims

primeSRCache ==
    IF cs.primed THEN cs.srs
    ELSE LET found == {s \in Srs : \E r \in DOMAIN sr[s].claims : req[r].st \in Waiting}
         IN  [s \in found |-> TrackStorageRequest(Empty, s)[s]]

loadStorageRequests(srs) ==
    LET listed == {s \in Srs : sr[s].st = "active"}
        wanted == {s \in DOMAIN srs : srs[s].claims # Empty}
    IN  [s \in listed \cup wanted |-> sr[s]]

(* Storage that is usable and not the subject of an active request, the    *)
(* storage that is detached, and the claims, which are carried over.       *)
Reloaded(srM) ==
    LET busy == {srM[s].disk : s \in {x \in DOMAIN srM : srM[x].st = "active"}}
        usable == {d \in Disks : disk[d].st = "attached" /\ d \notin busy}
        loose == {d \in Disks : disk[d].st \in {"provisioning", "detached"}}
        claiming == {s \in DOMAIN srM : srM[s].op # "RELEASE"}
        kept == {s \in claiming : s \in DOMAIN cs.srs /\ cs.srs[s].claims # Empty}
    IN  [cs EXCEPT !.storage = [d \in usable |-> disk[d]],
                   !.detached = [d \in loose |-> disk[d]],
                   !.srs = [s \in kept |-> [cs.srs[s] EXCEPT !.st = srM[s].st, !.disk = srM[s].disk]],
                   !.claimed = {srM[s].disk : s \in claiming} \ {None}]

stateChanged(new) ==
    \/ DOMAIN new.srs # DOMAIN cs.srs
    \/ DOMAIN new.storage # DOMAIN cs.storage
    \/ DOMAIN new.detached # DOMAIN cs.detached
    \/ \E s \in DOMAIN new.srs :
          \/ new.srs[s].st # cs.srs[s].st
          \/ DOMAIN new.srs[s].claims # DOMAIN cs.srs[s].claims
    \/ \E d \in DOMAIN new.storage : new.storage[d].avail # cs.storage[d].avail

storageClaimed(c, d) == d \in c.claimed

StorageCapacityNotAllocatedMutant(c, d) == c.storage[d].avail > 0   \* some of it is free

StorageCapacityNotAllocated(c, d) == c.storage[d].avail = c.storage[d].total

StorageCapacityIsNotAllocated(c, d) ==
    c.detached[d].avail >= c.detached[d].total /\ c.detached[d].st = "detached"

Unused(c) ==
    {d \in DOMAIN c.storage : ~storageClaimed(c, d) /\ StorageCapacityNotAllocated(c, d)}
    \cup {d \in DOMAIN c.detached :
             /\ StorageCapacityIsNotAllocated(c, d)
             /\ \A s \in DOMAIN c.srs : c.srs[s].disk # d}

LookupStorage(d) ==
    IF d \in DOMAIN cs.storage THEN cs.storage[d]
    ELSE IF d \in DOMAIN cs.detached THEN cs.detached[d] ELSE NoDisk

Changed(d) == LET obj == LookupStorage(d) IN
    obj.st # "none" /\ <<obj.avail, obj.tags>> # <<disk[d].avail, disk[d].tags>>

\* What a handler does next it decides by the copy of d in the cluster state.
Judges(d) == torn' = IF Changed(d) THEN torn \cup {d} ELSE torn

Refresh(d, obj) ==
    [cs EXCEPT !.storage = IF d \in DOMAIN @ THEN [@ EXCEPT ![d] = obj] ELSE @,
               !.detached = IF d \in DOMAIN @ THEN [@ EXCEPT ![d] = obj] ELSE @]

----------------------------------------------------------------------------
(* The run loop: RunBody, under the guard.                                 *)

LoopStarts ==
    /\ loop.pc = "idle" /\ lock = None
    /\ lock' = "loop"
    /\ loop' = [loop EXCEPT !.pc = "requests"]
    /\ UNCHANGED <<layout, db, cs, run, past>>

LoopFails ==
    /\ loop.pc \in {"requests", "storage"}
    /\ Fault("load")
    /\ lock' = None
    /\ loop' = LoopIdle
    /\ UNCHANGED <<layout, db, cs, run>>

ReloadRequests ==
    /\ loop.pc = "requests"
    /\ cs' = [cs EXCEPT !.primed = TRUE, !.srs = primeSRCache]
    /\ loop' = [loop EXCEPT !.pc = "storage", !.srs = loadStorageRequests(primeSRCache)]
    /\ Works
    /\ UNCHANGED <<layout, db, lock, run>>

ReloadStorage ==
    LET new == Reloaded(loop.srs)
        now == IF stateChanged(new) THEN new ELSE cs
    IN  /\ loop.pc = "storage"
        /\ cs' = now
        /\ loop' = [loop EXCEPT !.pc = "release", !.left = Unused(now)]
        /\ Works
        /\ UNCHANGED <<layout, db, lock, run>>

ReleaseUnusedStorage ==
    /\ loop.pc = "release"
    /\ \E d \in loop.left :
          /\ loop' = [loop EXCEPT !.left = @ \ {d}]
          /\ \/ /\ ~InUse(d) /\ disk[d].st # "none"
                /\ \E s \in NewSr :
                      sr' = [sr EXCEPT ![s] = [NoSr EXCEPT !.st = "active", !.op = "RELEASE", !.disk = d]]
                /\ cs' = [cs EXCEPT !.storage = Drop(@, {d}), !.detached = Drop(@, {d})]
                /\ Works
             \/ /\ \/ (InUse(d) \/ disk[d].st = "none") /\ Works
                   \/ Fault("create")
                /\ UNCHANGED <<sr, cs>>
    /\ UNCHANGED <<layout, req, vol, disk, lock, run>>

(* Where the animator starts a request that it finds in a state.           *)
Start(r) ==
    [Idle EXCEPT !.pc = CASE req[r].over /\ req[r].st \in {"SIZING"} \cup Waiting -> "fail"
                          [] ~req[r].over /\ req[r].st = "SIZING" -> "size"
                          [] ~req[r].over /\ req[r].st \in Waiting -> "lock"
                          [] req[r].st = "UNDO_PLACEMENT" -> "undo"
                          [] req[r].st = "UNDO_SIZING" -> "unsize"]

Dispatch ==
    /\ loop.pc = "release" /\ loop.left = {}
    /\ LET active == {r \in Requests : req[r].st \in ClusterdStates}
       IN  /\ cs' = [cs EXCEPT !.srs = RemoveClaims(@, Requests \ active)]
           /\ run' = [r \in Requests |->
                         IF r \in active /\ run[r].pc = "idle" THEN Start(r) ELSE run[r]]
    /\ lock' = None
    /\ loop' = LoopIdle
    /\ UNCHANGED <<layout, db, past>>

----------------------------------------------------------------------------
(* Selection of storage: which items a volume gets, as a sequence of       *)
(* capacities and where they come from.                                    *)

(* Sequences of the elements of S by decreasing capacity.                  *)
Ordered(S, cap) ==
    {q \in SetToSeqs(S) : \A i, j \in 1..Len(q) : i < j => cap[q[i]] >= cap[q[j]]}

(* Each source gives what it has until the need is met.                    *)
Taken(q, cap, need) ==
    LET before(i) == MapThenSumSet(LAMBDA j : cap[q[j]], 1..(i - 1))
    IN  [i \in 1..Len(q) |->
            IF before(i) >= need THEN 0
            ELSE IF before(i) + cap[q[i]] > need THEN need - before(i) ELSE cap[q[i]]]

ShareableStorage ==
    {d \in DOMAIN cs.storage : ~storageClaimed(cs, d) /\ cs.storage[d].avail > 0}

OpenClaims == {s \in DOMAIN cs.srs : cs.srs[s].rem > 0 /\ cs.srs[s].st # "FAILED"}

computeMinimalVariableStorage(need) ==
    LET full == need \div MaxParcels
        rest == need % MaxParcels
    IN  IF rest > 0 /\ rest < MinParcels /\ full > 0
        THEN [max |-> full - 1, rem1 |-> (MaxParcels + rest) - (MaxParcels + rest) \div 2,
              rem2 |-> (MaxParcels + rest) \div 2]
        ELSE [max |-> full, rem1 |-> rest, rem2 |-> 0]

UnusedOf(n) ==
    {d \in DOMAIN cs.storage :
        /\ ~storageClaimed(cs, d) /\ StorageCapacityNotAllocated(cs, d)
        /\ cs.storage[d].avail = n}

(* As many unused objects of each size as the need calls for.              *)
UnsharedStorage(need) ==
    LET m == computeMinimalVariableStorage(need)
        wants(n) == (IF n = MaxParcels THEN m.max ELSE 0) + (IF n = m.rem1 THEN 1 ELSE 0)
                    + (IF n = m.rem2 THEN 1 ELSE 0)
        sizes == {n \in {MaxParcels, m.rem1, m.rem2} : n > 0}
    IN  {S \in SUBSET UNION {UnusedOf(n) : n \in sizes} :
            \A n \in sizes : Cardinality(S \cap UnusedOf(n)) = Min({wants(n), Cardinality(UnusedOf(n))})}

(* New objects for a need, one after the other.                            *)
Fresh[n \in Nat] ==
    IF n = 0 THEN <<>>
    ELSE LET m == computeMinimalVariableStorage(n)
             np == IF layout = "shared" THEN Min({n, FixedParcels})
                   ELSE IF m.max > 0 THEN MaxParcels ELSE m.rem1
         IN  <<np>> \o Fresh[n - np]

SelectStorage(need) ==
    LET capacity == [x \in DOMAIN cs.storage \cup DOMAIN cs.srs |->
                        IF x \in DOMAIN cs.storage THEN cs.storage[x].avail ELSE cs.srs[x].rem]
    IN  IF layout = "shared"
        THEN {[src |-> a \o b, cap |-> capacity] :
                  a \in Ordered(ShareableStorage, capacity), b \in Ordered(OpenClaims, capacity)}
        ELSE {[src |-> a, cap |-> capacity] :
                  a \in UNION {Ordered(S, capacity) : S \in UnsharedStorage(need)}}

(* The storage plan for a selection: a parcel on a Storage object, or      *)
(* under a pseudo key one of a StorageRequest, existing or to be issued.   *)
PlanFor(sel, need) ==
    LET taken == Taken(sel.src, sel.cap, need)
        used == {i \in 1..Len(sel.src) : taken[i] > 0}
        fresh == Fresh[need - MapThenSumSet(LAMBDA i : taken[i], used)]
        key(i) == IF sel.src[i] \in Disks THEN sel.src[i] ELSE i
        from(i) == IF sel.src[i] \in Disks THEN None ELSE sel.src[i]
        new == Len(sel.src)
    IN  [k \in {key(i) : i \in used} \cup {new + i : i \in DOMAIN fresh} |->
            IF \E i \in used : key(i) = k
            THEN LET i == CHOOSE i \in used : key(i) = k IN [size |-> taken[i], from |-> from(i)]
            ELSE [size |-> fresh[k - new], from |-> None]]

----------------------------------------------------------------------------
(* Handlers.  An action is one call that writes an object, with what the   *)
(* handler does in memory before and after it.  Go(r, pc) goes on, Leave   *)
(* gives the guard back: to be retried (idle), or with an error (fail).    *)

At(r, pc) == run[r].pc = pc
Go(r, pc) == run' = [run EXCEPT ![r].pc = pc, ![r].held = {}] /\ UNCHANGED lock
Mark(r, k) == run' = [run EXCEPT ![r].held = @ \cup {k}] /\ UNCHANGED lock
Leave(r, pc) ==
    /\ run' = [run EXCEPT ![r] = [Idle EXCEPT !.pc = pc]]
    /\ lock' = IF lock = r THEN None ELSE lock

StoragePlan(r) == req[r].plan
Pseudo(r) == DOMAIN StoragePlan(r) \ Disks
Placed(r) == DOMAIN StoragePlan(r) \cap Disks

SetState(r, st) == req' = [req EXCEPT ![r].st = st]

(* SIZING: Size.                                                           *)
setStoragePlan(r) ==
    /\ At(r, "size")
    /\ \/ /\ req' = [req EXCEPT ![r].kind = IF @ = "none" THEN "sized" ELSE @]
          /\ Go(r, "enter") /\ Works
       \/ Fault("plan") /\ Leave(r, "fail") /\ UNCHANGED req
    /\ UNCHANGED <<vol, disk, sr, cs>>

EnterPlacement(r) ==
    /\ At(r, "enter")
    /\ \/ SetState(r, "PLACEMENT") /\ Go(r, "lock") /\ Works
       \/ Fault("plan") /\ Leave(r, "idle") /\ UNCHANGED req
    /\ UNCHANGED <<vol, disk, sr, cs>>

(* The animator finds out that the request is over.                        *)
GiveUp(r) ==
    /\ req[r].over /\ run[r].pc \in {"size", "enter", "lock"}
    /\ Leave(r, "fail")
    /\ UNCHANGED <<req, vol, disk, sr, cs, past>>

EnterUndo(r) ==
    /\ At(r, "fail")
    /\ \/ /\ req[r].st \in Waiting /\ Works
          /\ SetState(r, "UNDO_PLACEMENT") /\ Go(r, "undo")
       \/ /\ req[r].st = "SIZING" /\ Works
          /\ SetState(r, "UNDO_SIZING") /\ Go(r, "unsize")
       \/ Fault("plan") /\ Leave(r, "idle") /\ UNCHANGED req
    /\ UNCHANGED <<vol, disk, sr, cs>>

waitForLock(r) ==
    /\ run[r].pc \in {"lock", "undo"} /\ lock = None
    /\ lock' = r
    /\ run' = [run EXCEPT ![r].pc =
                  CASE @ = "lock" -> IF req[r].kind = "sized" THEN "select" ELSE "complete"
                    [] @ = "undo" -> IF OpOf[r] = "DELETE" /\ req[r].kind # "delete"
                                     THEN "tag" ELSE "unassign"]
    /\ UNCHANGED <<req, vol, disk, sr, cs, past>>

populatePlan(r) ==
    /\ At(r, "select")
    /\ \/ /\ \E sel \in SelectStorage(Need[VolOf[r]]) :
                req' = [req EXCEPT ![r].kind = "full", ![r].plan = PlanFor(sel, Need[VolOf[r]])]
          /\ Go(r, "complete") \/ (req[r].over /\ Leave(r, "fail"))
          /\ Works
       \/ Fault("plan") /\ Leave(r, "idle") /\ UNCHANGED req
    /\ UNCHANGED <<vol, disk, sr, cs>>

(* The StorageRequest that holds a claim of the request for a key, as the  *)
(* cluster state has it: there may be more than one, and any is found.     *)
ClaimsFor(r, k) ==
    {s \in DOMAIN cs.srs : r \in DOMAIN cs.srs[s].claims /\ cs.srs[s].claims[r].key = k}

Unclaim(r, S) ==
    cs' = [cs EXCEPT !.srs = [s \in DOMAIN @ |-> IF s \in S THEN RemoveClaims(@, {r})[s] ELSE @[s]]]

Replaced(plan, done, found) ==
    [x \in (DOMAIN plan \ done) \cup {cs.srs[found[k]].disk : k \in done} |->
        IF \E k \in done : cs.srs[found[k]].disk = x
        THEN plan[CHOOSE k \in done : cs.srs[found[k]].disk = x] ELSE plan[x]]

handleCompletedStorageRequests(r) ==
    /\ At(r, "complete")
    /\ \E found \in [{k \in Pseudo(r) : ClaimsFor(r, k) # {}} -> DOMAIN cs.srs] :
          LET in(st) == {k \in DOMAIN found : cs.srs[found[k]].st = st}
              done == in("SUCCEEDED")
          IN  /\ \A k \in DOMAIN found : found[k] \in ClaimsFor(r, k)
              /\ \/ \* a StorageRequest failed: those after it are not looked at
                    /\ \E f \in in("FAILED") : \E first \in SUBSET done :
                          /\ Unclaim(r, {found[k] : k \in first \cup {f}})
                          /\ req' = [req EXCEPT ![r].plan = Replaced(@, first, found)]
                    /\ Leave(r, "fail") /\ Works
                 \/ /\ in("FAILED") = {}
                    /\ Unclaim(r, {found[k] : k \in done})
                    /\ req' = [req EXCEPT ![r].plan = Replaced(@, done, found)]
                    /\ \/ /\ run' = [run EXCEPT ![r] = [Idle EXCEPT !.pc = "claim",
                                        !.held = DOMAIN found \ done, !.active = DOMAIN found # done]]
                          /\ UNCHANGED lock
                       \/ done # {} /\ req[r].over /\ Leave(r, "fail")
                    /\ Works
                 \/ /\ in("FAILED") = {} /\ done # {}
                    /\ Unclaim(r, {found[k] : k \in done})
                    /\ CallFails("plan") /\ Leave(r, "idle")
                    /\ missed' = missed \cup {<<r, cs.srs[found[k]].disk>> : k \in done}
                    /\ UNCHANGED <<req, torn>>
    /\ UNCHANGED <<vol, disk, sr>>

(* AddClaim: an existing claim of the request grows.                       *)
AddClaim(r, k, s) ==
    LET old == cs.srs[s].claims
        size == StoragePlan(r)[k].size + (IF r \in DOMAIN old THEN old[r].size ELSE 0)
        claim == [size |-> size, key |-> k]
        rem == cs.srs[s].rem - StoragePlan(r)[k].size
    IN  /\ sr' = [sr EXCEPT ![s].claims = Put(@, r, claim), ![s].rem = rem]
        /\ cs' = [cs EXCEPT !.srs[s].claims = Put(@, r, claim), !.srs[s].rem = rem]

claimFromExistingStorageRequests(r) ==
    LET todo == {k \in Pseudo(r) \ run[r].held : StoragePlan(r)[k].from # None}
    IN  /\ At(r, "claim")
        /\ \/ /\ todo = {}
              /\ run' = [run EXCEPT ![r].pc = "issue"] /\ UNCHANGED <<lock, sr, cs>> /\ Works
           \/ \E k \in todo : LET s == StoragePlan(r)[k].from IN
                 \/ s \notin DOMAIN cs.srs /\ Leave(r, "replan") /\ UNCHANGED <<sr, cs>> /\ Works
                 \/ /\ s \in DOMAIN cs.srs /\ cs.srs[s].st = "FAILED"
                    /\ Mark(r, k) /\ UNCHANGED <<sr, cs>> /\ Works
                 \/ /\ s \in DOMAIN cs.srs /\ cs.srs[s].st # "FAILED"
                    /\ \/ /\ StoragePlan(r)[k].size <= cs.srs[s].rem
                          /\ AddClaim(r, k, s) /\ Works
                          /\ run' = [run EXCEPT ![r].held = @ \cup {k}, ![r].active = TRUE,
                                                ![r].changed = TRUE]
                          /\ UNCHANGED lock
                       \/ /\ \/ StoragePlan(r)[k].size > cs.srs[s].rem /\ Works
                             \/ Fault("claim")
                          /\ Leave(r, "idle") /\ UNCHANGED <<sr, cs>>
        /\ UNCHANGED <<req, vol, disk>>

recomputeStoragePlan(r) ==
    /\ At(r, "replan")
    /\ cs' = [cs EXCEPT !.srs = RemoveClaims(@, {r})]
    /\ \/ /\ req' = [req EXCEPT ![r] = [@ EXCEPT !.st = "SIZING", !.kind = "none", !.plan = Empty]]
          /\ torn' = torn \cup {d \in DOMAIN StoragePlan(r) \cap Disks : r \in disk[d].tags}
          /\ UNCHANGED <<faults, missed>>
       \/ Fault("plan") /\ UNCHANGED req
    /\ Leave(r, "idle")
    /\ UNCHANGED <<vol, disk, sr>>

NewRequest(r, k) ==
    LET size == StoragePlan(r)[k].size
    IN  [st |-> "active", op |-> "PROVISION", disk |-> None,
         size |-> IF layout = "shared" THEN FixedParcels ELSE Max({size, MinParcels}),
         rem |-> IF layout = "shared" THEN FixedParcels - size ELSE 0,
         claims |-> [q \in {r} |-> [size |-> size, key |-> k]]]

issueNewStorageRequests(r) ==
    LET todo == {k \in Pseudo(r) \ run[r].held : StoragePlan(r)[k].from = None}
    IN  /\ At(r, "issue")
        /\ \/ todo = {} /\ Go(r, "allocate") /\ UNCHANGED <<sr, cs>> /\ Works
           \/ /\ \E k \in todo : \E s \in NewSr :
                    /\ sr' = [sr EXCEPT ![s] = NewRequest(r, k)]
                    /\ cs' = [cs EXCEPT !.srs = Put(@, s, [st |-> "active", disk |-> None,
                                  claims |-> NewRequest(r, k).claims, rem |-> NewRequest(r, k).rem])]
                    /\ run' = [run EXCEPT ![r].held = @ \cup {k}, ![r].active = TRUE,
                                          ![r].changed = TRUE]
              /\ UNCHANGED lock /\ Works
           \/ todo # {} /\ Fault("create") /\ Leave(r, "idle") /\ UNCHANGED <<sr, cs>>
        /\ UNCHANGED <<req, vol, disk>>

(* StorageUpdate: the object in the cluster state is changed first, and    *)
(* replaced by the one that was written if the call succeeds.  If it fails *)
(* the change in memory stays.                                             *)
StorageUpdate(r, d, avail, tags) ==
    \/ /\ disk' = [disk EXCEPT ![d].avail = avail, ![d].tags = tags]
       /\ cs' = Refresh(d, disk'[d])
       /\ run' = [run EXCEPT ![r].held = @ \cup {d}, ![r].changed = TRUE]
       /\ missed' = missed \ {<<r, d>>}
       /\ Judges(d)
       /\ UNCHANGED <<lock, faults>>
    \/ /\ cs' = Refresh(d, [LookupStorage(d) EXCEPT !.avail = avail, !.tags = {r}])
       /\ CallFails("storage") /\ Leave(r, "idle")
       /\ missed' = missed \cup {<<r, d>>}
       /\ Judges(d)
       /\ UNCHANGED disk

(* The tag of the request is there, or is not, so there is nothing to do.  *)
AlreadyDone(r, d) == Mark(r, d) /\ Judges(d) /\ UNCHANGED <<disk, cs, faults, missed>>

allocateStorageCapacityTwice(r) ==   \* a retry takes the capacity again
    LET todo == Placed(r) \ run[r].held
    IN  /\ At(r, "allocate")
        /\ \/ todo = {} /\ Go(r, "wait") /\ UNCHANGED <<disk, cs>> /\ Works
           \/ \E d \in todo :
                 \/ /\ d \notin DOMAIN cs.storage
                    /\ Leave(r, "fail") /\ UNCHANGED <<disk, cs>> /\ Works
                 \/ /\ d \in DOMAIN cs.storage
                    /\ LET avail == cs.storage[d].avail - StoragePlan(r)[d].size IN
                       \/ avail < 0 /\ Leave(r, "fail") /\ UNCHANGED <<disk, cs>> /\ Works
                       \/ avail >= 0 /\ StorageUpdate(r, d, avail, disk[d].tags \cup {r})
        /\ UNCHANGED <<req, vol, sr>>

allocateStorageCapacity(r) ==
    LET todo == Placed(r) \ run[r].held
    IN  /\ At(r, "allocate")
        /\ \/ todo = {} /\ Go(r, "wait") /\ UNCHANGED <<disk, cs>> /\ Works
           \/ \E d \in todo :
                 \/ /\ d \notin DOMAIN cs.storage
                    /\ Leave(r, "fail") /\ UNCHANGED <<disk, cs>> /\ Works
                 \/ /\ d \in DOMAIN cs.storage /\ r \in cs.storage[d].tags
                    /\ AlreadyDone(r, d)
                 \/ /\ d \in DOMAIN cs.storage /\ r \notin cs.storage[d].tags
                    /\ LET avail == cs.storage[d].avail - StoragePlan(r)[d].size IN
                       \/ avail < 0 /\ Leave(r, "fail") /\ UNCHANGED <<disk, cs>> /\ Works
                       \/ avail >= 0 /\ StorageUpdate(r, d, avail, disk[d].tags \cup {r})
        /\ UNCHANGED <<req, vol, sr>>

waitForStorageRequests(r) ==
    /\ At(r, "wait")
    /\ \/ ~run[r].active /\ Go(r, "assign") /\ UNCHANGED req /\ Works
       \/ /\ run[r].active /\ Leave(r, "idle") /\ Works
          /\ IF run[r].changed THEN SetState(r, "STORAGE_WAIT") ELSE UNCHANGED req
       \/ /\ run[r].active /\ run[r].changed
          /\ Fault("plan") /\ Leave(r, "fail") /\ UNCHANGED req
    /\ UNCHANGED <<vol, disk, sr, cs>>

(* A handler that panics fails its request and ends, but nothing gives the *)
(* guard back that it holds.                                               *)
Panic(r) ==
    /\ run' = [run EXCEPT ![r] = Idle]
    /\ SetState(r, "FAILED")
    /\ UNCHANGED <<vol, lock>> /\ Works

assignStorageInVolumeSeries(r) ==
    LET v == VolOf[r]
        had(d) == IF d \in DOMAIN vol[v].parcels THEN vol[v].parcels[d] ELSE 0
        sum == [d \in DOMAIN vol[v].parcels \cup DOMAIN StoragePlan(r) |->
                   had(d) + (IF d \in DOMAIN StoragePlan(r) THEN StoragePlan(r)[d].size ELSE 0)]
    IN  /\ At(r, "assign")
        /\ \/ r \in vol[v].tags /\ Leave(r, "placed") /\ UNCHANGED <<req, vol>> /\ Works
           \/ /\ r \notin vol[v].tags /\ ~ DOMAIN StoragePlan(r) \subseteq DOMAIN cs.storage
              /\ Panic(r)
           \/ /\ r \notin vol[v].tags /\ DOMAIN StoragePlan(r) \subseteq DOMAIN cs.storage
              /\ \/ /\ vol' = [vol EXCEPT ![v] = [parcels |-> sum, tags |-> @.tags \cup {r}]]
                    /\ Leave(r, "placed") /\ Works
                 \/ Fault("volume") /\ Leave(r, "idle") /\ UNCHANGED vol
              /\ UNCHANGED req
        /\ UNCHANGED <<disk, sr, cs>>

NextDaemon(r) ==
    /\ At(r, "placed")
    /\ \/ SetState(r, "PLACED") /\ Works
       \/ Fault("plan") /\ UNCHANGED req
    /\ Leave(r, "idle")
    /\ UNCHANGED <<vol, disk, sr, cs>>

(* UNDO_PLACEMENT: of a request that failed, or of one that deletes its    *)
(* volume, which first makes a plan of what the volume has.                *)
tagObjects(r) ==
    LET v == VolOf[r]
        todo == DOMAIN vol[v].parcels \ run[r].held
    IN  /\ At(r, "tag")
        /\ \/ /\ todo = {}
              /\ \/ /\ vol' = [vol EXCEPT ![v].tags = @ \cup {r}]
                    /\ Go(r, "replace") /\ Works
                 \/ Fault("volume") /\ Leave(r, "idle") /\ UNCHANGED vol
              /\ UNCHANGED <<disk, cs>>
           \/ /\ \E d \in todo : LET obj == LookupStorage(d) IN
                    \/ /\ obj.st = "none" \/ r \in obj.tags
                       /\ AlreadyDone(r, d)
                    \/ /\ obj.st # "none" /\ r \notin obj.tags
                       /\ StorageUpdate(r, d, obj.avail, disk[d].tags \cup {r})
              /\ UNCHANGED vol
        /\ UNCHANGED <<req, sr>>

populateDeletionPlan(r) ==
    LET parcels == vol[VolOf[r]].parcels
        known == {d \in DOMAIN parcels : LookupStorage(d).st # "none"}
    IN  /\ At(r, "replace")
        /\ \/ /\ req' = [req EXCEPT ![r].kind = "delete",
                                    ![r].plan = [d \in known |-> [size |-> parcels[d], from |-> None]]]
              /\ Go(r, "unassign") /\ Works
           \/ Fault("plan") /\ Leave(r, "idle") /\ UNCHANGED req
        /\ UNCHANGED <<vol, disk, sr, cs>>

removeStorageFromVolumeSeries(r) ==
    LET v == VolOf[r]
        had(d) == IF d \in DOMAIN vol[v].parcels THEN vol[v].parcels[d] ELSE 0
        left == [d \in DOMAIN vol[v].parcels \cup DOMAIN StoragePlan(r) |->
                    had(d) - (IF d \in DOMAIN StoragePlan(r) THEN StoragePlan(r)[d].size ELSE 0)]
    IN  /\ At(r, "unassign")
        /\ \/ r \notin vol[v].tags /\ Go(r, "return") /\ UNCHANGED <<req, vol>> /\ Works
           \/ /\ r \in vol[v].tags /\ \E d \in DOMAIN StoragePlan(r) : LookupStorage(d).st = "none"
              /\ Panic(r)
           \/ /\ r \in vol[v].tags /\ \A d \in DOMAIN StoragePlan(r) : LookupStorage(d).st # "none"
              /\ \/ /\ vol' = [vol EXCEPT ![v] = [parcels |-> Drop(left, {d \in DOMAIN left : left[d] = 0}),
                                                  tags |-> @.tags \ {r}]]
                    /\ Go(r, "return") /\ Works
                 \/ Fault("volume") /\ Leave(r, "idle") /\ UNCHANGED vol
              /\ UNCHANGED req
        /\ UNCHANGED <<disk, sr, cs>>

releaseStorageCapacity(r) ==
    LET todo == Placed(r) \ run[r].held
    IN  /\ At(r, "return")
        /\ \/ /\ todo = {} /\ Works
              /\ cs' = [cs EXCEPT !.srs = RemoveClaims(@, {r})]
              /\ Leave(r, "undone") /\ UNCHANGED disk
           \/ \E d \in todo : LET obj == LookupStorage(d) IN
                 \/ /\ obj.st = "none" \/ r \notin obj.tags
                    /\ AlreadyDone(r, d)
                 \/ /\ obj.st # "none" /\ r \in obj.tags
                    /\ StorageUpdate(r, d,
                           IF layout = "shared" THEN obj.avail + StoragePlan(r)[d].size ELSE obj.total,
                           disk[d].tags \ {r})
        /\ UNCHANGED <<req, vol, sr>>

LeaveUndo(r) ==
    /\ At(r, "undone")
    /\ \/ OpOf[r] = "DELETE" /\ SetState(r, "SUCCEEDED") /\ Leave(r, "idle") /\ Works
       \/ OpOf[r] = "PLACE" /\ SetState(r, "UNDO_SIZING") /\ Go(r, "unsize") /\ Works
       \/ Fault("plan") /\ Leave(r, "idle") /\ UNCHANGED req
    /\ UNCHANGED <<vol, disk, sr, cs>>

UndoSize(r) ==
    /\ At(r, "unsize")
    /\ \/ req' = [req EXCEPT ![r] = [@ EXCEPT !.st = "FAILED", !.kind = "none", !.plan = Empty]] /\ Works
       \/ Fault("plan") /\ UNCHANGED req
    /\ Leave(r, "idle")
    /\ UNCHANGED <<vol, disk, sr, cs>>

Crash ==
    /\ Fault("crash")
    /\ cs' = NewCS
    /\ lock' = None
    /\ loop' = LoopIdle
    /\ run' = [r \in Requests |-> Idle]
    /\ UNCHANGED <<layout, db>>

----------------------------------------------------------------------------
Forward(r) ==
    \/ setStoragePlan(r) \/ EnterPlacement(r) \/ populatePlan(r)
    \/ handleCompletedStorageRequests(r) \/ claimFromExistingStorageRequests(r)
    \/ recomputeStoragePlan(r) \/ issueNewStorageRequests(r)
    \/ allocateStorageCapacity(r) \/ waitForStorageRequests(r)
    \/ assignStorageInVolumeSeries(r) \/ NextDaemon(r)

Undo(r) ==
    \/ EnterUndo(r) \/ tagObjects(r) \/ populateDeletionPlan(r)
    \/ removeStorageFromVolumeSeries(r) \/ releaseStorageCapacity(r)
    \/ LeaveUndo(r) \/ UndoSize(r)

Handler(r) == (Forward(r) \/ Undo(r)) /\ UNCHANGED <<layout, loop>>
TakeGuard(r) == waitForLock(r) /\ UNCHANGED <<layout, loop>>
Canceled(r) == GiveUp(r) /\ UNCHANGED <<layout, loop>>

RunLoop == LoopFails \/ ReloadRequests \/ ReloadStorage \/ ReleaseUnusedStorage \/ Dispatch

Next ==
    \/ \E r \in Requests : Submit(r) \/ Cancel(r) \/ Downstream(r) \/ Handler(r) \/ TakeGuard(r) \/ Canceled(r)
    \/ \E s \in Srs : StorageRequestStep(s)
    \/ LoopStarts \/ RunLoop \/ Crash

Spec == Init /\ [][Next]_vars

(* Goroutines run, the guard is first come, first served (module           *)
(* CriticalSection), StorageRequests end (RequestsEnd of StorageRequest),  *)
(* and so do the other parts of a request (Terminates of VsrAnimator).     *)
FairSpec ==
    /\ Spec
    /\ SF_vars(LoopStarts) /\ WF_vars(RunLoop)
    /\ \A r \in Requests : WF_vars(Handler(r)) /\ SF_vars(TakeGuard(r)) /\ WF_vars(Downstream(r))
    /\ \A s \in Srs : WF_vars(StorageRequestStep(s))

----------------------------------------------------------------------------
DiskObject ==
    [st : {"none", "provisioning", "detached", "attached", "busy"}, total : Nat, avail : Nat,
     tags : SUBSET Requests]

(* Available capacity is never negative, and the objects are of the right  *)
(* shape.                                                                  *)
TypeOK ==
    /\ layout \in Layouts
    /\ \A r \in Requests :
          /\ req[r].st \in ClusterdStates \cup Terminal \cup {"none", "PLACED"}
          /\ req[r].kind \in {"none", "sized", "full", "delete"}
          /\ DOMAIN StoragePlan(r) \subseteq Disks \cup Keys
          /\ \A k \in DOMAIN StoragePlan(r) : StoragePlan(r)[k] \in [size : Nat, from : Srs \cup {None}]
    /\ \A v \in Volumes :
          /\ DOMAIN vol[v].parcels \subseteq Disks /\ vol[v].tags \subseteq Requests
          /\ \A d \in DOMAIN vol[v].parcels : vol[v].parcels[d] \in Nat
    /\ disk \in [Disks -> DiskObject]
    /\ \A s \in Srs :
          /\ sr[s].st \in {"none", "active"} \cup Terminal
          /\ sr[s].disk \in Disks \cup {None} /\ {sr[s].size, sr[s].rem} \subseteq Nat
    /\ \A d \in DOMAIN cs.storage : cs.storage[d] \in DiskObject
    /\ lock \in Requests \cup {"loop", None}

----------------------------------------------------------------------------
(* What a request has taken from a Storage object and the volume does not  *)
(* show (yet, or any more): the tags decide.                               *)
InFlight(r, d) ==
    IF /\ req[r].st \notin Terminal \cup {"none"}
       /\ d \in DOMAIN StoragePlan(r) /\ r \in disk[d].tags /\ r \notin vol[VolOf[r]].tags
       /\ OpOf[r] = "DELETE" => req[r].kind = "delete"
    THEN StoragePlan(r)[d].size ELSE 0

Allocated(d) ==
    MapThenSumSet(LAMBDA v : IF d \in DOMAIN vol[v].parcels THEN vol[v].parcels[d] ELSE 0, Volumes)
    + MapThenSumSet(LAMBDA r : InFlight(r, d), Requests)

(* What a Storage object says is available is what no volume and no        *)
(* placement under way has, whatever was retried, undone or cut short:     *)
(* capacity is taken once (the tags of place.go), and given back once.     *)
(* The exception is `torn': a Storage write that fails leaves its change   *)
(* in the cluster state (place.go:877, 921), and until the run loop has    *)
(* reloaded it another request takes that for what is stored; and a        *)
(* request that starts over with a new plan forgets the storage that it    *)
(* has taken for the old one (place.go:755).                               *)
CapacityAccounted ==
    \A d \in Disks \ torn : disk[d].st # "none" => disk[d].avail + Allocated(d) = disk[d].total

(* Storage on which a volume has parcels, or a placement has taken some,   *)
(* is not released as unused storage (release_storage.go), and does not    *)
(* disappear; again but for storage whose capacity was got wrong (`torn'). *)
UsedStorageIsKept ==
    /\ \A d \in Disks \ torn : Allocated(d) > 0 =>
          ~ \E s \in Srs : sr[s].st = "active" /\ sr[s].op = "RELEASE" /\ sr[s].disk = d
    /\ \A v \in Volumes : \A d \in DOMAIN vol[v].parcels \ torn : disk[d].st # "none"

(* A claim of a request that waits for storage which is there by now.      *)
Outstanding(r, s) ==
    /\ sr[s].st = "SUCCEEDED" /\ r \in DOMAIN sr[s].claims
    /\ req[r].st \in Waiting /\ req[r].kind = "full"
    /\ ~ req[r].over /\ run[r].pc \notin {"fail", "replan"}
    /\ \A t \in Srs : r \in DOMAIN sr[t].claims \/ (\E k \in Pseudo(r) : StoragePlan(r)[k].from = t)
                        => sr[t].st # "FAILED"
    /\ \/ sr[s].claims[r].key \in DOMAIN StoragePlan(r)
       \/ sr[s].disk \in DOMAIN StoragePlan(r) /\ r \notin disk[sr[s].disk].tags
    /\ <<r, sr[s].disk>> \notin missed

(* Storage that was provisioned for a request stays there until it takes   *)
(* it, with what it and others have claimed: it is neither given to others *)
(* nor released, also after a restart that has lost the claims.  Not so    *)
(* once the write of the plan, or the one that takes the storage, has      *)
(* failed (`missed'): the claim was given up before (place.go:673), and    *)
(* nothing shows that the request is due.                                  *)
ClaimsHold ==
    \A s \in Srs :
       LET claimants == {r \in Requests : Outstanding(r, s)}
       IN  claimants # {} /\ sr[s].disk \notin torn =>
              /\ disk[sr[s].disk].st = "attached"
              /\ ~ \E t \in Srs : sr[t].st = "active" /\ sr[t].disk = sr[s].disk
              /\ MapThenSumSet(LAMBDA r : sr[s].claims[r].size, claimants) <= disk[sr[s].disk].avail

(* Every request gets its storage, or gives up.                            *)
AllPlaced == \A r \in Requests : req[r].st \notin ClusterdStates

(* Storage that is not used in the end is released: nothing is left of     *)
(* placements that failed or of volumes that were deleted.                 *)
NothingUnused == \A d \in Disks : Allocated(d) > 0 \/ disk[d].st # "attached"
=============================================================================
