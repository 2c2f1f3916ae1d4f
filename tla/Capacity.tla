------------------------------ MODULE Capacity ------------------------------
(***************************************************************************)
(* How centrald accounts for capacity: pkg/centrald/vreq/                  *)
(* allocate_capacity.go and bind.go.                                       *)
(*                                                                         *)
(* A ServicePlanAllocation (SPA) holds the capacity that an account may    *)
(* use of a service plan in a cluster; the SPAs of an account and cluster  *)
(* share one Pool per type of storage.  ALLOCATE_CAPACITY sets the         *)
(* capacity of a SPA and reserves it in the pools, DELETE_SPA takes it     *)
(* away; BIND, CHANGE_CAPACITY and UNBIND move capacity between a SPA and  *)
(* a volume.  All are sequences of updates of one object each, made under  *)
(* one lock; a request marks the SPA as being in use by it, so that what a *)
(* restart or a failed call interrupts can be told from what is complete.  *)
(*                                                                         *)
(* There is one account and one cluster, so that a SPA is named by its     *)
(* service plan.  A step is a call of the API, with the checks that its    *)
(* handler makes, and what the request does before the next one.           *)
(***************************************************************************)
EXTENDS Integers, FiniteSets, FiniteSetsExt

CONSTANTS Plan, Type, Vol, Request, None,
          KindOf,      \* request -> its operation
          PlanOf,      \* request or volume -> service plan
          VolOf,       \* request of a volume -> volume
          NewTotal,    \* ALLOCATE_CAPACITY -> totalCapacityBytes
          NewSize, NewAdj, \* CHANGE_CAPACITY -> sizeBytes, spaAdditionalBytes, or -1
          InitialSize, \* volume -> sizeBytes
          Cancelable,  \* requests that may be canceled, or run out of time
          Failing,     \* <<request, what may fail while it runs>>
          MaxFaults    \* bound: failures, restarts and cancels

VolumeKinds == {"BIND", "UNBIND", "CHANGE_CAPACITY"}
SpaKinds == {"ALLOCATE_CAPACITY", "DELETE_SPA"}
OfKind(K) == {r \in Request : KindOf[r] \in K}

ASSUME CapacityAssumption ==
    /\ KindOf \in [Request -> VolumeKinds \cup SpaKinds]
    /\ PlanOf \in [Request \cup Vol -> Plan]
    /\ VolOf \in [OfKind(VolumeKinds) -> Vol]
    /\ \A r \in OfKind(VolumeKinds) : PlanOf[r] = PlanOf[VolOf[r]]
    /\ NewTotal \in [OfKind({"ALLOCATE_CAPACITY"}) -> Nat \ {0}]
    /\ {NewSize, NewAdj} \subseteq [OfKind({"CHANGE_CAPACITY"}) -> Nat \cup {-1}]
    /\ InitialSize \in [Vol -> Nat \ {0}]
    /\ Cancelable \subseteq Request /\ None \notin Request
ASSUME CapacityFailing ==
    Failing \subseteq Request \X {"request", "state", "spa", "pool", "volume",
                                  "account", "read", "answer", "later", "crash"}
ASSUME CapacityBounds == MaxFaults \in Nat

VARIABLES
    spa,    \* ServicePlanAllocation objects
    pool,   \* Pool objects
    vol,    \* VolumeSeries objects
    auth,   \* service plans, domain and cluster that list the account as authorized
    req,    \* VolumeSeriesRequest objects
    lock,   \* holder of reservationCS
    run,    \* the handler of each request, in memory
    faults, \* number of failures so far
    moves   \* history: what BIND, CHANGE_CAPACITY and UNBIND did with SPA and volume

vars == <<spa, pool, vol, auth, req, lock, run, faults, moves>>

NoSpa == [live |-> FALSE, total |-> 0, free |-> 0, ops |-> {}, creator |-> None,
          deleting |-> FALSE, res |-> {}]
NoPool == [live |-> FALSE, res |-> [k \in Plan |-> 0]]
NoRes == [t \in Type |-> -1]                 \* a reservation map without entries
NoRequest ==
    [st |-> "none", canceled |-> FALSE, spa |-> FALSE, made |-> FALSE, waited |-> FALSE,
     oldSize |-> -1, oldAdj |-> -1, saved |-> -1, planned |-> FALSE, cur |-> NoRes, des |-> NoRes]
Idle == [pc |-> "idle", q |-> NoRequest, seen |-> NoSpa, auth |-> {}, undo |-> FALSE, fail |-> FALSE]
SDC(k) == {k, "domain", "cluster"}

Init ==
    /\ spa = [k \in Plan |-> NoSpa]
    /\ pool = [t \in Type |-> NoPool]
    /\ vol = [v \in Vol |-> [bound |-> FALSE, size |-> InitialSize[v], adj |-> 0, alloc |-> {}]]
    /\ auth = {}
    /\ req = [r \in Request |-> NoRequest]
    /\ lock = None
    /\ run = [r \in Request |-> Idle]
    /\ faults = 0
    /\ moves = [done |-> {}, amiss |-> {}]

-----------------------------------------------------------------------------
Terminal == {"SUCCEEDED", "FAILED", "CANCELED"}
Active(r) == req[r].st \notin Terminal \cup {"none"}
K(r) == PlanOf[r]
At(r, pc) == run[r].pc = pc
Bound(k) == {v \in Vol : vol[v].bound /\ PlanOf[v] = k}
Sizes(k) == MapThenSumSet(LAMBDA v : vol[v].size, Bound(k))
Owns(r) == r \in run[r].seen.ops

\* A call of some kind fails; it may be carried out and only its answer be lost.
Fails(r, kind) == <<r, kind>> \in Failing /\ faults < MaxFaults /\ faults' = faults + 1
Fault(r, kind) == Fails(r, kind) /\ UNCHANGED moves
AnswerIsLost(r) == <<r, "answer">> \in Failing
Works == UNCHANGED <<faults, moves>>

\* The handler goes on with sub-state pc; with a change of what it holds; it
\* returns to be called again later, releasing the lock, or for good.
Becomes(r, x) == run' = [run EXCEPT ![r] = x] /\ UNCHANGED lock
Go(r, pc) == Becomes(r, [run[r] EXCEPT !.pc = pc])
Leave(r, x) == run' = [run EXCEPT ![r] = x] /\ lock' = IF lock = r THEN None ELSE lock
RetryLater(r) == Leave(r, Idle)
Done(r) == Leave(r, [run[r] EXCEPT !.pc = "done"])
SetRequestError(r) == Leave(r, [run[r] EXCEPT !.pc = "done", !.fail = TRUE])

Proceed(r, x) == IF x.pc = "done" THEN Leave(r, x) ELSE Becomes(r, x)

\* updateRequest writes what the handler has in memory and keeps cancelRequested.
UpdateRequest(r, q) == req' = [req EXCEPT ![r] = [q EXCEPT !.canceled = req[r].canceled]]
\* SetAndUpdateRequestMessage, with RetryLater
SaveAndRetry(r) == UpdateRequest(r, run[r].q) /\ RetryLater(r)
WriteRequest(r, q, pc) ==
    \/ Works /\ UpdateRequest(r, q) /\ Becomes(r, [run[r] EXCEPT !.pc = pc, !.q = q])
    \/ Fault(r, "request") /\ RetryLater(r) /\ (UNCHANGED req \/ (AnswerIsLost(r) /\ UpdateRequest(r, q)))
SetSpa(r, s) == spa' = [spa EXCEPT ![K(r)] = s]

\* History: the update of the SPA takes or returns the capacity of request r.  It
\* is amiss if this is done again, if it returns what the request has not taken,
\* or undoes a CHANGE_CAPACITY of spaAdditionalBytes after vsSet.
Counted(r) ==
    LET pc == run[r].pc
        again == <<r, pc>> \in moves.done
        unpaid == KindOf[r] # "UNBIND" /\ <<r, "ReserveCapacity">> \notin moves.done
        late == run[r].q.oldAdj # -1 /\ <<r, "CommitVS">> \in moves.done
        amiss == again \/ (pc = "ReturnCapacity" /\ (unpaid \/ late)) IN
    moves' = IF spa' = spa \/ pc \notin {"ReserveCapacity", "ReturnCapacity"} THEN moves
             ELSE [done |-> moves.done \cup {<<r, pc>>},
                   amiss |-> moves.amiss \cup (IF amiss THEN {r} ELSE {})]

\* servicePlanAllocationValidateSizes
SizesAreValid(k, s) == s.free >= 0 /\ s.free <= s.total /\ s.free + Sizes(k) <= s.total

\* A call that sets the SPA to s and goes on with pc; it may be refused for the
\* sizes, fail, or be carried out without an answer.
SpaUpdater(r, s, pc) ==
    LET ok == SizesAreValid(K(r), s) IN
    \/ /\ ok /\ UNCHANGED faults /\ SetSpa(r, s) /\ Counted(r) /\ UNCHANGED req
       /\ Proceed(r, [run[r] EXCEPT !.pc = pc, !.seen = s])
    \/ ~ok /\ Works /\ SaveAndRetry(r) /\ UNCHANGED spa
    \/ /\ Fails(r, "spa") /\ SaveAndRetry(r)
       /\ (UNCHANGED spa \/ (AnswerIsLost(r) /\ ok /\ SetSpa(r, s))) /\ Counted(r)

-----------------------------------------------------------------------------
\* volumeSeriesRequestCreate: a request of a volume excludes others, and its
\* volume must be in the right state.
Create(r) ==
    /\ req[r].st = "none"
    /\ CASE KindOf[r] = "ALLOCATE_CAPACITY" -> TRUE
         [] KindOf[r] = "DELETE_SPA" -> spa[K(r)].live
         [] OTHER -> \A s \in OfKind(VolumeKinds) : VolOf[s] = VolOf[r] => ~Active(s)
    /\ CASE KindOf[r] = "BIND" -> ~vol[VolOf[r]].bound
         [] KindOf[r] = "UNBIND" -> vol[VolOf[r]].bound
         [] KindOf[r] = "CHANGE_CAPACITY" ->
              /\ NewSize[r] # -1 => NewSize[r] > vol[VolOf[r]].size
              /\ NewAdj[r] # -1 => vol[VolOf[r]].bound /\ NewAdj[r] # vol[VolOf[r]].adj
         [] OTHER -> TRUE
    /\ req' = [req EXCEPT ![r].st = "NEW"]
    /\ UNCHANGED <<spa, pool, vol, auth, lock, run, faults, moves>>

\* volumeSeriesRequestCancel, or completeByTime passes.
Cancel(r) ==
    /\ r \in Cancelable /\ Active(r) /\ ~req[r].canceled
    /\ faults < MaxFaults /\ faults' = faults + 1
    /\ req' = [req EXCEPT ![r].canceled = TRUE]
    /\ UNCHANGED <<spa, pool, vol, auth, lock, run, moves>>

UndoState == {"UNDO_BINDING", "UNDO_CHANGING_CAPACITY", "UNDO_ALLOCATING_CAPACITY"}
ForwardStateOf(r) ==
    CASE KindOf[r] = "BIND" -> "BINDING"
      [] KindOf[r] = "UNBIND" -> "UNDO_BINDING"
      [] KindOf[r] = "CHANGE_CAPACITY" -> "CHANGING_CAPACITY"
      [] KindOf[r] = "ALLOCATE_CAPACITY" -> "ALLOCATING_CAPACITY"
      [] KindOf[r] = "DELETE_SPA" -> "DELETING_SPA"
UndoStateOf(r) ==
    CASE KindOf[r] = "BIND" -> "UNDO_BINDING"
      [] KindOf[r] = "CHANGE_CAPACITY" -> "UNDO_CHANGING_CAPACITY"
      [] KindOf[r] = "ALLOCATE_CAPACITY" -> "UNDO_ALLOCATING_CAPACITY"
      [] OTHER -> "none"
FirstOf(r) ==
    CASE KindOf[r] \in SpaKinds -> "LoadObjects"
      [] KindOf[r] = "BIND" -> "BindLoadObjects"
      [] KindOf[r] = "CHANGE_CAPACITY" -> "BindWaitForLock"
      [] OTHER -> "UndoStart"
FirstUndoOf(r) == IF KindOf[r] = "ALLOCATE_CAPACITY" THEN "UndoFindSPA" ELSE "UndoStart"

\* requestAnimator: a request is taken up in the state it is in; the new state
\* is written before the handler is called.  CAPACITY_WAIT is left in memory only.
Dispatch(r) ==
    LET recovering == req[r].st \in UndoState /\ KindOf[r] # "UNBIND"
        undo == recovering \/ (req[r].canceled /\ UndoStateOf(r) # "none")
        st == IF undo THEN UndoStateOf(r) ELSE ForwardStateOf(r)
        q == [req[r] EXCEPT !.st = st] IN
    /\ Active(r) /\ At(r, "idle") /\ req[r].st # "LATER"
    /\ \/ /\ req[r].canceled /\ UndoStateOf(r) = "none" /\ ~undo
          /\ Becomes(r, [Idle EXCEPT !.pc = "done", !.q = req[r]]) /\ Works /\ UNCHANGED req
       \/ /\ undo \/ ~req[r].canceled
          /\ Becomes(r, [Idle EXCEPT !.pc = IF undo THEN FirstUndoOf(r) ELSE FirstOf(r),
                                     !.q = q, !.undo = undo, !.fail = recovering])
          /\ IF st = req[r].st \/ (req[r].st = "CAPACITY_WAIT" /\ ~undo)
             THEN UNCHANGED req
             ELSE req' = [req EXCEPT ![r] = q]
          /\ Works
       \/ Fault(r, "state") /\ UNCHANGED <<req, run, lock>>
    /\ UNCHANGED <<spa, pool, vol, auth>>

\* What requestAnimator does when the handler returns: undo, go on with the
\* states of other daemons, or finish.
Finish(r) ==
    LET bad == run[r].fail \/ req[r].canceled
        end == IF run[r].fail THEN "FAILED" ELSE IF req[r].canceled THEN "CANCELED" ELSE "SUCCEEDED"
        to(st) == [run[r].q EXCEPT !.st = st] IN
    /\ At(r, "done")
    /\ \/ /\ bad /\ ~run[r].undo /\ UndoStateOf(r) # "none"
          /\ UpdateRequest(r, to(UndoStateOf(r))) /\ Works
          /\ Becomes(r, [run[r] EXCEPT !.pc = FirstUndoOf(r), !.q = to(UndoStateOf(r)), !.undo = TRUE])
       \/ /\ ~(bad /\ ~run[r].undo /\ UndoStateOf(r) # "none")
          /\ UpdateRequest(r, to(IF ~bad /\ UndoStateOf(r) # "none" THEN "LATER" ELSE end))
          /\ Works /\ RetryLater(r)
       \/ Fault(r, "state") /\ RetryLater(r) /\ UNCHANGED req
    /\ UNCHANGED <<spa, pool, vol, auth>>

\* External: the remaining states, of clusterd and agentd, succeed or are undone.
Later(r) ==
    /\ req[r].st = "LATER"
    /\ \/ ~req[r].canceled /\ Works /\ req' = [req EXCEPT ![r].st = "SUCCEEDED"]
       \/ ~req[r].canceled /\ Fault(r, "later") /\ req' = [req EXCEPT ![r].st = UndoStateOf(r)]
       \/ req[r].canceled /\ Works /\ req' = [req EXCEPT ![r].st = UndoStateOf(r)]
    /\ UNCHANGED <<spa, pool, vol, auth, lock, run>>

\* centrald restarts.
Crash ==
    /\ \E r \in Request : run[r].pc # "idle"
    /\ faults < MaxFaults /\ faults' = faults + 1
    /\ \A r \in Request : run[r].pc # "idle" => <<r, "crash">> \in Failing
    /\ run' = [r \in Request |-> Idle] /\ lock' = None
    /\ UNCHANGED <<spa, pool, vol, auth, req, moves>>

-----------------------------------------------------------------------------
(* allocate_capacity.go *)

\* What the plan reserves in each pool: the new total, none for DELETE_SPA.
Wanted(r) == IF KindOf[r] = "DELETE_SPA" THEN 0 ELSE NewTotal[r]
Deleting(r) == KindOf[r] = "DELETE_SPA"
Resize(s, total) == [s EXCEPT !.total = total, !.free = @ + total - s.total]

\* loadObjects: the lists of authorized accounts are read before the lock.
LoadObjects(r) ==
    /\ At(r, "LoadObjects")
    /\ \/ Works /\ Becomes(r, [run[r] EXCEPT !.auth = auth,
                      !.pc = IF run[r].undo THEN "UndoWaitForLock" ELSE "WaitForLock"])
       \/ Fault(r, "read") /\ RetryLater(r)
    /\ UNCHANGED <<spa, pool, vol, auth, req>>

AfterLock == [WaitForLock |-> "FindSPA", UndoWaitForLock |-> "RemoveCapacity",
              BindWaitForLock |-> "BindFindSPA", UndoBindWaitForLock |-> "UndoLoadSPA"]
WaitForLock(r) ==
    /\ run[r].pc \in DOMAIN AfterLock /\ lock = None
    /\ lock' = r /\ run' = [run EXCEPT ![r].pc = AfterLock[@]]
    /\ UNCHANGED <<spa, pool, vol, auth, req, faults, moves>>

\* findSPA, and if there is one validateVSRAgainstSPA: another request that is
\* active must not be using it, and what its volumes have must fit.
FindSPA(r) ==
    LET s == spa[K(r)]
        refused == /\ r \notin s.ops
                   /\ (\E o \in s.ops : Active(o)) \/ s.total - s.free > Wanted(r)
        next == IF ~s.live /\ Deleting(r) THEN "RemoveAccount"
                ELSE IF ~run[r].q.planned THEN "UpdatePlan"
                ELSE IF ~s.live THEN "CreateSPA" ELSE "MarkSPAInUse" IN
    /\ At(r, "FindSPA")
    /\ \/ Fault(r, "read") /\ SaveAndRetry(r)
       \/ s.live /\ refused /\ Works /\ SetRequestError(r) /\ UNCHANGED req
       \/ /\ ~(s.live /\ refused) /\ Works /\ UNCHANGED req
          /\ Becomes(r, [run[r] EXCEPT !.seen = s, !.pc = next, !.q.spa = @ \/ s.live])
    /\ UNCHANGED <<spa, pool, vol, auth>>

UpdatePlan(r) ==
    /\ At(r, "UpdatePlan")
    /\ WriteRequest(r, [run[r].q EXCEPT !.planned = TRUE],
                    IF run[r].seen.live THEN "MarkSPAInUse" ELSE "CreateSPA")
    /\ UNCHANGED <<spa, pool, vol, auth>>

CreateSPA(r) ==
    LET s == [NoSpa EXCEPT !.live = TRUE, !.ops = {r}, !.creator = r] IN
    /\ At(r, "CreateSPA")
    /\ \/ /\ Works /\ SetSpa(r, s) /\ UNCHANGED req
          /\ Becomes(r, [run[r] EXCEPT !.pc = "CreatePools", !.seen = s,
                                       !.q.made = TRUE, !.q.spa = TRUE])
       \/ Fault(r, "spa") /\ SaveAndRetry(r) /\ (UNCHANGED spa \/ (AnswerIsLost(r) /\ SetSpa(r, s)))
    /\ UNCHANGED <<pool, vol, auth>>

\* markSPAInUse replaces the mark of a request that has terminated.
MarkSPAInUseMutant(r) ==  \* the SPA is not marked
    At(r, "MarkSPAInUse") /\ Works /\ Go(r, "CreatePools") /\ UNCHANGED <<spa, pool, vol, auth, req>>
MarkSPAInUse(r) ==
    /\ At(r, "MarkSPAInUse")
    /\ \/ Owns(r) /\ Works /\ Go(r, "CreatePools") /\ UNCHANGED <<spa, req>>
       \/ /\ ~Owns(r)
          /\ SpaUpdater(r, [spa[K(r)] EXCEPT !.ops = {r}, !.deleting = @ \/ Deleting(r)], "CreatePools")
    /\ UNCHANGED <<pool, vol, auth>>

\* findPools, createPools: one after the other.
CreatePools(r) ==
    LET missing == {t \in Type : ~pool[t].live} IN
    /\ At(r, "CreatePools")
    /\ \/ missing = {} /\ Works /\ Go(r, "InitializeCRR") /\ UNCHANGED <<pool, req>>
       \/ /\ Works /\ UNCHANGED <<req, run, lock>>
          /\ \E t \in missing : pool' = [pool EXCEPT ![t].live = TRUE]
       \/ /\ missing # {} /\ Fault(r, "pool") /\ SaveAndRetry(r)
          /\ \/ UNCHANGED pool
             \/ AnswerIsLost(r) /\ \E t \in missing : pool' = [pool EXCEPT ![t].live = TRUE]
    /\ UNCHANGED <<spa, vol, auth>>

\* initializeCRR, unless an earlier attempt has: what the pools hold, and shall hold.
InitializeCRR(r) ==
    LET q == run[r].q IN
    /\ At(r, "InitializeCRR")
    /\ WriteRequest(r, IF q.des # NoRes THEN q
                       ELSE [q EXCEPT !.cur = [t \in Type |-> pool[t].res[K(r)]],
                                      !.des = [t \in Type |-> Wanted(r)]], "AddCapacity")
    /\ UNCHANGED <<spa, pool, vol, auth>>

\* setPoolCapacity: pool after pool is given its entry of res.
SetPoolCapacity(r, res, pc) ==
    LET todo == {t \in Type : res[t] # -1 /\ pool[t].live /\ pool[t].res[K(r)] # res[t]}
        set == \E t \in todo : pool' = [pool EXCEPT ![t].res[K(r)] = res[t]] IN
    /\ \/ todo = {} /\ Works /\ Go(r, pc) /\ UNCHANGED <<pool, req>>
       \/ Works /\ set /\ UNCHANGED <<req, run, lock>>
       \/ todo # {} /\ Fault(r, "pool") /\ SaveAndRetry(r) /\ (UNCHANGED pool \/ (AnswerIsLost(r) /\ set))
    /\ UNCHANGED <<spa, vol, auth>>
AddCapacity(r) ==
    /\ At(r, "AddCapacity")
    /\ SetPoolCapacity(r, run[r].q.des,
                       IF Deleting(r) THEN "RemoveStorageReservations" ELSE "UpdateServicePlan")

\* addAccountToSDC: the objects that did not list the account when they were read.
UpdateServicePlan(r) ==
    LET todo == SDC(K(r)) \ run[r].auth IN
    /\ At(r, "UpdateServicePlan")
    /\ \/ Works /\ auth' = auth \cup todo /\ Go(r, "FinalizeSpa") /\ UNCHANGED req
       \/ /\ todo # {} /\ Fault(r, "account") /\ SaveAndRetry(r)
          /\ \E done \in SUBSET todo : auth' = auth \cup done
    /\ UNCHANGED <<spa, pool, vol>>

\* The mark goes; the tag of the creator stays.
FinalizeSpa(r) ==
    /\ At(r, "FinalizeSpa")
    /\ SpaUpdater(r, [Resize(spa[K(r)], Wanted(r)) EXCEPT !.ops = @ \ {r}, !.res = Type], "done")
    /\ UNCHANGED <<pool, vol, auth>>

\* The undo path: only a request that marked or created the SPA has to undo.
\* The SPA is read before the lock.
UndoFindSPA(r) ==
    LET s == spa[K(r)] IN
    /\ At(r, "UndoFindSPA")
    /\ \/ Fault(r, "read") /\ SaveAndRetry(r)
       \/ /\ Works /\ UNCHANGED req
          /\ IF s.live /\ (r \in s.ops \/ s.creator = r)
             THEN Becomes(r, [run[r] EXCEPT !.pc = "LoadObjects", !.seen = s, !.q.spa = TRUE])
             ELSE Done(r)
    /\ UNCHANGED <<spa, pool, vol, auth>>

\* removeCapacityFromPools: the pools get back what they held.
RemoveCapacity(r) ==
    At(r, "RemoveCapacity") /\ SetPoolCapacity(r, run[r].q.cur, "RemoveEmptyPoolReferences")

RemoveStorageReservations(r) ==
    LET s == spa[K(r)] IN
    /\ At(r, "RemoveStorageReservations")
    /\ \/ /\ s.res = {} /\ s.total = 0 /\ Works
          /\ Go(r, "RemoveEmptyPoolReferences") /\ UNCHANGED <<spa, req>>
       \/ /\ ~(s.res = {} /\ s.total = 0)
          /\ SpaUpdater(r, [Resize(s, 0) EXCEPT !.res = {}], "RemoveEmptyPoolReferences")
    /\ UNCHANGED <<pool, vol, auth>>

EmptyPools == {t \in Type : pool[t].live /\ \A k \in Plan : pool[t].res[k] = 0}
RemoveEmptyPoolReferencesMutant(r) ==  \* the request keeps naming the pools
    /\ At(r, "RemoveEmptyPoolReferences") /\ Works /\ Go(r, "DeletePools")
    /\ UNCHANGED <<spa, pool, vol, auth, req>>
RemoveEmptyPoolReferences(r) ==
    LET q == run[r].q
        refs == {t \in EmptyPools : q.cur[t] # -1 \/ q.des[t] # -1}
        without(m) == [t \in Type |-> IF t \in refs THEN -1 ELSE m[t]] IN
    /\ At(r, "RemoveEmptyPoolReferences")
    /\ \/ refs = {} /\ Works /\ Go(r, "DeletePools") /\ UNCHANGED req
       \/ /\ refs # {}
          /\ WriteRequest(r, [q EXCEPT !.cur = without(@), !.des = without(@)], "DeletePools")
    /\ UNCHANGED <<spa, pool, vol, auth>>

\* poolDelete refuses while an allocation, a volume or an active request names the pool.
PoolInUse(t) ==
    \/ \E k \in Plan : t \in spa[k].res
    \/ \E v \in Vol : t \in vol[v].alloc
    \/ \E r \in Request : Active(r) /\ (req[r].cur[t] # -1 \/ req[r].des[t] # -1)
DeletePools(r) ==
    /\ At(r, "DeletePools")
    /\ \/ EmptyPools = {} /\ Works /\ Go(r, "ClearSpaInRequest") /\ UNCHANGED pool
       \/ \E t \in EmptyPools :
             \/ PoolInUse(t) /\ Works /\ RetryLater(r) /\ UNCHANGED pool
             \/ /\ ~PoolInUse(t) /\ pool' = [pool EXCEPT ![t] = NoPool]
                /\ (Works /\ UNCHANGED <<run, lock>>)
                   \/ (AnswerIsLost(r) /\ Fault(r, "pool") /\ RetryLater(r))
             \/ Fault(r, "pool") /\ RetryLater(r) /\ UNCHANGED pool
    /\ UNCHANGED <<spa, vol, auth, req>>

ClearSpaInRequest(r) ==
    /\ At(r, "ClearSpaInRequest")
    /\ WriteRequest(r, [run[r].q EXCEPT !.spa = FALSE], "ReleaseSPA")
    /\ UNCHANGED <<spa, pool, vol, auth>>

\* servicePlanAllocationDelete refuses while a volume, a pool or, unless a request
\* is deleting the SPA, an active request names it.
SpaInUse(k) ==
    \/ Bound(k) # {} \/ \E t \in Type : pool[t].res[k] # 0
    \/ ~spa[k].deleting /\ \E r \in Request : Active(r) /\ K(r) = k /\ req[r].spa
\* deleteSPA or releaseSPA
ReleaseSPA(r) ==
    /\ At(r, "ReleaseSPA")
    /\ IF ~(run[r].seen.creator = r \/ Deleting(r))
       THEN SpaUpdater(r, [spa[K(r)] EXCEPT !.ops = @ \ {r}], "RemoveAccount")
       ELSE \/ SpaInUse(K(r)) /\ Works /\ SaveAndRetry(r) /\ UNCHANGED spa
            \/ /\ ~SpaInUse(K(r)) /\ SetSpa(r, NoSpa)
               /\ \/ Works /\ Go(r, "RemoveAccount") /\ UNCHANGED req
                  \/ AnswerIsLost(r) /\ Fault(r, "spa") /\ SaveAndRetry(r)
            \/ Fault(r, "spa") /\ SaveAndRetry(r) /\ UNCHANGED spa
    /\ UNCHANGED <<pool, vol, auth>>

\* removeAccountFromSDC; the update is refused, and that is ignored, while the
\* account has an allocation there.
StillNeeded(x) == \E k \in Plan : spa[k].live /\ x \in SDC(k)
RemoveAccount(r) ==
    LET todo == IF run[r].q.made \/ Deleting(r) THEN SDC(K(r)) \cap run[r].auth ELSE {} IN
    /\ At(r, "RemoveAccount")
    /\ \/ Works /\ auth' = auth \ {x \in todo : ~StillNeeded(x)} /\ Done(r) /\ UNCHANGED req
       \/ /\ todo # {} /\ Fault(r, "account") /\ SaveAndRetry(r)
          /\ \E done \in SUBSET todo : auth' = auth \ {x \in done : ~StillNeeded(x)}
    /\ UNCHANGED <<spa, pool, vol>>

-----------------------------------------------------------------------------
(* bind.go *)

V(r) == vol[VolOf[r]]
Changes(r) == KindOf[r] = "CHANGE_CAPACITY"
\* computeReservationPlan: what a BIND or CHANGE_CAPACITY takes from the SPA, and
\* what its undo, or UNBIND, returns; adj is the spaAdditionalBytes it goes by.
Difference(r, adj) ==
    IF Changes(r)
    THEN (IF NewSize[r] = -1 THEN 0 ELSE NewSize[r] - V(r).size)
         + (IF NewAdj[r] = -1 THEN 0 ELSE NewAdj[r] - adj)
    ELSE V(r).size
Taken(r) == Difference(r, V(r).adj)
Returned(r) ==
    LET adj == IF run[r].q.saved = -1 THEN 0 ELSE run[r].q.saved IN
    IF Changes(r) THEN Difference(r, adj) ELSE V(r).size + adj

BindLoadObjects(r) ==
    /\ At(r, "BindLoadObjects")
    /\ (Works /\ Go(r, "BindWaitForLock")) \/ (Fault(r, "read") /\ RetryLater(r))
    /\ UNCHANGED <<spa, pool, vol, auth, req>>

\* spaSearch or spaFetch, the checks of availability and capacity, poolLoadAll.
BindFindSPA(r) ==
    LET s == spa[K(r)]
        known == IF Changes(r) THEN V(r).bound ELSE run[r].q.spa
        inUse == s.ops # {} /\ r \notin s.ops
        fits == Taken(r) < 0 \/ (s.free > 0 /\ s.free - Taken(r) >= 0)
        lost == \E t \in s.res : ~pool[t].live \/ pool[t].res[K(r)] = 0
        go(pc) == Becomes(r, [run[r] EXCEPT !.pc = pc, !.seen = s, !.q.spa = known]) IN
    /\ At(r, "BindFindSPA")
    /\ \/ /\ Works /\ UNCHANGED req
          /\ IF Changes(r) /\ ~known THEN go("CommitVS")
             ELSE IF ~s.live THEN go("SetCapacityWait")
             ELSE IF known /\ inUse THEN RetryLater(r)
             ELSE IF inUse \/ ~fits THEN go("SetCapacityWait")
             ELSE IF lost THEN SetRequestError(r) ELSE go("UpdateVSR")
       \/ Fault(r, "read") /\ SaveAndRetry(r)
    /\ UNCHANGED <<spa, pool, vol, auth>>

\* vsrSetCapacityReservationResult, vsrUpdate
UpdateVSR(r) ==
    /\ At(r, "UpdateVSR")
    /\ WriteRequest(r, [run[r].q EXCEPT
          !.spa = TRUE, !.waited = FALSE,
          !.oldSize = IF Changes(r) /\ NewSize[r] # -1 THEN V(r).size ELSE @,
          !.oldAdj = IF Changes(r) /\ NewAdj[r] # -1 THEN V(r).adj ELSE @,
          !.cur = [t \in Type |-> IF t \in V(r).alloc THEN V(r).size ELSE -1],
          !.des = [t \in Type |-> IF t \in run[r].seen.res THEN V(r).size ELSE -1]], "ReserveCapacity")
    /\ UNCHANGED <<spa, pool, vol, auth>>

ReserveCapacity(r) ==
    /\ At(r, "ReserveCapacity")
    /\ \/ Owns(r) /\ Works /\ Go(r, "CommitVS") /\ UNCHANGED <<spa, req>>
       \/ /\ ~Owns(r)
          /\ SpaUpdater(r, [spa[K(r)] EXCEPT !.ops = @ \cup {r}, !.free = @ - Taken(r)], "CommitVS")
    /\ UNCHANGED <<pool, vol, auth>>

\* A call that sets the volume to x and goes on with pc, or with what fails.
VolumeSeriesUpdater(r, x, pc) ==
    LET set == vol' = [vol EXCEPT ![VolOf[r]] = x] IN
    /\ \/ UNCHANGED faults /\ set /\ Proceed(r, [run[r] EXCEPT !.pc = pc]) /\ UNCHANGED req
       \/ /\ Fails(r, "volume") /\ SaveAndRetry(r)
          /\ (UNCHANGED vol \/ (AnswerIsLost(r) /\ set))
    /\ moves' = IF vol' = vol THEN moves ELSE [moves EXCEPT !.done = @ \cup {<<r, run[r].pc>>}]

\* vsSet
CommitVS(r) ==
    LET pools == {t \in Type : run[r].q.des[t] # -1}
        after == IF run[r].q.spa THEN "CommitSPA" ELSE "done"
        changed ==
          IF ~Changes(r) THEN [V(r) EXCEPT !.bound = TRUE, !.adj = 0, !.alloc = @ \cup pools]
          ELSE [V(r) EXCEPT !.size = IF NewSize[r] = -1 THEN @ ELSE NewSize[r],
                            !.adj = IF NewAdj[r] = -1 THEN @ ELSE NewAdj[r],
                            !.alloc = IF NewSize[r] = -1 THEN @ ELSE @ \cup pools] IN
    /\ At(r, "CommitVS")
    /\ \/ ~Changes(r) /\ V(r).bound /\ Works /\ Go(r, "CommitSPA") /\ UNCHANGED <<vol, req>>
       \/ (Changes(r) \/ ~V(r).bound) /\ VolumeSeriesUpdater(r, changed, after)
    /\ UNCHANGED <<spa, pool, auth>>

\* spaClearInUse
CommitSPAMutant(r) ==     \* the mark is left behind
    At(r, "CommitSPA") /\ Works /\ Done(r) /\ UNCHANGED <<spa, pool, vol, auth, req>>
CommitSPA(r) ==
    /\ At(r, "CommitSPA")
    /\ SpaUpdater(r, [spa[K(r)] EXCEPT !.ops = @ \ {r}], "done")
    /\ UNCHANGED <<pool, vol, auth>>

\* vsrSetCapacityWait; errors are ignored.
SetCapacityWait(r) ==
    LET q == [run[r].q EXCEPT !.waited = TRUE, !.st = "CAPACITY_WAIT"] IN
    /\ At(r, "SetCapacityWait") /\ RetryLater(r)
    /\ (Works /\ UpdateRequest(r, q)) \/ (Fault(r, "request") /\ UNCHANGED req)
    /\ UNCHANGED <<spa, pool, vol, auth>>

\* getInitialState of the undo path, which is the only path of UNBIND.
UndoStart(r) ==
    LET q == run[r].q
        nothing == q.waited \/ (~q.spa /\ (KindOf[r] = "BIND" \/ ~V(r).bound)) IN
    /\ At(r, "UndoStart") /\ Works
    /\ IF nothing THEN Done(r)
       ELSE Becomes(r, [run[r] EXCEPT !.pc = "UndoBindWaitForLock", !.q.spa = TRUE])
    /\ UNCHANGED <<spa, pool, vol, auth, req>>

\* spaFetch, spaCanClaimOwnership
UndoLoadSPA(r) ==
    LET s == spa[K(r)] IN
    /\ At(r, "UndoLoadSPA")
    /\ \/ Fault(r, "read") /\ RetryLater(r)
       \/ /\ Works
          /\ IF s.ops # {} /\ r \notin s.ops THEN RetryLater(r)
             ELSE Becomes(r, [run[r] EXCEPT !.pc = "SetSPAInUse", !.seen = s])
    /\ UNCHANGED <<spa, pool, vol, auth, req>>

SetSPAInUse(r) ==
    /\ At(r, "SetSPAInUse")
    /\ SpaUpdater(r, [spa[K(r)] EXCEPT !.ops = @ \cup {r}], "SaveVSProps")
    /\ UNCHANGED <<pool, vol, auth>>

\* vsrSaveVSProps writes only the system tags, and the request in memory becomes
\* what is then in the database.  Errors are ignored.
SaveVSPropsMutant(r) ==   \* spaAdditionalBytes is not saved
    At(r, "SaveVSProps") /\ Works /\ Go(r, "RevertVS") /\ UNCHANGED <<spa, pool, vol, auth, req>>
SaveVSProps(r) ==
    LET go(q) == Becomes(r, [run[r] EXCEPT !.pc = "RevertVS", !.q = q])
        tagged(q) == [q EXCEPT !.saved = V(r).adj] IN
    /\ At(r, "SaveVSProps")
    /\ \/ run[r].q.saved # -1 /\ Works /\ Go(r, "RevertVS") /\ UNCHANGED req
       \/ /\ run[r].q.saved = -1 /\ Works
          /\ req' = [req EXCEPT ![r] = tagged(@)] /\ go(tagged(req[r]))
       \/ /\ run[r].q.saved = -1 /\ Fault(r, "request") /\ UNCHANGED req /\ go(tagged(run[r].q))
    /\ UNCHANGED <<spa, pool, vol, auth>>

\* vsUndo
RevertVS(r) ==
    LET q == run[r].q
        old(was, now) == IF was = -1 THEN now ELSE was
        reverted == IF Changes(r)
                    THEN [V(r) EXCEPT !.size = old(q.oldSize, @), !.adj = old(q.oldAdj, @)]
                    ELSE IF V(r).bound THEN [V(r) EXCEPT !.bound = FALSE, !.alloc = {}, !.adj = 0]
                    ELSE V(r) IN
    /\ At(r, "RevertVS")
    /\ \/ reverted = V(r) /\ Works /\ Go(r, "ReturnCapacity") /\ UNCHANGED <<vol, req>>
       \/ reverted # V(r) /\ VolumeSeriesUpdater(r, reverted, "ReturnCapacity")
    /\ UNCHANGED <<spa, pool, auth>>

ReturnCapacity(r) ==
    /\ At(r, "ReturnCapacity")
    /\ SpaUpdater(r, [spa[K(r)] EXCEPT !.ops = @ \ {r}, !.free = @ + Returned(r)], "done")
    /\ UNCHANGED <<pool, vol, auth>>

-----------------------------------------------------------------------------
AllocateCapacity(r) ==
    \/ LoadObjects(r) \/ FindSPA(r) \/ UpdatePlan(r) \/ CreateSPA(r) \/ MarkSPAInUse(r)
    \/ CreatePools(r) \/ InitializeCRR(r) \/ AddCapacity(r) \/ UpdateServicePlan(r)
    \/ FinalizeSpa(r) \/ UndoFindSPA(r) \/ RemoveCapacity(r) \/ RemoveStorageReservations(r)
    \/ RemoveEmptyPoolReferences(r) \/ DeletePools(r) \/ ClearSpaInRequest(r)
    \/ ReleaseSPA(r) \/ RemoveAccount(r)
Bind(r) ==
    \/ BindLoadObjects(r) \/ BindFindSPA(r) \/ UpdateVSR(r) \/ ReserveCapacity(r)
    \/ CommitVS(r) \/ CommitSPA(r) \/ SetCapacityWait(r) \/ UndoStart(r) \/ UndoLoadSPA(r)
    \/ SetSPAInUse(r) \/ SaveVSProps(r) \/ RevertVS(r) \/ ReturnCapacity(r)
Run(r) == Dispatch(r) \/ AllocateCapacity(r) \/ Bind(r) \/ Finish(r) \/ Later(r)
Next ==
    \/ \E r \in Request : Create(r) \/ Cancel(r) \/ WaitForLock(r) \/ Run(r)
    \/ Crash

\* Requests are retried, and the lock is given in the order of arrival (module
\* CriticalSection), so that nobody is passed over for ever.
Fairness == \A r \in Request : WF_vars(Run(r)) /\ SF_vars(WaitForLock(r))
Spec == Init /\ [][Next]_vars /\ Fairness

-----------------------------------------------------------------------------
\* No request is working on the allocation, and the one that created it is over.
Settled(k) ==
    /\ spa[k].live /\ spa[k].ops = {}
    /\ spa[k].creator \in Request => ~Active(spa[k].creator)

\* A request has ended with capacity that it has not returned: an UNBIND that is
\* interrupted after vsUndo finds nothing to do in an unbound volume; a BIND or
\* CHANGE_CAPACITY interrupted after its reservation may wait for more capacity,
\* and if it is canceled then, it is taken to have none.
EndsUnreturned(r) ==
    LET did(pc) == <<r, pc>> \in moves.done IN
    /\ ~Active(r) /\ ~did("ReturnCapacity")
    /\ (KindOf[r] = "UNBIND" /\ did("RevertVS")) \/ (req[r].waited /\ did("ReserveCapacity"))
Misaccounted(k) ==
    \E r \in OfKind(VolumeKinds) : K(r) = k /\ (r \in moves.amiss \/ EndsUnreturned(r))

\* What an allocation has given away is what its volumes have, their size and
\* their spaAdditionalBytes, however BIND, CHANGE_CAPACITY and UNBIND were
\* interrupted and repeated: spaReserveCapacity, vsSet, spaReturnCapacity.  The
\* exceptions are what the code gets wrong.  A request that is repeated when its
\* mark is gone takes or returns its capacity again, although bind.go:553 calls
\* that idempotent; a CHANGE_CAPACITY undone after its commit returns too little;
\* and some requests end without returning what they have (EndsUnreturned).
CapacityConserved ==
    \A k \in Plan : Settled(k) /\ ~Misaccounted(k) =>
        spa[k].total - spa[k].free =
            MapThenSumSet(LAMBDA v : vol[v].size + vol[v].adj, Bound(k))

\* The pools reserve for an allocation what it has, and an allocation names the
\* pools that do: setPoolCapacity, finalizeSPA, removeStorageReservations.
PoolsMatch ==
    \A k \in Plan, t \in Type : Settled(k) =>
        pool[t].res[k] = IF t \in spa[k].res THEN spa[k].total ELSE 0

\* A mark is that of a request that is still there to remove it: the others
\* wait for it (spaCanClaimOwnership) or are refused (validateVSRAgainstSPA).
\* The code leaves the mark of a DELETE_SPA or UNBIND that is canceled, as these
\* undo nothing, and of a request that ends without returning its capacity.
MarksReleased ==
    \A k \in Plan : \A r \in spa[k].ops :
        Active(r) \/ (req[r].canceled /\ UndoStateOf(r) = "none") \/ EndsUnreturned(r)

\* The undo of an ALLOCATE_CAPACITY after finalizeSPA: poolDelete refuses, because
\* the SPA still names the pools.
UndoneTooLate(r) == req[r].st = "UNDO_ALLOCATING_CAPACITY" /\ spa[K(r)].res # {}
\* The undo of a CHANGE_CAPACITY that has reserved nothing: the SPA refuses to take
\* back what it has not given.
UndoneTooEarly(r) ==
    req[r].st = "UNDO_CHANGING_CAPACITY" /\ <<r, "ReserveCapacity">> \notin moves.done

\* A request names the pools before it reserves, and fails to reserve; DELETE_SPA
\* then waits for the request to go, and the request for the mark of DELETE_SPA.
WaitsForUser(r) ==
    /\ KindOf[r] = "DELETE_SPA" /\ r \in spa[K(r)].ops
    /\ \E u \in OfKind({"BIND", "CHANGE_CAPACITY"}) :
          /\ K(u) = K(r) /\ Active(u) /\ u \notin spa[K(r)].ops
          /\ \E t \in Type : req[u].des[t] # -1

\* Every request comes to an end, or waits for capacity: the requests do not wait
\* for each other's marks and references for ever, except where the code lets an
\* undo be refused again and again, or has two requests wait for one another.
AllEnded ==
    \/ \A r \in Request : ~Active(r) \/ req[r].st = "CAPACITY_WAIT"
    \/ \E r \in Request : UndoneTooLate(r) \/ UndoneTooEarly(r) \/ WaitsForUser(r)
RequestsEnd == <>[]AllEnded
=============================================================================
