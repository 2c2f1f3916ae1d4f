---------------------------- MODULE VsrAnimator ----------------------------
(***************************************************************************)
(* How the three daemons animate a VolumeSeriesRequest: pkg/vra/animator.go*)
(* and pkg/vra/request.go.  Each daemon runs one Animator, whose run loop  *)
(* lists the requests in the central database and starts a goroutine       *)
(* (requestAnimator) for each one whose state it has the handler of.  The  *)
(* goroutine writes every state into the database before it calls the      *)
(* handler of that state; the handler of another daemon's state only sets  *)
(* RetryLater, so that writing its state hands the request over.           *)
(*                                                                         *)
(* The requests do not interact in the animator: the model has one.  What  *)
(* a handler does is not modelled, only what it reports, and that it may   *)
(* have an effect that its undo handler takes back.                        *)
(***************************************************************************)
EXTENDS VsrStates, FiniteSets

CONSTANTS OpSets,       \* the RequestedOperations to choose from
          MaxRetries,   \* bound: how often handlers ask to be called later,
                        \* for each of them
          MaxFaults,    \* bound: errors, panics, failed calls and restarts
          Cancelable,   \* those of them during which the request may be canceled
          CanExpire     \* whether completeByTime may pass

ASSUME OpsAssumption == \A ops \in OpSets : ops \in Seq(STRING) /\ ops # <<>>
ASSUME BoundsAssumption == MaxRetries \in [OpSets -> Nat] /\ MaxFaults \in Nat
ASSUME FlagsAssumption == Cancelable \subseteq OpSets /\ CanExpire \in BOOLEAN

VARIABLES
    ops,      \* RequestedOperations
    db,       \* the request in the database: version, state, cancelRequested
    vol,      \* the VolumeSeries object, as far as plans depend on it
    expired,  \* completeByTime has passed
    seen,     \* the request in the list that the run loop dispatches
    doneVer,  \* doneRequests: version at which the animator was done with it
    rhs,      \* activeRequests: the RequestHandlerState of the goroutine
    hist,     \* history: effects in place, steps completed, and what went wrong
    retries, faults

vars == <<ops, db, vol, expired, seen, doneVer, rhs, hist, retries, faults>>

NoRequest == [ver |-> 0, state |-> "NEW", cancel |-> FALSE]

(* A goroutine is before the next state of its list (next), updating the   *)
(* database (write), or in a handler (run), in one of three parts of       *)
(* requestAnimator.  todo is the rest of the list it is iterating over.    *)
Idle == [pc |-> "none", part |-> "forward", state |-> "NEW", ver |-> 0,
         cancel |-> FALSE, inError |-> FALSE, timedOut |-> FALSE,
         canceling |-> FALSE, abortUndo |-> FALSE, loaded |-> TRUE,
         todo |-> <<>>, undos |-> <<>>]

Init ==
    /\ ops \in OpSets
    /\ vol \in {v \in Volumes : v.root => v.parcels}
    /\ vol.parcels \/ vol.published => Has(ops, {"DELETE", "UNBIND"})
    /\ vol.cached => Has(ops, {"CHANGE_CAPACITY"})
    /\ db = [ver |-> 1, state |-> "NEW", cancel |-> FALSE]
    /\ expired = FALSE
    /\ seen = [p \in Processes |-> NoRequest]
    /\ doneVer = [p \in Processes |-> 0]
    /\ rhs = [p \in Processes |-> Idle]
    /\ hist = [effects |-> {}, completed |-> {}, fault |-> FALSE,
               gaveUp |-> FALSE, late |-> FALSE]
    /\ retries = 0
    /\ faults = 0

-----------------------------------------------------------------------------
(* The run loop of an animator *)

(* doneRequests is emptied and RunBody lists the requests of this process. *)
List(p) ==
    /\ seen[p] = NoRequest
    /\ GetProcess(db.state, ops) = p
    /\ seen' = [seen EXCEPT ![p] = db]
    /\ doneVer' = [doneVer EXCEPT ![p] = 0]
    /\ UNCHANGED <<ops, db, vol, expired, rhs, hist, retries, faults>>

(* Mutant: doneRequests is not consulted.                                  *)
skipProcessing_ActiveOnly(p) == rhs[p].pc # "none"

skipProcessing(p) ==
    \/ rhs[p].pc # "none"
    \/ doneVer[p] > seen[p].ver

(* The state in memory, where it differs from the one in the database.     *)
StateInMemory(s, timedOut) ==
    CASE timedOut /\ Has(ops, {"CREATE_FROM_SNAPSHOT"})
            -> "UNDO_CREATING_FROM_SNAPSHOT"
      [] ~timedOut /\ s = "CAPACITY_WAIT" /\ Has(ops, {"BIND"}) -> "BINDING"
      [] ~timedOut /\ s = "CAPACITY_WAIT" /\ Has(ops, {"CHANGE_CAPACITY"})
            -> "CHANGING_CAPACITY"
      [] ~timedOut /\ s = "STORAGE_WAIT" /\ Has(ops, {"MOUNT", "CONFIGURE"})
            -> "PLACEMENT"
      [] OTHER -> s

(* Mutant: the undo states are not reversed.                               *)
Reverse_Not(s) == s

Reverse(s) == [i \in 1 .. Len(s) |-> s[Len(s) + 1 - i]]
Contains(s, e) == \E i \in 1 .. Len(s) : s[i] = e

(* Mutant: the state that the request is in is not undone.                 *)
WithCurrent_Not(undos, states) == undos

(* If the forward loop is skipped the current state, or the first one, may *)
(* need to be undone too.                                                  *)
WithCurrent(undos, states) ==
    IF states = <<>> \/ Undo(states[1]) = None THEN undos
    ELSE Append(undos, Undo(states[1]))

(* requestAnimator up to the execution of the state machine                *)
Begin(req, failed) ==
    LET timedOut == expired
        inError  == failed \/ (~timedOut /\ undoOnly(ops, req.state))
        states   == ForwardStates(ops, vol, req.state)
        undos    == UndoStates(ops, vol, req.state)
        forward  == ~inError /\ ~timedOut /\ ~req.cancel
    IN  [pc |-> "next", part |-> IF forward THEN "forward" ELSE "undo",
         state |-> StateInMemory(req.state, timedOut), ver |-> req.ver,
         cancel |-> req.cancel, inError |-> inError, timedOut |-> timedOut,
         canceling |-> req.cancel, abortUndo |-> FALSE, loaded |-> ~failed,
         todo |-> IF forward THEN states
                  ELSE Reverse(WithCurrent(undos, states)),
         undos |-> undos]

(* DispatchRequests: the request is skipped or its goroutine is started.   *)
Dispatch(p) ==
    /\ seen[p] # NoRequest
    /\ seen' = [seen EXCEPT ![p] = NoRequest]
    /\ rhs' = IF skipProcessing(p) THEN rhs
              ELSE [rhs EXCEPT ![p] = Begin(seen[p], FALSE)]
    /\ UNCHANGED <<ops, db, vol, expired, doneVer, hist, retries, faults>>

(* The request names a VolumeSeries, which is then loaded: not if it is to *)
(* create one and has not begun.                                           *)
NamesVolume(state) ==
    /\ ~Has(ops, {"ALLOCATE_CAPACITY", "DELETE_SPA", "CG_SNAPSHOT_CREATE",
                  "NODE_DELETE"})
    /\ Has(ops, {"CREATE"}) => state # "NEW"

(* The plan is made of what is in the VolumeSeries object (attemptUndo...  *)
(* and VolumeSeriesCacheIsRequested), and a nil object panics.             *)
PlanReadsVolume(state) ==
    \/ Has(ops, {"CHANGE_CAPACITY"})
    \/ Has(ops, {"DELETE", "UNBIND"}) /\ attempt(state, "UNDO_PUBLISHING")

(* failOnPanic: FAILED is written, and nothing else is done.               *)
Panicked(r) == [r EXCEPT !.inError = TRUE, !.part = "final", !.pc = "next"]

(* The VolumeSeries cannot be loaded: the request is skipped, or it is     *)
(* dispatched with the error and without the object.                       *)
DispatchFails(p) ==
    LET r == Begin(seen[p], TRUE)
        panics == PlanReadsVolume(seen[p].state)
    IN
    /\ seen[p] # NoRequest /\ ~skipProcessing(p) /\ NamesVolume(seen[p].state)
    /\ faults < MaxFaults /\ faults' = faults + 1
    /\ seen' = [seen EXCEPT ![p] = NoRequest]
    /\ \/ UNCHANGED <<rhs, hist>>
       \/ /\ rhs' = [rhs EXCEPT ![p] = IF panics THEN Panicked(r) ELSE r]
          /\ hist' = [hist EXCEPT !.fault = TRUE, !.gaveUp = @ \/ panics]
    /\ UNCHANGED <<ops, db, vol, expired, doneVer, retries>>

-----------------------------------------------------------------------------
(* requestAnimator: the state machine *)

Put(p, r) == rhs' = [rhs EXCEPT ![p] = r]

(* done *)
Finish(p, r) ==
    /\ rhs' = [rhs EXCEPT ![p] = Idle]
    /\ doneVer' = [doneVer EXCEPT ![p] = r.ver]

FinalState(r) ==
    IF r.inError \/ r.abortUndo \/ r.timedOut THEN "FAILED"
    ELSE IF r.canceling THEN "CANCELED" ELSE "SUCCEEDED"

(* SetAndUpdateRequestState: there is nothing to write if it is the state. *)
Enter(r, s) ==
    [r EXCEPT !.state = s, !.pc = IF r.state = s THEN "run" ELSE "write"]

(* The head of the forward loop, of the undo loop, and the final state.    *)
NextState(p) ==
    LET r == rhs[p] IN
    /\ r.pc = "next"
    /\ \/ /\ r.part = "forward"
          /\ IF r.todo # <<>> /\ ~r.inError /\ ~r.canceling
             THEN Put(p, Enter(r, r.todo[1]))
             ELSE Put(p, [r EXCEPT !.abortUndo = FALSE,
                            !.part = IF r.inError \/ r.canceling
                                     THEN "undo" ELSE "final",
                            !.todo = Reverse(r.undos)])
       \/ /\ r.part = "undo"
          /\ IF r.todo # <<>> /\ ~r.abortUndo
             THEN Put(p, Enter(r, r.todo[1]))
             ELSE Put(p, [r EXCEPT !.part = "final"])
       \/ /\ r.part = "final"
          /\ Put(p, Enter(r, FinalState(r)))
    /\ UNCHANGED <<ops, db, vol, expired, seen, doneVer, hist, retries, faults>>

(* A handler wrote a state of its own choice, before it sets RetryLater.   *)
HandlersWrite(r) == r.part = "forward" /\ r.state # r.todo[1]

(* The update succeeds.  A cancel it came across ends the forward loop.    *)
UpdateOK(p) ==
    LET r == [rhs[p] EXCEPT !.ver = db.ver + 1] IN
    /\ r.pc = "write" /\ rhs[p].ver = db.ver /\ ~IsTerminal(db.state)
    /\ db' = [db EXCEPT !.ver = @ + 1, !.state = r.state]
    /\ IF r.part = "final" \/ HandlersWrite(r)
       THEN Finish(p, r)
       ELSE /\ Put(p, [r EXCEPT !.pc = IF r.part = "forward" /\ r.canceling
                                       THEN "next" ELSE "run"])
            /\ UNCHANGED doneVer
    /\ UNCHANGED <<ops, vol, expired, seen, hist, retries, faults>>

(* Mutant: the metadata of the fetched object is not picked up.            *)
Refetched_OldVersion(r) ==
    [r EXCEPT !.cancel = @ \/ db.cancel,
              !.canceling = @ \/ (db.cancel /\ ~r.cancel)]

(* The modify function of UpdateRequestWithItems, given a fetched object:  *)
(* only the version and cancelRequested of the object are looked at.       *)
Refetched(r) ==
    [r EXCEPT !.ver = db.ver, !.cancel = @ \/ db.cancel,
              !.canceling = @ \/ (db.cancel /\ ~r.cancel)]

(* The version has changed: fetch, and write over it.                      *)
UpdateConflict(p) ==
    /\ rhs[p].pc = "write" /\ rhs[p].ver # db.ver
    /\ Put(p, Refetched(rhs[p]))
    /\ UNCHANGED <<ops, db, vol, expired, seen, doneVer, hist, retries, faults>>

(* An update fails: always if the request has terminated meanwhile, else   *)
(* because of the database or the network.  The loops set RetryLater, the  *)
(* final update ignores it; PLACEMENT fails if it cannot enter its wait.   *)
UpdateFails(p) ==
    LET r == rhs[p] IN
    /\ r.pc = "write"
    /\ \/ r.ver = db.ver /\ IsTerminal(db.state) /\ UNCHANGED faults
       \/ faults < MaxFaults /\ faults' = faults + 1
    /\ IF HandlersWrite(r) /\ r.state = "STORAGE_WAIT"
       THEN /\ Put(p, [r EXCEPT !.inError = TRUE, !.pc = "next",
                         !.undos = IF Undo(r.todo[1]) = None THEN @
                                   ELSE Append(@, Undo(r.todo[1]))])
            /\ hist' = [hist EXCEPT !.fault = TRUE]
            /\ UNCHANGED doneVer
       ELSE Finish(p, r) /\ UNCHANGED hist
    /\ UNCHANGED <<ops, db, vol, expired, seen, retries>>

-----------------------------------------------------------------------------
(* The handlers *)

Running(p) == rhs[p].pc = "run"
Own(p) == GetProcess(rhs[p].todo[1], ops) = p

(* default_handlers.go: another daemon has the handler.                    *)
HandOver(p) ==
    /\ Running(p) /\ ~Own(p)
    /\ Finish(p, rhs[p])
    /\ UNCHANGED <<ops, db, vol, expired, seen, hist, retries, faults>>

(* The states whose effects an undo state takes back.                      *)
UndoneBy(s) == {f \in DOMAIN UndoTable : UndoTable[f] = s}

(* The undo handlers that change what plans depend on.                     *)
Cleared(s) ==
    [vol EXCEPT !.root = @ /\ s # "UNDO_VOLUME_CONFIG",
                !.parcels = @ /\ s # "UNDO_PLACEMENT",
                !.published = @ /\ s # "UNDO_PUBLISHING"]

(* Behind a handler in the forward loop: its undo state is remembered.     *)
Advance(r) ==
    LET u == Undo(r.todo[1]) IN
    [r EXCEPT !.pc = "next", !.todo = Tail(@),
              !.undos = IF r.part = "forward" /\ u # None /\ ~Contains(@, u)
                        THEN Append(@, u) ELSE @]

(* Effects are recorded if there is a state to undo them.                  *)
Effect(s) == {s} \cap DOMAIN UndoTable

(* The undo handlers that read the VolumeSeries object in every case.  The *)
(* one of BINDING reads it if a reservation has been made.                 *)
ReadsVolume ==
    {"UNDO_SIZING", "UNDO_PLACEMENT", "UNDO_PUBLISHING", "UNDO_VOLUME_CONFIG",
     "UNDO_VOLUME_EXPORT", "UNDO_ATTACHING_FS", "UNDO_SNAPSHOT_RESTORE",
     "UNDO_SNAPSHOT_UPLOADING", "UNDO_CREATING_PIT", "UNDO_PAUSING_IO",
     "UNDO_RENAMING"}

(* A handler completes its state.                                          *)
HandlerDone(p) ==
    LET s == rhs[p].todo[1] IN
    /\ Running(p) /\ Own(p)
    /\ rhs[p].loaded \/ s \notin ReadsVolume
    /\ Put(p, Advance(rhs[p]))
    /\ vol' = Cleared(s)
    /\ hist' = [hist EXCEPT
                  !.effects = (@ \ UndoneBy(s)) \cup Effect(s),
                  !.completed = (@ \ UndoneBy(s)) \cup {s}]
    /\ UNCHANGED <<ops, db, expired, seen, doneVer, retries, faults>>

(* A handler sets RetryLater.                                              *)
HandlerRetries(p) ==
    /\ Running(p) /\ Own(p)
    /\ retries < MaxRetries[ops] /\ retries' = retries + 1
    /\ Finish(p, rhs[p])
    /\ hist' = [hist EXCEPT !.effects = @ \cup Effect(rhs[p].todo[1])]
    /\ UNCHANGED <<ops, db, vol, expired, seen, faults>>

(* Mutant: the agent goes back when it cannot get the cache it wants.      *)
WaitStates_Back(s) ==
    IF s = "REALLOCATING_CACHE" THEN {"RESIZING_CACHE"} ELSE {}

(* The states that a handler may enter by itself: BINDING and              *)
(* CHANGING_CAPACITY wait for capacity; PLACEMENT waits for storage, or    *)
(* goes back to SIZING to have the storage plan recomputed, and gives up   *)
(* the claims it has made itself.                                          *)
WaitStates(s) ==
    CASE s \in {"BINDING", "CHANGING_CAPACITY"} -> {"CAPACITY_WAIT"}
      [] s = "PLACEMENT" -> {"STORAGE_WAIT", "SIZING"}
      [] s = "PLACEMENT_REATTACH" -> {"STORAGE_WAIT"}
      [] OTHER -> {}

HandlerWaits(p) ==
    LET s == rhs[p].todo[1] IN
    /\ Running(p) /\ Own(p) /\ rhs[p].part = "forward"
    /\ retries < MaxRetries[ops] /\ retries' = retries + 1
    /\ \E w \in WaitStates(s) :
          /\ Put(p, [rhs[p] EXCEPT !.state = w, !.pc = "write"])
          /\ hist' = [hist EXCEPT !.effects =
                        IF w = "SIZING" THEN @ \ {s} ELSE @ \cup Effect(s)]
    /\ UNCHANGED <<ops, db, vol, expired, seen, doneVer, faults>>

(* A handler saves the request in between (UpdateRequest).                 *)
HandlerSaves(p) ==
    /\ Running(p) /\ Own(p) /\ ~IsTerminal(db.state)
    /\ retries < MaxRetries[ops] /\ retries' = retries + 1
    /\ db' = [db EXCEPT !.ver = @ + 1, !.state = rhs[p].state]
    /\ Put(p, [Refetched(rhs[p]) EXCEPT !.ver = db.ver + 1])
    /\ UNCHANGED <<ops, vol, expired, seen, doneVer, hist, faults>>

(* A handler sets InError; one on the undo path has not undone its state.  *)
(* Those of agentd that close or restore something set AbortUndo as well.  *)
HandlerFails(p) ==
    LET r == rhs[p]
        s == r.todo[1]
    IN
    /\ Running(p) /\ Own(p)
    /\ faults < MaxFaults /\ faults' = faults + 1
    /\ \E abort \in BOOLEAN :
          /\ abort => s \in {"UNDO_VOLUME_CONFIG", "UNDO_REALLOCATING_CACHE"}
          /\ Put(p, [Advance(r) EXCEPT !.inError = TRUE, !.abortUndo = abort])
    /\ hist' = [hist EXCEPT !.effects = @ \cup Effect(s), !.fault = TRUE,
                            !.gaveUp = @ \/ r.part = "undo"]
    /\ UNCHANGED <<ops, db, vol, expired, seen, doneVer, retries>>

(* A handler panics: failOnPanic sets the state to FAILED, nothing else.   *)
(* It does if it reads the VolumeSeries object and there is none.          *)
HandlerPanics(p) ==
    LET s == rhs[p].todo[1] IN
    /\ Running(p) /\ Own(p)
    /\ \/ faults < MaxFaults /\ faults' = faults + 1
       \/ /\ ~rhs[p].loaded /\ s \in ReadsVolume \cup {"UNDO_BINDING"}
          /\ UNCHANGED faults
    /\ Put(p, Panicked(rhs[p]))
    /\ hist' = [hist EXCEPT !.effects = @ \cup Effect(s), !.fault = TRUE,
                            !.gaveUp = TRUE]
    /\ UNCHANGED <<ops, db, vol, expired, seen, doneVer, retries>>

(* The handlers that launch subordinate requests ignore the timeout if it  *)
(* turns out, on the undo path, that the subordinates have succeeded.      *)
HandlerIsLate(p) ==
    /\ Running(p) /\ Own(p) /\ rhs[p].part = "undo" /\ rhs[p].timedOut
    /\ rhs[p].todo[1] \in
          {"UNDO_CREATING_FROM_SNAPSHOT", "UNDO_CG_SNAPSHOT_VOLUMES"}
    /\ Put(p, [Advance(rhs[p]) EXCEPT !.timedOut = FALSE])
    /\ hist' = [hist EXCEPT !.late = TRUE]
    /\ UNCHANGED <<ops, db, vol, expired, seen, doneVer, retries, faults>>

-----------------------------------------------------------------------------
(* The environment *)

(* The cancel handler of the API: not if the request has terminated.       *)
Cancel ==
    /\ ops \in Cancelable /\ ~db.cancel /\ ~IsTerminal(db.state)
    /\ db' = [db EXCEPT !.ver = @ + 1, !.cancel = TRUE]
    /\ UNCHANGED <<ops, vol, expired, seen, doneVer, rhs, hist, retries, faults>>

Expire ==
    /\ CanExpire /\ ~expired
    /\ expired' = TRUE
    /\ UNCHANGED <<ops, db, vol, seen, doneVer, rhs, hist, retries, faults>>

(* A daemon restarts.  The handler it was in may have had its effect.      *)
Restart(p) ==
    /\ rhs[p].pc # "none"
    /\ faults < MaxFaults /\ faults' = faults + 1
    /\ seen' = [seen EXCEPT ![p] = NoRequest]
    /\ doneVer' = [doneVer EXCEPT ![p] = 0]
    /\ rhs' = [rhs EXCEPT ![p] = Idle]
    /\ hist' = [hist EXCEPT !.effects =
                  IF Running(p) /\ Own(p) THEN @ \cup Effect(rhs[p].todo[1])
                  ELSE @]
    /\ UNCHANGED <<ops, db, vol, expired, retries>>

RunLoop(p) == List(p) \/ Dispatch(p) \/ DispatchFails(p)
Handler(p) ==
    \/ HandOver(p) \/ HandlerDone(p) \/ HandlerRetries(p) \/ HandlerWaits(p)
    \/ HandlerSaves(p) \/ HandlerFails(p) \/ HandlerPanics(p)
    \/ HandlerIsLate(p)
requestAnimator(p) ==
    NextState(p) \/ UpdateOK(p) \/ UpdateConflict(p) \/ UpdateFails(p)
    \/ Handler(p)

(* The request has terminated and nobody works on it any more.             *)
Over ==
    /\ IsTerminal(db.state)
    /\ \A p \in Processes : rhs[p].pc = "none" /\ seen[p] = NoRequest
    /\ UNCHANGED vars

Next ==
    \/ \E p \in Processes : RunLoop(p) \/ requestAnimator(p) \/ Restart(p)
    \/ Cancel \/ Expire \/ Over

Spec == Init /\ [][Next]_vars

(* The run loop wakes up at least every RetryInterval, and the calls of a  *)
(* goroutine return.                                                       *)
FairSpec ==
    /\ Spec
    /\ \A p \in Processes : WF_vars(RunLoop(p)) /\ WF_vars(requestAnimator(p))

-----------------------------------------------------------------------------
(* Where a request can get to *)

Finals == {"SUCCEEDED", "FAILED", "CANCELED"}
Working == States \ Finals
Elements(s) == {s[i] : i \in 1 .. Len(s)}

(* The states a request with operations o goes through, those that undo    *)
(* them, and all that it can be in.                                        *)
Planned(o) ==
    UNION {Elements(ForwardStates(o, v, s)) : v \in Volumes, s \in States}
Undoing(o) ==
    (UNION {Elements(UndoStates(o, v, s)) : v \in Volumes, s \in States})
    \cup ({Undo(f) : f \in Planned(o)} \ {None})
Reach(o) ==
    {"NEW"} \cup Planned(o) \cup Undoing(o)
    \cup (UNION {WaitStates(f) : f \in Planned(o)}) \cup Finals

(* The plans of the operations consist of known states; none of them ends  *)
(* the request.                                                            *)
ASSUME PlanAssumption ==
    \A o \in OpSets, v \in Volumes, s \in States :
        /\ ForwardStates(o, v, s) \in Seq(Working)
        /\ UndoStates(o, v, s) \in Seq(Working)

(* Daemon u undoes everything that is undone of operations o, another      *)
(* daemon that has a handler of one of their states finds it has to, and   *)
(* none panics when it makes the plan (which would write FAILED under u).  *)
Contained(o, u) ==
    /\ ~Has(o, {"CHANGE_CAPACITY", "DELETE", "UNBIND"})
    /\ \A s \in Undoing(o) : GetProcess(s, o) = u
    /\ \A s \in Reach(o), v \in Volumes :
          GetProcess(s, o) \in Processes \ {u} => UndoStates(o, v, s) # <<>>

-----------------------------------------------------------------------------
(* Properties *)

Requests == [ver : Nat, state : States, cancel : BOOLEAN]
Handlers ==
    [pc : {"none", "next", "write", "run"},
     part : {"forward", "undo", "final"}, state : States, ver : Nat,
     cancel : BOOLEAN, inError : BOOLEAN, timedOut : BOOLEAN,
     canceling : BOOLEAN, abortUndo : BOOLEAN, loaded : BOOLEAN,
     todo : Seq(States), undos : Seq(States)]

(* Types: in particular, only known states are written to the database,   *)
(* and no list of states has a hole where a state has no undo state.       *)
TypeOK ==
    /\ ops \in OpSets
    /\ db \in Requests
    /\ vol \in Volumes
    /\ expired \in BOOLEAN
    /\ seen \in [Processes -> Requests]
    /\ doneVer \in [Processes -> Nat]
    /\ rhs \in [Processes -> Handlers]
    /\ hist \in [effects : SUBSET States, completed : SUBSET States,
                 fault : BOOLEAN, gaveUp : BOOLEAN, late : BOOLEAN]
    /\ retries \in Nat /\ faults \in Nat

(* What a request that ends unsuccessfully has done is undone again, also  *)
(* if it timed out, was canceled, handed over between daemons or resumed   *)
(* after a restart; unless an undo handler failed or the goroutine         *)
(* panicked: in a handler, or because the VolumeSeries object could not be *)
(* loaded and the plan or an undo handler reads it (request.go:386, 653).  *)
(* CONFIGURE keeps the storage it allocated.                               *)
Compensated ==
    db.state \in {"FAILED", "CANCELED"} /\ ~hist.gaveUp /\ ~hist.late =>
        hist.effects \subseteq
            (IF Has(ops, {"CONFIGURE"}) THEN {"SIZING", "PLACEMENT"} ELSE {})

(* A request succeeds only if every state of its plan was completed and    *)
(* not undone; a deleted or unbound volume has no storage left and is not  *)
(* published.                                                              *)
SuccessIsComplete ==
    db.state = "SUCCEEDED" /\ ~hist.late =>
        /\ \A i \in 1 .. Len(Steps(ops, vol)) :
              Steps(ops, vol)[i].fwd \in hist.completed \cup {None}
        /\ Has(ops, {"DELETE", "UNBIND"}) =>
              ~vol.root /\ ~vol.parcels /\ ~vol.published

(* While a state is being undone the effects of later states are gone:     *)
(* storage is not released under a volume that is still configured on it.  *)
UndoInReverse ==
    \A p \in Processes :
        Running(p) /\ Own(p) /\ rhs[p].part = "undo" /\ ~hist.gaveUp =>
            \A f \in hist.effects : \A g \in UndoneBy(rhs[p].todo[1]) :
                Order[f] <= Order[g] \/ Undo(f) = Undo(g)

(* No two daemons are in handlers of the request at the same time, and     *)
(* none is once the request has terminated.                                *)
OneAnimator ==
    /\ \A p, q \in Processes :
          Running(p) /\ Own(p) /\ Running(q) /\ Own(q) => p = q
    /\ IsTerminal(db.state) => \A p \in Processes : ~(Running(p) /\ Own(p))

(* The order of the state in the database never decreases, for attempt()   *)
(* takes the states below it for done; except when the storage plan is to  *)
(* be recomputed (the state is still STORAGE_WAIT in the database if the   *)
(* request has waited for storage before), when CHANGE_CAPACITY has to     *)
(* wait in its first state, and when a volume is deleted or unbound by the *)
(* request that unmounts it.                                               *)
OrderAdvances ==
    [][\/ Order[db.state] <= Order[db'.state]
       \/ <<db.state, db'.state>> \in
             {<<"PLACEMENT", "SIZING">>, <<"STORAGE_WAIT", "SIZING">>,
              <<"CHANGING_CAPACITY", "CAPACITY_WAIT">>,
              <<"UNDO_VOLUME_EXPORT", "CHOOSING_NODE">>}]_vars

(* The request terminates, whatever is retried, fails or restarts.         *)
Ended == IsTerminal(db.state)
=============================================================================
