---------------------------- MODULE RequestSync ----------------------------
(***************************************************************************)
(* The barrier that a group of VolumeSeriesRequests (VSRs) run through the *)
(* syncPeers map of one coordinator VSR: requestSync in pkg/vra/sync.go.   *)
(* The consistency-group snapshot and the node-delete operations use it.   *)
(*                                                                         *)
(* The participants are goroutines of different processes.  They share     *)
(* only the coordinator object in the central database, which each one     *)
(* changes with the optimistic updater of pkg/mgmtclient/crud: fetch, call *)
(* the modify function, write with the fetched version, and start again if *)
(* the version has changed.  A participant runs phases 1 .. NumPhases, one *)
(* call of SyncRequests in each; phase k stands for the k-th SyncState     *)
(* label (PAUSED_IO, CREATED_PIT, ... for a volume snapshot).              *)
(***************************************************************************)
EXTENDS Integers, FiniteSets

CONSTANTS Peers,        \* the keys of the syncPeers map
          NumPhases,    \* how many times the participants synchronize
          MaxTouches,   \* bound: other updates of the coordinator object
          MaxCrashes,   \* bound: restarts of a participant's process
          Cancelable    \* FALSE if every SyncArgs has IgnoreCancel

ASSUME PeersAssumption == Peers # {} /\ IsFiniteSet(Peers)
ASSUME NumPhasesAssumption == NumPhases \in Nat \ {0}
ASSUME BoundsAssumption == MaxTouches \in Nat /\ MaxCrashes \in Nat
ASSUME CancelableAssumption == Cancelable \in BOOLEAN

Phases == 1 .. NumPhases
NoState == 0                  \* the zero value of SyncPeer.State
Terminated == NumPhases + 1   \* any terminal VSR state
Unknown == -1                 \* origGen before the session is known

VARIABLES
    coord,     \* the coordinator object: version, cancelRequested, syncPeers
    pc,        \* where the goroutine of a participant is
    phase,     \* the phase its VSR has reached (its VSR state, persistent)
    origGen,   \* requestSync.origGen
    view,      \* what a participant is about to write
    flagged,   \* requestSync.notifyFlagged: notifyChan is closed
    canceled,  \* requestSync.isCanceled
    events,    \* crude events on their way to the watcher of a participant
    localCancel, \* cancelRequested of the participant's own VSR
    expired,   \* CompleteBy is in the past
    reached,   \* history: the last phase a participant advertised
    touches, crashes

vars == <<coord, pc, phase, origGen, view, flagged, canceled, events,
          localCancel, expired, reached, touches, crashes>>

PeerRecord == [gen : Nat, state : 0 .. NumPhases + 1]

(* pc values: between calls of SyncRequests; top of the loop, in the       *)
(* updater before the fetch and before the write; in the select; returned  *)
(* without error, with an error; all phases done; failure advertised.      *)
PCs == {"idle", "top", "fetch", "write", "select", "passed", "failed",
        "finished", "aborted"}
Syncing == {"top", "fetch", "write", "select"}

NoView == [ver |-> 0, rec |-> [gen |-> 0, state |-> NoState], sync |-> FALSE]

Init ==
    /\ coord = [ver |-> 1, cancel |-> FALSE,
                peers |-> [p \in Peers |-> [gen |-> 0, state |-> NoState]]]
    /\ pc = [p \in Peers |-> "idle"]
    /\ phase = [p \in Peers |-> 1]
    /\ origGen = [p \in Peers |-> Unknown]
    /\ view = [p \in Peers |-> NoView]
    /\ flagged = [p \in Peers |-> FALSE]
    /\ canceled = [p \in Peers |-> FALSE]
    /\ events = [p \in Peers |-> {}]
    /\ localCancel = [p \in Peers |-> FALSE]
    /\ expired = FALSE
    /\ reached = [p \in Peers |-> 0]
    /\ touches = 0
    /\ crashes = 0

-----------------------------------------------------------------------------
(* The central database: a write is applied only to the version it read.   *)

(* The update of one syncPeers record, or of other items of the object.    *)
StorePeer(p, rec) ==
    coord' = [coord EXCEPT !.ver = @ + 1, !.peers[p] = rec]

(* Every write to the coordinator is announced to the watchers it matches. *)
(* TerminateWatcher drops what is on its way to a participant.             *)
Announce(kind, watchers, terminated) ==
    events' = [q \in Peers |->
                 IF q \in terminated THEN {}
                 ELSE IF q \in watchers /\ pc[q] \in Syncing
                 THEN events[q] \cup {kind} ELSE events[q]]
Unwatch(p) == events' = [events EXCEPT ![p] = {}]

-----------------------------------------------------------------------------
(* modifyCoordinator: what the modify function makes of a fetched object.  *)

States(peers) == {peers[q].state : q \in Peers}

(* The largest genCounter: a set of exactly one element.                   *)
MaxGen(peers) == {g \in {peers[q].gen : q \in Peers} :
                     \A q \in Peers : peers[q].gen <= g}

(* Outcomes: "error"; "break", nothing to write (errSyncBreakOut);         *)
(* "write", the own record rec is to be written.  sync is allInSync.       *)
Outcome(kind, rec, og, sync) ==
    [kind |-> kind, rec |-> rec, og |-> og, sync |-> sync]

(* Mutant: a peer that has not advertised anything yet is not waited for.  *)
Advertise_SkipsNew(p, peers, own, og, genChanged) ==
    LET new == [own EXCEPT !.state = phase[p]]
        inSync == {peers[q].state : q \in Peers \ {p}} \subseteq
                     {phase[p], NoState}
    IN  {Outcome("write", [new EXCEPT !.gen = @ + IF inSync THEN 1 ELSE 0],
                 og, inSync)}

(* Lines 279-311: advertise SyncState and see whether all peers have it.   *)
(* The scan stops at the first peer out of step, in Go's map order, and    *)
(* fails only if that one has terminated.                                  *)
Advertise(p, peers, own, og, genChanged) ==
    LET new == [own EXCEPT !.state = phase[p]]
        chg == genChanged \/ new # own
        others == {peers[q].state : q \in Peers \ {p}}
        inSync == others \subseteq {phase[p]}
        stray  == others \ {phase[p]}
        last   == [new EXCEPT !.gen = @ + 1]
    IN  IF inSync
        THEN {IF chg THEN Outcome("write", last, og, TRUE)
                     ELSE Outcome("break", new, og, TRUE)}
        ELSE (IF Terminated \in stray
              THEN {Outcome("error", new, og, FALSE)} ELSE {})
             \cup
             (IF stray # {Terminated}
              THEN {Outcome(IF chg THEN "write" ELSE "break", new, og, FALSE)}
              ELSE {})

(* Mutants: the state is advertised at once, in whatever session the peers *)
(* are; a participant that has fallen behind does not record that it       *)
(* caught up.                                                              *)
JoinSession_AtOnce(p, peers, g) ==
    Advertise(p, peers, [peers[p] EXCEPT !.gen = g], g, peers[p].gen # g)

JoinSession_NoCatchUp(p, peers, g) ==
    IF \A q \in Peers : peers[q].gen = g
    THEN Advertise(p, peers, peers[p], g, FALSE)
    ELSE {Outcome("break", peers[p], Unknown, FALSE)}

(* Lines 247-278: join the session of the peers, whose generation is g.    *)
JoinSession(p, peers, g) ==
    LET own    == peers[p]
        caught == [own EXCEPT !.gen = g]
        chg    == own.gen # g
    IN  IF \A q \in Peers \ {p} : peers[q].gen = g
        THEN Advertise(p, peers, caught, g, chg)
        ELSE {Outcome(IF chg THEN "write" ELSE "break", caught, Unknown, FALSE)}

modifyCoordinator(p, c, og) ==
    IF c.cancel /\ Cancelable
    THEN {Outcome("error", c.peers[p], og, FALSE)}
    ELSE IF og # Unknown
    THEN Advertise(p, c.peers, c.peers[p], og, FALSE)
    ELSE IF Terminated \in States(c.peers)
    THEN {Outcome("error", c.peers[p], og, FALSE)}
    ELSE UNION {JoinSession(p, c.peers, g) : g \in MaxGen(c.peers)}

-----------------------------------------------------------------------------
(* Synchronize *)

(* A handler calls SyncRequests; the watcher is registered.                *)
Synchronize(p) ==
    /\ pc[p] = "idle" /\ phase[p] \in Phases
    /\ pc' = [pc EXCEPT ![p] = IF expired THEN "failed" ELSE "top"]
    /\ UNCHANGED <<coord, phase, origGen, view, flagged, canceled, events,
                   localCancel, expired, reached, touches, crashes>>

(* notifyReset(false), and the updater is called.                          *)
LoopTop(p) ==
    /\ pc[p] = "top"
    /\ pc' = [pc EXCEPT ![p] = "fetch"]
    /\ flagged' = [flagged EXCEPT ![p] = FALSE]
    /\ UNCHANGED <<coord, phase, origGen, view, canceled, events, localCancel,
                   expired, reached, touches, crashes>>

(* The end of Synchronize, or of its process: the watcher is terminated    *)
(* and the requestSync object is gone.                                     *)
Return(p, where) ==
    /\ pc' = [pc EXCEPT ![p] = where]
    /\ origGen' = [origGen EXCEPT ![p] = Unknown]
    /\ view' = [view EXCEPT ![p] = NoView]
    /\ flagged' = [flagged EXCEPT ![p] = FALSE]
    /\ canceled' = [canceled EXCEPT ![p] = FALSE]

(* objUpdate fetches the coordinator and calls the modify function, which  *)
(* sets requestSync.origGen whether or not the write will succeed.         *)
FetchAndModify(p) ==
    /\ pc[p] = "fetch"
    /\ \E o \in modifyCoordinator(p, coord, origGen[p]) :
        \/ /\ o.kind = "error"
           /\ Return(p, "failed")
           /\ Unwatch(p)
        \/ /\ o.kind = "break" /\ o.sync
           /\ Return(p, "passed")
           /\ Unwatch(p)
        \/ /\ o.kind = "break" /\ ~o.sync
           /\ pc' = [pc EXCEPT ![p] = "select"]
           /\ origGen' = [origGen EXCEPT ![p] = o.og]
           /\ UNCHANGED <<view, flagged, canceled, events>>
        \/ /\ o.kind = "write"
           /\ pc' = [pc EXCEPT ![p] = "write"]
           /\ origGen' = [origGen EXCEPT ![p] = o.og]
           /\ view' = [view EXCEPT ![p] =
                         [ver |-> coord.ver, rec |-> o.rec, sync |-> o.sync]]
           /\ UNCHANGED <<flagged, canceled, events>>
    /\ UNCHANGED <<coord, phase, localCancel, expired, reached, touches,
                   crashes>>

(* The database applies the write of the fetched and modified object.      *)
WriteApplied(p) ==
    /\ pc[p] = "write" /\ view[p].ver = coord.ver
    /\ StorePeer(p, view[p].rec)
    /\ reached' = [reached EXCEPT ![p] =
                     IF view[p].rec.state = phase[p] THEN phase[p] ELSE @]

(* The write succeeds ...                                                  *)
WriteOK(p) ==
    /\ WriteApplied(p)
    /\ \/ /\ view[p].sync
          /\ Return(p, "passed")
          /\ Announce("update", Peers \ {p}, {p})
       \/ /\ ~view[p].sync
          /\ pc' = [pc EXCEPT ![p] = "select"]
          /\ view' = [view EXCEPT ![p] = NoView]
          /\ Announce("update", Peers, {})
          /\ UNCHANGED <<origGen, flagged, canceled>>
    /\ UNCHANGED <<phase, localCancel, expired, touches, crashes>>

(* ... or is applied, but the updater gets an error instead of the reply.  *)
ReplyLost(p) ==
    /\ WriteApplied(p)
    /\ Return(p, "failed")
    /\ Announce("update", Peers \ {p}, {p})
    /\ UNCHANGED <<phase, localCancel, expired, touches, crashes>>

(* ErrorIDVerNotFound: objUpdate fetches again.                            *)
WriteConflict(p) ==
    /\ pc[p] = "write" /\ view[p].ver # coord.ver
    /\ pc' = [pc EXCEPT ![p] = "fetch"]
    /\ view' = [view EXCEPT ![p] = NoView]
    /\ UNCHANGED <<coord, phase, origGen, flagged, canceled, events,
                   localCancel, expired, reached, touches, crashes>>

(* Back to the top of the loop.                                            *)
Again(p) ==
    /\ pc' = [pc EXCEPT ![p] = "top"]
    /\ UNCHANGED <<origGen, view, flagged, canceled, events>>

(* The select: the notification channel is closed ...                      *)
SelectNotified(p) ==
    /\ pc[p] = "select" /\ flagged[p]
    /\ \/ canceled[p] /\ Return(p, "failed") /\ Unwatch(p)
       \/ ~canceled[p] /\ Again(p)
    /\ UNCHANGED <<coord, phase, localCancel, expired, reached, touches,
                   crashes>>

(* Mutant: the deadline is not looked at.                                  *)
SelectTicker_NoDeadline(p) ==
    /\ pc[p] = "select"
    /\ \/ Cancelable /\ localCancel[p] /\ Return(p, "failed") /\ Unwatch(p)
       \/ ~(Cancelable /\ localCancel[p]) /\ Again(p)
    /\ UNCHANGED <<coord, phase, localCancel, expired, reached, touches,
                   crashes>>

(* ... or the ticker fires: look at the time and at the own VSR.           *)
SelectTicker(p) ==
    /\ pc[p] = "select"
    /\ \/ /\ expired \/ (Cancelable /\ localCancel[p])
          /\ Return(p, "failed") /\ Unwatch(p)
       \/ /\ ~expired /\ ~(Cancelable /\ localCancel[p])
          /\ Again(p)
    /\ UNCHANGED <<coord, phase, localCancel, expired, reached, touches,
                   crashes>>

(* CrudeNotify                                                             *)
CrudeNotify(p) ==
    /\ \E e \in events[p] :
        /\ events' = [events EXCEPT ![p] = @ \ {e}]
        /\ IF e = "cancel" /\ ~Cancelable
           THEN UNCHANGED <<flagged, canceled>>
           ELSE /\ flagged' = [flagged EXCEPT ![p] = TRUE]
                /\ canceled' = [canceled EXCEPT ![p] = @ \/ e = "cancel"]
    /\ UNCHANGED <<coord, pc, phase, origGen, view, localCancel, expired,
                   reached, touches, crashes>>

(* The handler returned without error: the animator writes the next state  *)
(* of the VSR, whose handler leads to the next call of SyncRequests.       *)
NextState(p) ==
    /\ pc[p] = "passed"
    /\ phase' = [phase EXCEPT ![p] = @ + 1]
    /\ pc' = [pc EXCEPT ![p] =
                IF phase[p] = NumPhases THEN "finished" ELSE "idle"]
    /\ UNCHANGED <<coord, origGen, view, flagged, canceled, events,
                   localCancel, expired, reached, touches, crashes>>

(* The handler failed between two phases.                                  *)
HandlerFails(p) ==
    /\ pc[p] = "idle"
    /\ pc' = [pc EXCEPT ![p] = "failed"]
    /\ UNCHANGED <<coord, phase, origGen, view, flagged, canceled, events,
                   localCancel, expired, reached, touches, crashes>>

(* A fetch or a write of the updater, or the fetch of the own VSR at a     *)
(* tick, returns an error that is not a version conflict.                  *)
CallFails(p) ==
    /\ pc[p] \in {"fetch", "write"} \/ (pc[p] = "select" /\ Cancelable)
    /\ Return(p, "failed") /\ Unwatch(p)
    /\ UNCHANGED <<coord, phase, localCancel, expired, reached, touches,
                   crashes>>

(* syncFail calls SyncAbort, whose errors are ignored.                     *)
SyncAbort(p) ==
    /\ pc[p] = "failed"
    /\ pc' = [pc EXCEPT ![p] = "aborted"]
    /\ \/ /\ coord.peers[p].state # Terminated
          /\ StorePeer(p, [coord.peers[p] EXCEPT !.state = Terminated])
          /\ Announce("update", Peers, {})
       \/ UNCHANGED <<coord, events>>
    /\ UNCHANGED <<phase, origGen, view, flagged, canceled, localCancel,
                   expired, reached, touches, crashes>>

-----------------------------------------------------------------------------
(* The environment of the barrier *)

(* Another writer updates the coordinator: the animator that owns it       *)
(* records a message.  The syncPeers map is not among the items it sets.   *)
Touch ==
    /\ touches < MaxTouches
    /\ touches' = touches + 1
    /\ coord' = [coord EXCEPT !.ver = @ + 1]
    /\ Announce("update", Peers, {})
    /\ UNCHANGED <<pc, phase, origGen, view, flagged, canceled, localCancel,
                   expired, reached, crashes>>

(* The coordinator, or a participant's own VSR, is canceled.               *)
CancelCoordinator ==
    /\ Cancelable /\ ~coord.cancel
    /\ coord' = [coord EXCEPT !.ver = @ + 1, !.cancel = TRUE]
    /\ Announce("cancel", Peers, {})
    /\ UNCHANGED <<pc, phase, origGen, view, flagged, canceled, localCancel,
                   expired, reached, touches, crashes>>

CancelLocal(p) ==
    /\ Cancelable /\ ~localCancel[p]
    /\ localCancel' = [localCancel EXCEPT ![p] = TRUE]
    /\ Announce("cancel", {p}, {})
    /\ UNCHANGED <<coord, pc, phase, origGen, view, flagged, canceled, expired,
                   reached, touches, crashes>>

(* CompleteBy passes.                                                      *)
Expire ==
    /\ ~expired
    /\ expired' = TRUE
    /\ UNCHANGED <<coord, pc, phase, origGen, view, flagged, canceled, events,
                   localCancel, reached, touches, crashes>>

(* The process of a participant restarts: the animator dispatches the VSR  *)
(* again in its current state, and its handler calls SyncRequests again.   *)
Crash(p) ==
    /\ crashes < MaxCrashes
    /\ pc[p] \in Syncing \cup {"passed", "failed"}
    /\ crashes' = crashes + 1
    /\ Return(p, "idle") /\ Unwatch(p)
    /\ UNCHANGED <<coord, phase, localCancel, expired, reached, touches>>

(* All participants have stopped.                                          *)
Stopped == \A p \in Peers : pc[p] \in {"finished", "aborted"}
Done == Stopped /\ UNCHANGED vars

Step(p) ==
    \/ Synchronize(p) \/ LoopTop(p) \/ FetchAndModify(p)
    \/ WriteOK(p) \/ WriteConflict(p)
    \/ SelectNotified(p) \/ SelectTicker(p)
    \/ NextState(p) \/ SyncAbort(p)

Environment ==
    \/ Touch \/ CancelCoordinator \/ Expire
    \/ \E p \in Peers : \/ CrudeNotify(p) \/ CancelLocal(p)
                        \/ HandlerFails(p) \/ CallFails(p)
                        \/ ReplyLost(p) \/ Crash(p)

Next == (\E p \in Peers : Step(p)) \/ Environment \/ Done

Spec == Init /\ [][Next]_vars

(* Goroutines are scheduled and their calls return: a participant that can *)
(* take a step of its own does so eventually.  Time passes.                *)
FairSpec == Spec /\ \A p \in Peers : WF_vars(Step(p))
TimelySpec == FairSpec /\ WF_vars(Expire)

-----------------------------------------------------------------------------
(* Properties *)

(* Types: generations do not become negative, labels are phases or final.  *)
TypeOK ==
    /\ coord \in [ver : Nat, cancel : BOOLEAN, peers : [Peers -> PeerRecord]]
    /\ pc \in [Peers -> PCs]
    /\ phase \in [Peers -> 1 .. NumPhases + 1]
    /\ origGen \in [Peers -> Nat \cup {Unknown}]
    /\ view \in [Peers -> [ver : Nat, rec : PeerRecord, sync : BOOLEAN]]
    /\ flagged \in [Peers -> BOOLEAN]
    /\ canceled \in [Peers -> BOOLEAN]
    /\ events \in [Peers -> SUBSET {"update", "cancel"}]
    /\ localCancel \in [Peers -> BOOLEAN]
    /\ expired \in BOOLEAN
    /\ reached \in [Peers -> 0 .. NumPhases]
    /\ touches \in Nat
    /\ crashes \in Nat

(* The last phase whose barrier a participant has passed.                  *)
passedPhase(p) == IF pc[p] = "passed" THEN phase[p] ELSE phase[p] - 1

(* Barrier: SyncRequests returns without error in phase k only when every  *)
(* peer has advertised phase k, whatever is canceled, retried, restarted   *)
(* or timed out meanwhile.  No volume is detached, and no PiT is created,  *)
(* before all the others are ready for it.                                 *)
BarrierHolds == \A p, q \in Peers : passedPhase(p) <= reached[q]

(* No restart, and no other writer of the coordinator: only conflicts among *)
(* the participants themselves.                                            *)
Undisturbed == touches = 0 /\ crashes = 0

(* While a participant that advertised its phase is still waiting, no peer *)
(* advertises a later phase: otherwise the one waiting would never see all *)
(* labels equal again (the generation counters exist to prevent this).     *)
NoOvertaking ==
    Undisturbed =>
        \A p, q \in Peers :
            pc[q] \in Syncing /\ reached[q] = phase[q] => reached[p] <= phase[q]

(* SyncRequests ends: by the end of CompleteBy at the latest, everybody    *)
(* has passed all barriers or has given up.                                *)
AllStop == <>Stopped

(* If nothing fails and time does not run out all participants get through *)
(* every phase: nobody is left waiting for a notification, for a peer that *)
(* waits in turn, or for a generation that nobody writes.                  *)
Completed ==
    \/ \A p \in Peers : pc[p] = "finished"
    \/ expired \/ \E p \in Peers : pc[p] \in {"failed", "aborted"}
=============================================================================
