------------------------------ MODULE Snapshot ------------------------------
(***************************************************************************)
(* The snapshot of a consistency group.  CG_SNAPSHOT_CREATE of clusterd    *)
(* (pkg/clusterd/vreq/cg_snap_create.go) finds the volumes of the group    *)
(* and launches a subordinate VOL_SNAPSHOT_CREATE for each; agentd         *)
(* (pkg/agentd/vreq/vol_snap_create.go) runs it where the volume is        *)
(* configured.  The subordinates synchronize four times through the        *)
(* syncPeers map of the group request; module RequestSync has the details  *)
(* of that barrier, and here a synchronization is what it guarantees.      *)
(*                                                                         *)
(* A step is one call that has an effect outside the handler.  A handler   *)
(* that asks to be called later, an agent or clusterd that restarts, and a *)
(* call whose answer is lost all have the same effect, as nothing that a   *)
(* handler keeps outlives one dispatch of its request: see Interrupt.      *)
(***************************************************************************)
EXTENDS Integers, Sequences, FiniteSets

CONSTANTS Vol,         \* volumes of the consistency group
          MayExpire,   \* whether completeByTime may pass
          MayCancel,   \* volumes whose request may be canceled, and Vol for the group's
          MayLeave,    \* volumes that may be moved to another group
          MaxFaults,   \* bound: interruptions, failed calls, cancels and moves
          Writes       \* the volumes that the applications write to, in order

ASSUME WritesAssumption == Writes \in Seq(Vol) /\ MaxFaults \in Nat

VARIABLES
    coord,   \* the CG_SNAPSHOT_CREATE request, syncPeers included
    cop,     \* its handler in clusterd, in memory
    sub,     \* volume -> its VOL_SNAPSHOT_CREATE request
    sop,     \* its handler in agentd, in memory
    vol,     \* volume, its point-in-time, its snapshot and the uploaded data
    group,   \* volumes that are in the consistency group
    written, \* how many of the writes have been made
    expired, \* completeByTime has passed
    faults

snapVars == <<coord, cop, sub, sop, vol, group, written, expired, faults>>

Terminal == {"SUCCEEDED", "FAILED", "CANCELED"}
NotInMap == "absent"
NoPiT == -1

States == <<"PAUSING_IO", "PAUSED_IO", "CREATING_PIT", "CREATED_PIT",
            "SNAPSHOT_UPLOADING", "SNAPSHOT_UPLOAD_DONE", "FINALIZING_SNAPSHOT">>
UndoStates == <<"UNDO_SNAPSHOT_UPLOADING", "UNDO_CREATING_PIT", "UNDO_PAUSING_IO">>
IndexIn(s, e) == IF \E i \in DOMAIN s : s[i] = e THEN CHOOSE i \in DOMAIN s : s[i] = e ELSE 0
Order(st) == IndexIn(States, st)
IsUndo(st) == IndexIn(UndoStates, st) # 0

\* The sub-states of a state, as far as they call something.
SubStates(st) ==
    CASE st = "PAUSING_IO" -> <<"PausingIO">>
      [] st = "CREATING_PIT" -> <<"CreatePiT">>
      [] st = "CREATED_PIT" -> <<"Sync", "ResumeIO">>
      [] st = "SNAPSHOT_UPLOADING" -> <<"UploadSnapshot">>
      [] st = "FINALIZING_SNAPSHOT" -> <<"RemoveOlderPiTs", "CreateSnapshotObject", "Sync">>
      [] st = "UNDO_SNAPSHOT_UPLOADING" -> <<"DeleteSnapshot">>
      [] st = "UNDO_CREATING_PIT" -> <<"DeletePiT">>
      [] st = "UNDO_PAUSING_IO" -> <<"ResumeIO">>
      [] OTHER -> <<"Sync">>

NoSub == [st |-> "none", canceled |-> FALSE]
Idle == [pc |-> "idle", inError |-> FALSE, canceling |-> FALSE, timedOut |-> FALSE]
CIdle == [pc |-> "idle", inError |-> FALSE, canceling |-> FALSE, timedOut |-> FALSE,
          seen |-> [v \in Vol |-> NotInMap], created |-> FALSE]

Init ==
    /\ coord = [st |-> "NEW", peers |-> [v \in Vol |-> NotInMap], canceled |-> FALSE]
    /\ cop = CIdle
    /\ sub = [v \in Vol |-> NoSub]
    /\ sop = [v \in Vol |-> Idle]
    /\ vol = [v \in Vol |-> [paused |-> FALSE, pit |-> NoPiT,
                             data |-> NoPiT, snap |-> FALSE, launched |-> 0, stuck |-> FALSE]]
    /\ group = Vol
    /\ written = 0
    /\ expired = FALSE
    /\ faults = 0

InMap(v) == coord.peers[v] # NotInMap
Peers == {v \in Vol : InMap(v)}
Fault == faults < MaxFaults /\ faults' = faults + 1
NoFault == UNCHANGED faults

-----------------------------------------------------------------------------
(* The subordinate request of volume v, in agentd *)

SetSop(v, x) == sop' = [sop EXCEPT ![v] = x]
InSubState(v, ss) == sop[v].pc = ss
SetVol(v, x) == vol' = [vol EXCEPT ![v] = x]

\* The sub-state after ss; after the last one the next state is to be written.
After(v, ss) ==
    LET all == SubStates(sub[v].st)
        i == IndexIn(all, ss)
    IN IF i = Len(all) THEN "next" ELSE all[i + 1]
Continue(v) == SetSop(v, [sop[v] EXCEPT !.pc = After(v, sop[v].pc)])

\* syncFail, in a request of a group: the failure is shown to the peers.
Advertise(v) == coord' = IF InMap(v) THEN [coord EXCEPT !.peers[v] = "FAILED"] ELSE coord

\* The handler ends with an error: the undo states follow.
Fail(v) ==
    /\ SetSop(v, [sop[v] EXCEPT !.pc = "next", !.inError = TRUE])
    /\ Advertise(v)

\* The undo states of the states that were entered, from the last one on.
FirstUndo(st) ==
    IF IsUndo(st) THEN st
    ELSE IF Order(st) >= Order("SNAPSHOT_UPLOADING") THEN "UNDO_SNAPSHOT_UPLOADING"
    ELSE IF Order(st) >= Order("CREATING_PIT") THEN "UNDO_CREATING_PIT" ELSE "UNDO_PAUSING_IO"

\* requestAnimator: a request is loaded; an undo state means an earlier error.
Dispatch(v) ==
    /\ InSubState(v, "idle") /\ sub[v].st \notin Terminal \cup {"none"}
    /\ LET undo == expired \/ sub[v].canceled \/ IsUndo(sub[v].st)
           st == IF undo THEN FirstUndo(sub[v].st) ELSE IF sub[v].st = "NEW" THEN States[1] ELSE sub[v].st
       IN /\ SetSop(v, [Idle EXCEPT !.pc = SubStates(st)[1], !.timedOut = expired,
                                    !.inError = ~expired /\ IsUndo(sub[v].st),
                                    !.canceling = sub[v].canceled])
          /\ sub' = [sub EXCEPT ![v].st = st]
    /\ UNCHANGED <<coord, cop, vol, group, written, expired, faults>>

\* SetAndUpdateRequestState: the next state, the first undo state or the last
\* one.  A failure to write a state interrupts the handler, see Interrupt.
NextState(v) ==
    /\ InSubState(v, "next")
    /\ LET m == sop[v]
           bad == m.inError \/ m.canceling \/ m.timedOut
           st == sub[v].st
           final == IF m.inError \/ m.timedOut THEN "FAILED" ELSE IF m.canceling THEN "CANCELED" ELSE "SUCCEEDED"
           to == IF IsUndo(st)
                 THEN IF st = "UNDO_PAUSING_IO" THEN final ELSE UndoStates[IndexIn(UndoStates, st) + 1]
                 ELSE IF bad THEN FirstUndo(st)
                 ELSE IF st = "FINALIZING_SNAPSHOT" THEN final ELSE States[Order(st) + 1]
           canceling == m.canceling \/ (sub[v].canceled /\ to \notin Terminal)
       IN /\ sub' = [sub EXCEPT ![v].st = to]
          /\ SetSop(v, IF to \in Terminal THEN Idle
                       ELSE IF canceling /\ ~IsUndo(to) THEN [m EXCEPT !.canceling = TRUE]
                       ELSE [m EXCEPT !.canceling = canceling, !.pc = SubStates(to)[1]])
    /\ UNCHANGED <<coord, cop, vol, group, written, expired, faults>>

\* The handler is left for a later dispatch, or its process restarts.  A call
\* that it had made before stands.
Interrupt(v) ==
    /\ ~InSubState(v, "idle") /\ Fault
    /\ SetSop(v, Idle)
    /\ UNCHANGED <<coord, cop, sub, vol, group, written, expired>>

\* A call of the storage daemon or the protection store fails for good.
Breaks(v, ss) ==
    /\ InSubState(v, ss) /\ Fault /\ Fail(v)
    /\ UNCHANGED <<cop, sub, group, written, expired>>
Works(v, ss) ==
    /\ InSubState(v, ss) /\ NoFault /\ Continue(v)
    /\ UNCHANGED <<coord, cop, sub, group, written, expired>>

\* handleCGStartupRace: a volume that left the group leaves the map and fails.
InCgRace(v) == v \notin group /\ sub[v].st = "PAUSING_IO"

\* nuvoListPiTs, listVolumeSnapshots, nuvoPauseIO, fsFreeze
PausingIO(v) ==
    \/ Works(v, "PausingIO") /\ ~InCgRace(v) /\ SetVol(v, [vol[v] EXCEPT !.paused = TRUE])
    \/ Breaks(v, "PausingIO") /\ ~InCgRace(v) /\ UNCHANGED vol
    \/ /\ InSubState(v, "PausingIO") /\ InCgRace(v)
       /\ SetSop(v, [sop[v] EXCEPT !.pc = "next", !.inError = TRUE])
       /\ coord' = [coord EXCEPT !.peers[v] = NotInMap]
       /\ UNCHANGED <<cop, sub, vol, group, written, expired, faults>>

\* Mutant: the state is advertised and not waited for.
Sync_NoWait(v) ==
    /\ InSubState(v, "Sync")
    /\ coord' = [coord EXCEPT !.peers[v] = sub[v].st]
    /\ Continue(v)
    /\ UNCHANGED <<cop, sub, vol, group, written, expired, faults>>

\* adjustCB: once the data is uploaded, a synchronization has as long again as the
\* request had, counted from when it starts.
adjustCB(st) == st \in {"SNAPSHOT_UPLOAD_DONE", "FINALIZING_SNAPSHOT"}

\* syncState: wait until every peer in the map has reached this state.  The last
\* one to finalize moves the group request to CG_SNAPSHOT_FINALIZE, which is
\* refused when that has terminated.
Sync(v) ==
    LET st == sub[v].st
        Reached(w) == coord.peers[w] # "FAILED" /\ Order(coord.peers[w]) >= Order(st)
        hopeless == \/ coord.canceled \/ sub[v].canceled \/ ~InMap(v)
                    \/ expired /\ ~adjustCB(st)
                    \/ st = "FINALIZING_SNAPSHOT" /\ coord.st \in Terminal
                    \/ \E w \in Peers : coord.peers[w] = "FAILED"
        all == \A w \in Peers \ {v} : Reached(w)
        here == [coord EXCEPT !.peers[v] = sub[v].st]
    IN /\ InSubState(v, "Sync")
       /\ \/ ~hopeless /\ ~Reached(v) /\ ~all /\ coord' = here /\ UNCHANGED sop
          \/ ~hopeless /\ ~Reached(v) /\ all /\ Continue(v)
             /\ coord' = IF sub[v].st = "FINALIZING_SNAPSHOT"
                         THEN [here EXCEPT !.st = "CG_SNAPSHOT_FINALIZE"] ELSE here
          \/ ~hopeless /\ Reached(v) /\ all /\ Continue(v) /\ UNCHANGED coord
          \/ (hopeless \/ expired) /\ Fail(v)   \* expired: the longer time, too
       /\ UNCHANGED <<cop, sub, vol, group, written, expired, faults>>

\* timestampPiT, nuvoCreatePiT
CreatePiT(v) ==
    \/ Works(v, "CreatePiT") /\ SetVol(v, [vol[v] EXCEPT !.pit = IF @ = NoPiT THEN written ELSE @])
    \/ Breaks(v, "CreatePiT") /\ UNCHANGED vol

\* nuvoResumeIO, fsUnfreeze: when the undo handler fails here it is not repeated.
ResumeIO(v) ==
    \/ Works(v, "ResumeIO") /\ SetVol(v, [vol[v] EXCEPT !.paused = FALSE])
    \/ /\ InSubState(v, "ResumeIO") /\ Fault
       /\ SetVol(v, [vol[v] EXCEPT !.stuck = IsUndo(sub[v].st)])
       /\ Fail(v) /\ UNCHANGED <<cop, sub, group, written, expired>>

\* planCopy, exportTip, psUpload
UploadSnapshot(v) ==
    \/ Works(v, "UploadSnapshot") /\ SetVol(v, [vol[v] EXCEPT !.data = vol[v].pit])
    \/ Breaks(v, "UploadSnapshot") /\ UNCHANGED vol

\* nuvoListPiTs, listVolumeSnapshots, removeOlderPiTs, unexportTip: the older
\* points in time are those of the snapshots the volume has.
RemoveOlderPiTs(v) ==
    Works(v, "RemoveOlderPiTs") /\ SetVol(v, [vol[v] EXCEPT !.pit = IF vol[v].snap THEN NoPiT ELSE @])

\* createSnapshotObject, finalizeSnapshotDataInVolume.  A failure to create the
\* object is advertised although the handler will be called again.
CreateSnapshotObject(v) ==
    \/ Works(v, "CreateSnapshotObject") /\ SetVol(v, [vol[v] EXCEPT !.snap = TRUE])
    \/ /\ InSubState(v, "CreateSnapshotObject") /\ Fault
       /\ SetSop(v, Idle) /\ Advertise(v)
       /\ UNCHANGED <<cop, sub, vol, group, written, expired>>

\* psDelete
DeleteSnapshot(v) ==
    /\ InSubState(v, "DeleteSnapshot") /\ Continue(v) /\ SetVol(v, [vol[v] EXCEPT !.data = NoPiT])
    /\ IF sop[v].inError THEN Advertise(v) ELSE UNCHANGED coord
    /\ UNCHANGED <<cop, sub, group, written, expired, faults>>

\* nuvoDeletePiT, or the list of the points in time cannot be had.
DeletePiT(v) ==
    \/ /\ InSubState(v, "DeletePiT") /\ Continue(v) /\ SetVol(v, [vol[v] EXCEPT !.pit = NoPiT])
       /\ IF sop[v].inError THEN Advertise(v) ELSE UNCHANGED coord
       /\ UNCHANGED <<cop, sub, group, written, expired, faults>>
    \/ Breaks(v, "DeletePiT") /\ UNCHANGED vol

SubStep(v) ==
    \/ Dispatch(v) \/ NextState(v) \/ PausingIO(v) \/ Sync(v)
    \/ CreatePiT(v) \/ ResumeIO(v) \/ UploadSnapshot(v)
    \/ RemoveOlderPiTs(v) \/ CreateSnapshotObject(v) \/ DeleteSnapshot(v) \/ DeletePiT(v)

-----------------------------------------------------------------------------
(* The group request, in clusterd *)

InCop(pc) == cop.pc = pc
SetCop(x) == cop' = x

CDispatch ==
    /\ InCop("idle") /\ coord.st \notin Terminal
    /\ LET undo == coord.st = "UNDO_CG_SNAPSHOT_VOLUMES"
           bad == expired \/ coord.canceled \/ undo
           st == IF bad THEN "UNDO_CG_SNAPSHOT_VOLUMES"
                 ELSE IF coord.st = "NEW" THEN "CG_SNAPSHOT_VOLUMES" ELSE coord.st
       IN /\ coord' = [coord EXCEPT !.st = st]
          /\ SetCop([CIdle EXCEPT !.seen = coord.peers, !.timedOut = expired,
                       !.inError = ~expired /\ undo, !.canceling = coord.canceled,
                       !.pc = CASE bad -> "undo"
                                [] st = "CG_SNAPSHOT_VOLUMES" /\ Peers = {} -> "InitMapInDB"
                                [] st = "CG_SNAPSHOT_FINALIZE" -> "done"
                                [] OTHER -> "CheckForSubordinates"])
    /\ UNCHANGED <<sub, sop, vol, group, written, expired, faults>>

\* initSubordinateMapInDB
InitMapInDB ==
    /\ InCop("InitMapInDB")
    /\ IF group = {}
       THEN SetCop([cop EXCEPT !.pc = "fail"]) /\ UNCHANGED coord
       ELSE LET map == [v \in Vol |-> IF v \in group THEN "" ELSE NotInMap]
            IN coord' = [coord EXCEPT !.peers = map] /\ SetCop([cop EXCEPT !.pc = "launch", !.seen = map])
    /\ UNCHANGED <<sub, sop, vol, group, written, expired, faults>>

\* Mutant: the requests of an earlier life are not looked for.
WithSubordinates_Not(map) == map

\* checkForSubordinates: what the map knows, and the requests that are found.
WithSubordinates(map) ==
    [v \in Vol |-> IF map[v] # NotInMap /\ sub[v].st # "none" THEN sub[v].st ELSE map[v]]

CheckForSubordinates ==
    /\ InCop("CheckForSubordinates")
    /\ SetCop([cop EXCEPT !.seen = WithSubordinates(cop.seen),
                 !.pc = IF coord.st = "CG_SNAPSHOT_VOLUMES" THEN "launch" ELSE "count"])
    /\ UNCHANGED <<coord, sub, sop, vol, group, written, expired, faults>>

\* launchRemainingSubordinates.  A request in the map has the ID of its
\* subordinate once that one has shown its state there.
Launch ==
    LET rest == {v \in Vol : cop.seen[v] = ""} IN
    /\ InCop("launch")
    /\ \/ \E v \in rest :
            /\ sub' = [sub EXCEPT ![v] = [NoSub EXCEPT !.st = "NEW"]]
            /\ SetVol(v, [vol[v] EXCEPT !.launched = @ + 1])
            /\ SetCop([cop EXCEPT !.seen[v] = "NEW", !.created = TRUE])
            /\ NoFault /\ UNCHANGED coord
       \/ rest # {} /\ Fault /\ SetCop([cop EXCEPT !.pc = "fail"]) /\ UNCHANGED <<sub, vol, coord>>
       \/ /\ rest = {} /\ NoFault /\ UNCHANGED <<sub, vol>>
          /\ IF coord.st = "CG_SNAPSHOT_FINALIZE" THEN UNCHANGED coord ELSE coord' = [coord EXCEPT !.st = "CG_SNAPSHOT_WAIT"]
          /\ SetCop(IF cop.created THEN CIdle ELSE [cop EXCEPT !.pc = "CheckForSubordinates"])
    /\ UNCHANGED <<sop, group, written, expired>>

\* countActiveSubordinateVSRs
Active(map) == {v \in Vol : map[v] \notin Terminal \cup {"", NotInMap}}
Failed(map) == {v \in Vol : map[v] \in {"FAILED", "CANCELED"}}
Unknown(map) == {v \in Vol : map[v] = ""}

CountActive ==
    /\ InCop("count")
    /\ SetCop(IF Failed(cop.seen) # {} THEN [cop EXCEPT !.pc = "fail"]
              ELSE IF Active(cop.seen) # {} THEN CIdle ELSE [cop EXCEPT !.pc = "done"])
    /\ UNCHANGED <<coord, sub, sop, vol, group, written, expired, faults>>

\* An error, a deadline or a cancel: the undo state waits for the subordinates.
EnterUndo ==
    /\ InCop("fail")
    /\ coord' = [coord EXCEPT !.st = "UNDO_CG_SNAPSHOT_VOLUMES"]
    /\ SetCop([cop EXCEPT !.pc = "undo", !.inError = TRUE])
    /\ UNCHANGED <<sub, sop, vol, group, written, expired, faults>>

UndoWait ==
    /\ InCop("undo")
    /\ LET map == IF Active(cop.seen) \cup Unknown(cop.seen) # {} THEN WithSubordinates(cop.seen) ELSE cop.seen
       IN SetCop(CASE Failed(map) # {} -> [cop EXCEPT !.pc = "done", !.inError = TRUE]
                   [] Failed(map) = {} /\ Active(map) # {} -> CIdle
                   [] OTHER -> [cop EXCEPT !.pc = "done", !.timedOut = FALSE])
    /\ UNCHANGED <<coord, sub, sop, vol, group, written, expired, faults>>

CFinish ==
    /\ InCop("done")
    /\ coord' = [coord EXCEPT !.st = IF cop.inError \/ cop.timedOut THEN "FAILED"
                                     ELSE IF cop.canceling THEN "CANCELED" ELSE "SUCCEEDED"]
    /\ SetCop(CIdle)
    /\ UNCHANGED <<sub, sop, vol, group, written, expired, faults>>

CInterrupt ==
    /\ ~InCop("idle") /\ Fault /\ SetCop(CIdle)
    /\ UNCHANGED <<coord, sub, sop, vol, group, written, expired>>

CoordStep ==
    \/ CDispatch \/ InitMapInDB \/ CheckForSubordinates \/ Launch \/ CountActive
    \/ EnterUndo \/ UndoWait \/ CFinish

-----------------------------------------------------------------------------
CancelGroup ==
    /\ Vol \in MayCancel /\ coord.st \notin Terminal /\ ~coord.canceled /\ Fault
    /\ coord' = [coord EXCEPT !.canceled = TRUE]
    /\ UNCHANGED <<cop, sub, sop, vol, group, written, expired>>
Cancel(v) ==
    /\ v \in MayCancel /\ sub[v].st \notin Terminal \cup {"none"} /\ ~sub[v].canceled /\ Fault
    /\ sub' = [sub EXCEPT ![v].canceled = TRUE]
    /\ UNCHANGED <<coord, cop, sop, vol, group, written, expired>>
Expire ==
    /\ MayExpire /\ ~expired /\ expired' = TRUE
    /\ UNCHANGED <<coord, cop, sub, sop, vol, group, written, faults>>
LeaveGroup(v) ==
    /\ v \in MayLeave \cap group /\ group' = group \ {v} /\ Fault
    /\ UNCHANGED <<coord, cop, sub, sop, vol, written, expired>>
Write(v) ==
    /\ written < Len(Writes) /\ v = Writes[written + 1]
    /\ ~vol[v].paused
    /\ written' = written + 1
    /\ UNCHANGED <<coord, cop, sub, sop, vol, group, expired, faults>>

Next ==
    \/ CoordStep \/ CInterrupt \/ CancelGroup \/ Expire
    \/ \E v \in Vol : SubStep(v) \/ Interrupt(v) \/ Cancel(v) \/ LeaveGroup(v) \/ Write(v)

Spec ==
    /\ Init /\ [][Next]_snapVars
    /\ WF_snapVars(CoordStep) /\ WF_snapVars(Expire)
    /\ \A v \in Vol : WF_snapVars(SubStep(v))

-----------------------------------------------------------------------------
Forward == {States[i] : i \in 1 .. 7}
Backward == {UndoStates[i] : i \in 1 .. 3}
SubStatuses == {"none", "NEW"} \cup Forward \cup Backward \cup Terminal
PeerStatuses == {NotInMap, "", "FAILED"} \cup Forward
Times == Nat \cup {NoPiT}

CoordRecord ==
    [st : {"NEW", "CG_SNAPSHOT_VOLUMES", "CG_SNAPSHOT_WAIT", "CG_SNAPSHOT_FINALIZE",
           "UNDO_CG_SNAPSHOT_VOLUMES"} \cup Terminal,
     peers : [Vol -> PeerStatuses], canceled : BOOLEAN]
CopRecord ==
    [pc : {"idle", "InitMapInDB", "CheckForSubordinates", "launch", "count", "fail", "undo", "done"},
     inError : BOOLEAN, canceling : BOOLEAN, timedOut : BOOLEAN,
     seen : [Vol -> SubStatuses \cup PeerStatuses], created : BOOLEAN]
SubRecord == [st : SubStatuses, canceled : BOOLEAN]
SubPcs == {"idle", "next", "PausingIO", "CreatePiT", "Sync", "ResumeIO", "UploadSnapshot",
           "RemoveOlderPiTs", "CreateSnapshotObject", "DeleteSnapshot", "DeletePiT"}
SopRecord == [pc : SubPcs, inError : BOOLEAN, canceling : BOOLEAN, timedOut : BOOLEAN]
VolRecord == [paused : BOOLEAN, pit : Times, data : Times, snap : BOOLEAN,
              launched : Nat, stuck : BOOLEAN]

TypeOK ==
    /\ coord \in CoordRecord
    /\ cop \in CopRecord
    /\ sub \in [Vol -> SubRecord]
    /\ sop \in [Vol -> SopRecord]
    /\ vol \in [Vol -> VolRecord]
    /\ group \subseteq Vol
    /\ written \in 0 .. Len(Writes)
    /\ expired \in BOOLEAN
    /\ faults \in Nat

HasSnapshot(v) == vol[v].snap /\ vol[v].data # NoPiT

\* The snapshots of a group are consistent: when the snapshot of one volume has a
\* write, the snapshot of another does not miss a write made before it.  The
\* volumes are paused, their points in time are made and I/O is resumed by agents
\* of different nodes, which only the synchronizations of syncState hold together.
WriteOrderKept ==
    \A v, w \in Vol : HasSnapshot(v) /\ HasSnapshot(w) =>
        \A i, j \in 1 .. written :
            i < j /\ Writes[i] = v /\ Writes[j] = w /\ j <= vol[w].data => i <= vol[v].data

\* No volume gets a second subordinate request, although launching them may be
\* interrupted anywhere and clusterd keeps no record of what it launched.
OneSubordinate == \A v \in Vol : vol[v].launched <= 1

\* A group request that succeeds has made a snapshot.
GroupIsComplete == coord.st = "SUCCEEDED" => \E v \in Vol : HasSnapshot(v)

\* The snapshots of a group belong together.
GroupIsConsistent == WriteOrderKept /\ OneSubordinate
=============================================================================
