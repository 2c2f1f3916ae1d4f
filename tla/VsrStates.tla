----------------------------- MODULE VsrStates -----------------------------
(***************************************************************************)
(* The states of a VolumeSeriesRequest (VSR) and the plan of its animator: *)
(* pkg/vra/states.go and the first half of requestAnimator in              *)
(* pkg/vra/request.go.  A state and an operation are denoted by the value  *)
(* the code stores in the database for it.                                 *)
(***************************************************************************)
EXTENDS Integers, Sequences

Processes == {"centrald", "clusterd", "agentd"}
NoProcess == "unknown"
None == ""                  \* no state

(* stateData: the Order column ...                                         *)
Order == [
    NEW |-> 0, CREATING |-> 10, CAPACITY_WAIT |-> 20, BINDING |-> 20,
    PUBLISHING |-> 30, CHOOSING_NODE |-> 38, SIZING |-> 40,
    STORAGE_WAIT |-> 50, PLACEMENT |-> 50, PLACEMENT_REATTACH |-> 50,
    VOLUME_CONFIG |-> 60, VOLUME_EXPORT |-> 70, SNAPSHOT_RESTORE |-> 80,
    SNAPSHOT_RESTORE_FINALIZE |-> 90, ATTACHING_FS |-> 95,
    CHANGING_CAPACITY |-> 100, RESIZING_CACHE |-> 102,
    REALLOCATING_CACHE |-> 104, RENAMING |-> 110,
    CREATING_FROM_SNAPSHOT |-> 130, SNAPSHOT_RESTORE_DONE |-> 140,
    ALLOCATING_CAPACITY |-> 150, PUBLISHING_SERVICE_PLAN |-> 151,
    CG_SNAPSHOT_VOLUMES |-> 170, CG_SNAPSHOT_WAIT |-> 180,
    CG_SNAPSHOT_FINALIZE |-> 190, PAUSING_IO |-> 250, PAUSED_IO |-> 260,
    CREATING_PIT |-> 270, CREATED_PIT |-> 280, SNAPSHOT_UPLOADING |-> 290,
    SNAPSHOT_UPLOAD_DONE |-> 300, FINALIZING_SNAPSHOT |-> 310,
    DRAINING_REQUESTS |-> 400, CANCELING_REQUESTS |-> 410,
    DETACHING_VOLUMES |-> 420, DETACHING_STORAGE |-> 430,
    VOLUME_DETACH_WAIT |-> 440, VOLUME_DETACHING |-> 450,
    VOLUME_DETACHED |-> 460, DELETING_NODE |-> 470,
    UNDO_ATTACHING_FS |-> 505, UNDO_SNAPSHOT_RESTORE |-> 510,
    UNDO_VOLUME_EXPORT |-> 520, UNDO_VOLUME_CONFIG |-> 530,
    UNDO_PLACEMENT |-> 540, UNDO_SIZING |-> 550, UNDO_PUBLISHING |-> 560,
    UNDO_BINDING |-> 570, UNDO_CREATING |-> 580,
    UNDO_REALLOCATING_CACHE |-> 586, UNDO_RESIZING_CACHE |-> 588,
    UNDO_CHANGING_CAPACITY |-> 590, UNDO_RENAMING |-> 600,
    UNDO_CREATING_FROM_SNAPSHOT |-> 610, UNDO_ALLOCATING_CAPACITY |-> 620,
    DELETING_SPA |-> 630, UNDO_CG_SNAPSHOT_VOLUMES |-> 730,
    UNDO_SNAPSHOT_UPLOAD_DONE |-> 740, UNDO_SNAPSHOT_UPLOADING |-> 750,
    UNDO_CREATED_PIT |-> 760, UNDO_CREATING_PIT |-> 770,
    UNDO_PAUSED_IO |-> 780, UNDO_PAUSING_IO |-> 790,
    SUCCEEDED |-> 999, FAILED |-> 999, CANCELED |-> 999]

States == DOMAIN Order

soMinUndoStateOrder == 501
soTerminationStatesOrder == 999

(* ... the Undo column (for the states that have one) ...                  *)
UndoTable == [
    CREATING |-> "UNDO_CREATING", BINDING |-> "UNDO_BINDING",
    PUBLISHING |-> "UNDO_PUBLISHING", SIZING |-> "UNDO_SIZING",
    PLACEMENT |-> "UNDO_PLACEMENT", VOLUME_CONFIG |-> "UNDO_VOLUME_CONFIG",
    VOLUME_EXPORT |-> "UNDO_VOLUME_EXPORT",
    SNAPSHOT_RESTORE |-> "UNDO_SNAPSHOT_RESTORE",
    ATTACHING_FS |-> "UNDO_ATTACHING_FS",
    CHANGING_CAPACITY |-> "UNDO_CHANGING_CAPACITY",
    RESIZING_CACHE |-> "UNDO_RESIZING_CACHE",
    REALLOCATING_CACHE |-> "UNDO_REALLOCATING_CACHE",
    RENAMING |-> "UNDO_RENAMING",
    CREATING_FROM_SNAPSHOT |-> "UNDO_CREATING_FROM_SNAPSHOT",
    ALLOCATING_CAPACITY |-> "UNDO_ALLOCATING_CAPACITY",
    CG_SNAPSHOT_VOLUMES |-> "UNDO_CG_SNAPSHOT_VOLUMES",
    CG_SNAPSHOT_WAIT |-> "UNDO_CG_SNAPSHOT_VOLUMES",
    PAUSING_IO |-> "UNDO_PAUSING_IO", PAUSED_IO |-> "UNDO_PAUSED_IO",
    CREATING_PIT |-> "UNDO_CREATING_PIT", CREATED_PIT |-> "UNDO_CREATED_PIT",
    SNAPSHOT_UPLOADING |-> "UNDO_SNAPSHOT_UPLOADING",
    SNAPSHOT_UPLOAD_DONE |-> "UNDO_SNAPSHOT_UPLOAD_DONE"]

Undo(s) == IF s \in DOMAIN UndoTable THEN UndoTable[s] ELSE None

(* ... and the Process column: which daemon has the handler of a state.    *)
AgentdStates ==
    {"VOLUME_CONFIG", "VOLUME_EXPORT", "SNAPSHOT_RESTORE",
     "SNAPSHOT_RESTORE_FINALIZE", "ATTACHING_FS", "REALLOCATING_CACHE",
     "PAUSING_IO", "PAUSED_IO", "CREATING_PIT", "CREATED_PIT",
     "SNAPSHOT_UPLOADING", "SNAPSHOT_UPLOAD_DONE", "FINALIZING_SNAPSHOT",
     "UNDO_ATTACHING_FS", "UNDO_SNAPSHOT_RESTORE", "UNDO_VOLUME_EXPORT",
     "UNDO_VOLUME_CONFIG", "UNDO_REALLOCATING_CACHE",
     "UNDO_SNAPSHOT_UPLOAD_DONE", "UNDO_SNAPSHOT_UPLOADING",
     "UNDO_CREATED_PIT", "UNDO_CREATING_PIT", "UNDO_PAUSED_IO",
     "UNDO_PAUSING_IO"}

ClusterdStates ==
    {"PUBLISHING", "CHOOSING_NODE", "SIZING", "STORAGE_WAIT", "PLACEMENT",
     "PLACEMENT_REATTACH", "RESIZING_CACHE", "CREATING_FROM_SNAPSHOT",
     "SNAPSHOT_RESTORE_DONE", "PUBLISHING_SERVICE_PLAN",
     "CG_SNAPSHOT_VOLUMES", "CG_SNAPSHOT_WAIT", "CG_SNAPSHOT_FINALIZE",
     "UNDO_PLACEMENT", "UNDO_SIZING", "UNDO_PUBLISHING",
     "UNDO_RESIZING_CACHE", "UNDO_CREATING_FROM_SNAPSHOT",
     "UNDO_CG_SNAPSHOT_VOLUMES"}

IsTerminal(s) == Order[s] >= soTerminationStatesOrder
IsUndo(s) == Order[s] >= soMinUndoStateOrder /\ ~IsTerminal(s)

(* initialProcessOfOperation, by the first of the requested operations     *)
initialProcessOfOperation(op) ==
    CASE op \in {"ATTACH_FS", "DETACH_FS", "UNMOUNT", "VOL_SNAPSHOT_CREATE",
                 "VOL_SNAPSHOT_RESTORE"} -> "agentd"
      [] op \in {"CG_SNAPSHOT_CREATE", "CONFIGURE", "CREATE_FROM_SNAPSHOT",
                 "MOUNT", "PUBLISH", "UNPUBLISH"} -> "clusterd"
      [] OTHER -> "centrald"

(* GetProcess *)
GetProcess(s, ops) ==
    CASE s = "NEW" -> initialProcessOfOperation(ops[1])
      [] s \in AgentdStates -> "agentd"
      [] s \in ClusterdStates -> "clusterd"
      [] IsTerminal(s) -> NoProcess
      [] OTHER -> "centrald"

-----------------------------------------------------------------------------
(* The plan of a request *)

Has(ops, set) == \E i \in 1 .. Len(ops) : ops[i] \in set

(* What the DELETE and UNBIND plans depend on in the VolumeSeries object:  *)
(* RootStorageID, StorageParcels and ClusterDescriptor are set; and        *)
(* CHANGE_CAPACITY: it has cache (VolumeSeriesCacheIsRequested).           *)
Volumes == [root : BOOLEAN, parcels : BOOLEAN, published : BOOLEAN,
            cached : BOOLEAN]

(* A step of a plan: a state to go through, and the state that undoes it   *)
(* if the request is found beyond it; either may be missing.               *)
Do(s) == [fwd |-> s, undo |-> Undo(s)]
Only(s) == [fwd |-> s, undo |-> None]
When(b, steps) == IF b THEN steps ELSE <<>>

(* All steps of a request, in the order of the code.  That it is the same  *)
(* for every combination of operations is why the handler that creates a   *)
(* request restricts them.                                                 *)
Steps(ops, vol) ==
    LET has(op) == Has(ops, {op})
        gone == Has(ops, {"DELETE", "UNBIND"})
    IN     When(has("CREATE"), <<Do("CREATING")>>)
        \o When(has("CREATE_FROM_SNAPSHOT"),
                <<Do("CREATING_FROM_SNAPSHOT"), Only("SNAPSHOT_RESTORE_DONE")>>)
        \o When(has("BIND"), <<Do("BINDING")>>)
        \o When(has("PUBLISH"), <<Do("PUBLISHING")>>)
        \o When(has("CONFIGURE"), <<Only("SIZING"), Only("PLACEMENT")>>)
        \o When(has("MOUNT") /\ ~has("CONFIGURE"),
                <<Do("SIZING"), Do("PLACEMENT")>>)
        \o When(has("MOUNT"), <<Do("VOLUME_CONFIG"), Do("VOLUME_EXPORT")>>)
        \o When(has("VOL_SNAPSHOT_RESTORE"),
                <<Do("SNAPSHOT_RESTORE"), Only("SNAPSHOT_RESTORE_FINALIZE")>>)
        \o When(has("ATTACH_FS"), <<Do("ATTACHING_FS")>>)
        \o When(has("DETACH_FS"), <<Only("UNDO_ATTACHING_FS")>>)
        \o When(has("UNMOUNT"), <<Only("UNDO_VOLUME_EXPORT")>>)
        \o When(gone /\ vol.root,
                <<Only("CHOOSING_NODE"), Only("PLACEMENT_REATTACH"),
                  Only("UNDO_VOLUME_CONFIG")>>)
        \o When(gone /\ vol.parcels,
                <<Only("UNDO_PLACEMENT"), Only("UNDO_SIZING")>>)
        \o When(IF gone THEN vol.published ELSE has("UNPUBLISH"),
                <<Only("UNDO_PUBLISHING")>>)
        \o When(gone, <<Only("UNDO_BINDING")>>)
        \o When(has("DELETE"), <<Only("UNDO_CREATING")>>)
        \o When(has("RENAME"), <<Do("RENAMING")>>)
        \o When(has("ALLOCATE_CAPACITY"),
                <<Do("ALLOCATING_CAPACITY"), Only("PUBLISHING_SERVICE_PLAN")>>)
        \o When(has("DELETE_SPA"), <<Only("DELETING_SPA")>>)
        \o When(has("CG_SNAPSHOT_CREATE"),
                <<Only("CG_SNAPSHOT_VOLUMES"), Only("CG_SNAPSHOT_WAIT"),
                  Only("CG_SNAPSHOT_FINALIZE"),
                  [fwd |-> None, undo |-> "UNDO_CG_SNAPSHOT_VOLUMES"]>>)
        \o When(has("CONFIGURE"), <<Do("VOLUME_CONFIG")>>)
        \o When(has("VOL_SNAPSHOT_CREATE"),
                <<Do("PAUSING_IO"), Do("PAUSED_IO"), Do("CREATING_PIT"),
                  Do("CREATED_PIT"), Do("SNAPSHOT_UPLOADING"),
                  Do("SNAPSHOT_UPLOAD_DONE"), Only("FINALIZING_SNAPSHOT")>>)
        \o When(has("CHANGE_CAPACITY"),
                <<Do("CHANGING_CAPACITY")>>)
        \o When(has("CHANGE_CAPACITY") /\ vol.cached,
                <<Do("RESIZING_CACHE"), Do("REALLOCATING_CACHE")>>)
        \o When(has("NODE_DELETE"),
                <<Only("DRAINING_REQUESTS"), Only("CANCELING_REQUESTS"),
                  Only("DETACHING_VOLUMES"), Only("DETACHING_STORAGE"),
                  Only("VOLUME_DETACH_WAIT"), Only("VOLUME_DETACHED"),
                  Only("DELETING_NODE")>>)
        \o When(has("VOL_DETACH"),
                <<Only("VOLUME_DETACH_WAIT"), Only("VOLUME_DETACHING"),
                  Only("VOLUME_DETACHED")>>)

(* Mutant: the state that the request is in counts as done.                *)
attempt_Beyond(cur, s) == s # None /\ Order[cur] < Order[s]

(* attempt: the request has not passed this state yet                      *)
attempt(cur, s) == s # None /\ Order[cur] <= Order[s]

Column(steps, c) == [i \in 1 .. Len(steps) |-> steps[i][c]]

(* The states to go through from state cur ...                             *)
ForwardStates(ops, vol, cur) ==
    LET here(st) == attempt(cur, st.fwd)
    IN  Column(SelectSeq(Steps(ops, vol), here), "fwd")

(* ... and those that undo what it has been through already.               *)
UndoStates(ops, vol, cur) ==
    LET past(st) == ~attempt(cur, st.fwd) /\ attempt(cur, st.undo)
    IN  Column(SelectSeq(Steps(ops, vol), past), "undo")

(* The request is in an undo state, and its operations have none among the *)
(* states they go through.  (UNPUBLISH and DETACH_FS do have.)             *)
undoOnly(ops, cur) ==
    /\ ~Has(ops, {"UNBIND", "DELETE", "DELETE_SPA", "UNMOUNT"})
    /\ IsUndo(cur)
=============================================================================
