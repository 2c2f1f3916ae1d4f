---------------------------- MODULE VolumeCreate ----------------------------
(***************************************************************************)
(* The handlers of CREATE and DELETE of centrald (vreq/create.go): a       *)
(* volume with the consistency group (CG) and the application group (AG)   *)
(* made for it.  Every object is made by a call of its own and carries a   *)
(* tag with the request's id, by which the handler finds, after a crash,   *)
(* what it has done.  DELETE runs the undo part of the same handler.       *)
(*                                                                         *)
(* The volume, CG and AG made by a CREATE request are named after it, and  *)
(* nobody else uses its names.  The AG of a CG is the one made with it.    *)
(***************************************************************************)
EXTENDS Naturals, FiniteSets

CONSTANTS
    Creators,    \* CREATE requests
    Deleters,    \* DELETE requests
    InGroupOf,   \* [Creators -> Creators]: the CG named in the creation spec,
                 \* the request itself if none
    DeletedBy,   \* [Deleters -> Creators]: the volume to delete
    MaxFaults,   \* bound: calls that fail or whose answer is lost, and crashes
                 \* of centrald
    None

VARIABLES
    ag,      \* application groups in the data store
    cg,      \* consistency groups in the data store
    vs,      \* volumes: state, cg, and the reset tags <<request, CG>>
    req,     \* requests in the data store
    op,      \* createOp of the running handlers
    kept,    \* requests one of whose group deletions failed or was refused
    hurt,    \* requests one of whose calls failed
    early,   \* CREATEs during which a DELETE of their volume was admitted (history)
    faults, crashes

vars == <<ag, cg, vs, req, op, kept, hurt, early, faults, crashes>>

Requests == Creators \cup Deleters
HasCreate(r) == r \in Creators
HasDelete(r) == r \in Deleters
Volume(r) == IF HasCreate(r) THEN r ELSE DeletedBy[r]

Terminal == {"SUCCEEDED", "FAILED", "CANCELED"}
Pending(r) == req[r].st \notin Terminal \cup {"absent"}

Idle == [ss |-> "idle", ags |-> {}, cg |-> None, vs |-> None, err |-> FALSE]

NoVolume == [st |-> "none", cg |-> None, tags |-> {}]

Init ==
    /\ ag = {} /\ cg = {}
    /\ vs = [c \in Creators |-> NoVolume]
    /\ req = [r \in Requests |->
                 [st |-> "absent", vsID |-> FALSE, cancel |-> FALSE]]
    /\ op = [r \in Requests |-> Idle]
    /\ kept = {} /\ hurt = {} /\ early = {}
    /\ faults = 0 /\ crashes = 0

Exists(c) == vs[c].st # "none"

(***************************************************************************)
(* The API                                                                 *)
(***************************************************************************)

(* volumeSeriesRequestCreate: a CG that is named must exist; a volume must *)
(* exist and no request that has its id may be pending.  A CREATE request  *)
(* gets the id of its volume only in setID: before, it does not stop a     *)
(* DELETE.                                                                 *)
Admit(r) ==
    /\ req[r].st = "absent"
    /\ IF HasCreate(r) THEN InGroupOf[r] # r => InGroupOf[r] \in cg
       ELSE /\ Exists(Volume(r))
            /\ \A q \in Requests :
                   Pending(q) /\ Volume(q) = Volume(r) => ~req[q].vsID
    /\ req' = [req EXCEPT ![r].st = IF HasCreate(r) THEN "CREATING"
                                    ELSE "UNDO_CREATING",
                          ![r].vsID = HasDelete(r)]
    /\ early' = early \cup {c \in Creators : HasDelete(r) /\ c = Volume(r) /\ Pending(c)}
    /\ UNCHANGED <<ag, cg, vs, op, kept, hurt, faults, crashes>>

Cancel(r) ==
    /\ HasCreate(r) /\ Pending(r) /\ ~req[r].cancel
    /\ req' = [req EXCEPT ![r].cancel = TRUE]
    /\ UNCHANGED <<ag, cg, vs, op, kept, hurt, early, faults, crashes>>

(***************************************************************************)
(* loadObjects                                                             *)
(***************************************************************************)

(* Mutant: a volume is known by the id in the request only.                *)
LoadedVolume_ById(r) ==
    IF Exists(Volume(r)) /\ req[r].vsID THEN Volume(r) ELSE None

(* The volume: that of the request, or the one with the request's tag.     *)
LoadedVolume(r) ==
    IF Exists(Volume(r)) /\ (HasCreate(r) \/ req[r].vsID) THEN Volume(r)
    ELSE None

(* Whether the groups were already taken off the volume: then they are     *)
(* those in its reset tags, and may be gone.                               *)
Removed(r) ==
    LET v == LoadedVolume(r)
    IN  v # None /\ vs[v].cg = None /\ \E t \in vs[v].tags : t[1] = r

(* The CG: of the volume, of the tags, of the spec, or with the tag.       *)
GroupID(r) ==
    LET v == LoadedVolume(r)
    IN  IF v # None /\ vs[v].cg # None THEN vs[v].cg
        ELSE IF Removed(r) THEN (CHOOSE t \in vs[v].tags : t[1] = r)[2]
        ELSE IF HasCreate(r) /\ InGroupOf[r] # r THEN InGroupOf[r]
        ELSE IF HasCreate(r) /\ r \in cg THEN r ELSE None

(* A group that should be there and is not makes the request wait.         *)
(* Mutant: also one that this request has deleted.                         *)
LoadRetries_Always(r) ==
    LET g == GroupID(r) IN g # None /\ (g \notin cg \/ g \notin ag)

LoadRetries(r) ==
    LET g == GroupID(r)
    IN  g # None /\ ~Removed(r) /\ (g \notin cg \/ g \notin ag)

LoadedGroup(r) == IF GroupID(r) \in cg THEN GroupID(r) ELSE None

LoadedAGs(r) ==
    IF GroupID(r) # None THEN {GroupID(r)} \cap ag
    ELSE IF HasCreate(r) THEN {r} \cap ag ELSE {}

(* getInitialState, of the objects that were loaded.                       *)
UndoState(r, ags, g, v) ==
    LET take == IF vs[v].st # "DELETING" THEN "SetDeleting"
                ELSE "DeleteSnapshots"
    IN  CASE g = None /\ ags = {} /\ v = None -> "Done"
          [] g = None /\ ags = {} /\ v # None -> take
          [] v = None /\ (g # None \/ ags # {}) -> "DeleteCGAndAG"
          [] v # None /\ (g # None \/ ags # {}) ->
                CASE vs[v].cg # None -> take
                  [] vs[v].cg = None /\ g # None -> "DeleteCG"
                  [] OTHER -> "DeleteAGs"

ForwardState(r, ags, g, v) ==
    CASE ags = {} -> "AG"
      [] ags # {} /\ g = None -> "CG"
      [] ags # {} /\ g # None /\ req[r].vsID -> "Done"
      [] ags # {} /\ g # None /\ ~req[r].vsID ->
            IF v # None THEN "SetID" ELSE "VS"

getInitialState(r, ags, g, v) ==
    IF req[r].st = "UNDO_CREATING" THEN UndoState(r, ags, g, v)
    ELSE IF req[r].cancel THEN "Done" ELSE ForwardState(r, ags, g, v)

(***************************************************************************)
(* The handler                                                             *)
(***************************************************************************)

At(r, ss) == op[r].ss = ss

(* Dispatch: a request whose volume cannot be fetched is in error at once; *)
(* the queries of loadObjects are one step here.                           *)
Begin(r) ==
    /\ Pending(r) /\ At(r, "idle") /\ ~LoadRetries(r)
    /\ LET v == LoadedVolume(r)
           lost == req[r].vsID /\ ~Exists(Volume(r))
       IN  op' = [op EXCEPT ![r] =
                [ss |-> IF lost /\ req[r].st = "CREATING" THEN "Done"
                        ELSE getInitialState(r, LoadedAGs(r), LoadedGroup(r), v),
                 ags |-> LoadedAGs(r), cg |-> LoadedGroup(r), vs |-> v,
                 err |-> lost]]
    /\ UNCHANGED <<ag, cg, vs, req, kept, hurt, early, faults, crashes>>

Goto(r, ss) == op' = [op EXCEPT ![r].ss = ss]
RetryLater(r) == op' = [op EXCEPT ![r] = Idle]
SetRequestError(r) == op' = [op EXCEPT ![r].ss = "Done", ![r].err = TRUE]

(* How a call may end: it does what it should, or is refused, or fails     *)
(* with (the answer lost) or without having been carried out.              *)
Fault(r) == /\ faults + crashes < MaxFaults /\ faults' = faults + 1
            /\ hurt' = hurt \cup {r}
NoFault == UNCHANGED <<faults, hurt>>

createApplicationGroup(r) ==
    /\ At(r, "AG")
    /\ \/ /\ NoFault
          /\ ag' = ag \cup {r}
          /\ op' = [op EXCEPT ![r].ss = "CG", ![r].ags = {r}]
       \/ /\ SetRequestError(r) /\ Fault(r)
          /\ ag' \in {ag, ag \cup {r}}
    /\ UNCHANGED <<cg, vs, req, kept, early, crashes>>

createConsistencyGroup(r) ==
    /\ At(r, "CG")
    /\ LET ok == op[r].ags \subseteq ag
       IN  \/ /\ ok /\ NoFault
              /\ cg' = cg \cup {r}
              /\ op' = [op EXCEPT ![r].ss = "VS", ![r].cg = r]
           \/ ~ok /\ SetRequestError(r) /\ NoFault /\ UNCHANGED cg
           \/ /\ SetRequestError(r) /\ Fault(r)
              /\ cg' \in {cg, IF ok THEN cg \cup {r} ELSE cg}
    /\ UNCHANGED <<ag, vs, req, kept, early, crashes>>

createVolumeSeries(r) ==
    /\ At(r, "VS")
    /\ LET ok == ~Exists(r) /\ op[r].cg \in cg
           made == [vs EXCEPT ![r] = [st |-> "UNBOUND", cg |-> op[r].cg,
                                      tags |-> {}]]
       IN  \/ /\ ok /\ NoFault
              /\ vs' = made
              /\ op' = [op EXCEPT ![r].ss = "SetID", ![r].vs = r]
           \/ ~ok /\ SetRequestError(r) /\ NoFault /\ UNCHANGED vs
           \/ /\ SetRequestError(r) /\ Fault(r)
              /\ vs' \in {vs, IF ok THEN made ELSE vs}
    /\ UNCHANGED <<ag, cg, req, kept, early, crashes>>

setID(r) ==
    /\ At(r, "SetID")
    /\ \/ /\ NoFault /\ Goto(r, "Done")
          /\ req' = [req EXCEPT ![r].vsID = TRUE]
       \/ /\ Fault(r) /\ SetRequestError(r)
          /\ req' \in {req, [req EXCEPT ![r].vsID = TRUE]}
    /\ UNCHANGED <<ag, cg, vs, kept, early, crashes>>

setDeleting(r) ==
    /\ At(r, "SetDeleting")
    /\ LET v == op[r].vs
       IN  \/ /\ Exists(v) /\ NoFault /\ Goto(r, "DeleteSnapshots")
              /\ vs' = [vs EXCEPT ![v].st = "DELETING"]
           \/ ~Exists(v) /\ RetryLater(r) /\ NoFault /\ UNCHANGED vs
           \/ Fault(r) /\ RetryLater(r) /\ UNCHANGED vs
    /\ UNCHANGED <<ag, cg, req, kept, early, crashes>>

(* The snapshots are not modelled, only that deleting them can fail.       *)
deleteVSSnapshots(r) ==
    /\ At(r, "DeleteSnapshots")
    /\ \/ /\ NoFault
          /\ Goto(r, IF op[r].cg = None THEN "DeleteVS" ELSE "RemoveVSFromCG")
       \/ Fault(r) /\ RetryLater(r)
    /\ UNCHANGED <<ag, cg, vs, req, kept, early, crashes>>

(* The volume leaves its CG and keeps a tag that tells which it was.       *)
(* Mutant: it does not.                                                    *)
removeVSFromCG_NoTag(r) ==
    /\ At(r, "RemoveVSFromCG")
    /\ NoFault /\ Goto(r, "DeleteCG")
    /\ vs' = [vs EXCEPT ![op[r].vs].cg = None]
    /\ UNCHANGED <<ag, cg, req, kept, early, crashes>>

removeVSFromCG(r) ==
    /\ At(r, "RemoveVSFromCG")
    /\ LET v == op[r].vs
       IN  \/ /\ Exists(v) /\ NoFault /\ Goto(r, "DeleteCG")
              /\ vs' = [vs EXCEPT ![v].cg = None,
                                    ![v].tags = @ \cup {<<r, op[r].cg>>}]
           \/ ~Exists(v) /\ RetryLater(r) /\ NoFault /\ UNCHANGED vs
           \/ Fault(r) /\ RetryLater(r) /\ UNCHANGED vs
    /\ UNCHANGED <<ag, cg, req, kept, early, crashes>>

(* An undo deletes only what this request made; a failure is ignored.      *)
MayDelete(r, g) == HasDelete(r) \/ g = r

deleteCG(r) ==
    /\ \E n \in {<<"DeleteCG", "DeleteAGs">>, <<"DeleteCGAndAG", "AGOnly">>} :
           At(r, n[1]) /\ Goto(r, n[2])
    /\ LET g == op[r].cg
           used == \E c \in Creators : Exists(c) /\ vs[c].cg = g
           wanted == g # None /\ MayDelete(r, g)
       IN  \/ wanted /\ ~used /\ cg' = cg \ {g} /\ NoFault /\ UNCHANGED kept
           \/ wanted /\ used /\ UNCHANGED cg /\ NoFault /\ kept' = kept \cup {g}
           \/ wanted /\ UNCHANGED cg /\ Fault(r) /\ kept' = kept \cup {g}
           \/ ~wanted /\ UNCHANGED <<cg, kept>> /\ NoFault
    /\ UNCHANGED <<ag, vs, req, early, crashes>>

deleteAGs(r) ==
    /\ \E n \in {<<"DeleteAGs", "DeleteVS">>, <<"AGOnly", "Done">>} :
           At(r, n[1]) /\ Goto(r, n[2])
    /\ LET as == op[r].ags
           used == as \cap cg # {}
           wanted == as # {} /\ \A a \in as : MayDelete(r, a)
       IN  \/ wanted /\ ~used /\ ag' = ag \ as /\ NoFault /\ UNCHANGED kept
           \/ wanted /\ used /\ UNCHANGED ag /\ NoFault /\ kept' = kept \cup as
           \/ wanted /\ UNCHANGED ag /\ Fault(r) /\ kept' = kept \cup as
           \/ ~wanted /\ UNCHANGED <<ag, kept>> /\ NoFault
    /\ UNCHANGED <<cg, vs, req, early, crashes>>

(* The request of a DELETE fails with it, that of a CREATE does anyhow.    *)
DeleteError(r) ==
    op' = [op EXCEPT ![r].ss = "Done", ![r].err = @ \/ HasDelete(r)]

deleteVS(r) ==
    /\ At(r, "DeleteVS")
    /\ LET v == op[r].vs
           ok == vs[v].st = "DELETING"
           gone == [vs EXCEPT ![v] = NoVolume]
       IN  \/ ok /\ vs' = gone /\ NoFault /\ Goto(r, "Done")
           \/ ~ok /\ UNCHANGED vs /\ NoFault /\ DeleteError(r)
           \/ vs' \in {vs, IF ok THEN gone ELSE vs} /\ Fault(r)
              /\ DeleteError(r)
    /\ UNCHANGED <<ag, cg, req, kept, early, crashes>>

(* The animator takes over: the undo state after an error or when the      *)
(* request has been canceled, or the final one.                            *)
Finish(r) ==
    /\ At(r, "Done")
    /\ op' = [op EXCEPT ![r] = Idle]
    /\ req' = [req EXCEPT ![r].st =
           CASE @ = "CREATING" ->
                    IF op[r].err \/ req[r].cancel THEN "UNDO_CREATING"
                    ELSE "SUCCEEDED"
             [] @ = "UNDO_CREATING" /\ HasCreate(r) ->
                    IF req[r].cancel THEN "CANCELED" ELSE "FAILED"
             [] OTHER -> IF op[r].err THEN "FAILED" ELSE "SUCCEEDED"]
    /\ UNCHANGED <<ag, cg, vs, kept, hurt, early, faults, crashes>>

(* centrald stops; what its handlers had in memory is lost.                *)
Crash ==
    /\ faults + crashes < MaxFaults
    /\ crashes' = crashes + 1
    /\ op' = [r \in Requests |-> Idle]
    /\ UNCHANGED <<ag, cg, vs, req, kept, hurt, early, faults>>

------------------------------------------------------------------------------
Handler(r) ==
    \/ Begin(r) \/ Finish(r)
    \/ createApplicationGroup(r) \/ createConsistencyGroup(r)
    \/ createVolumeSeries(r) \/ setID(r)
    \/ setDeleting(r) \/ deleteVSSnapshots(r) \/ removeVSFromCG(r)
    \/ deleteCG(r) \/ deleteAGs(r) \/ deleteVS(r)

Next ==
    \/ \E r \in Requests : Admit(r) \/ Cancel(r) \/ Handler(r)
    \/ Crash

Spec == Init /\ [][Next]_vars /\ \A r \in Requests : WF_vars(Handler(r))

------------------------------------------------------------------------------
(* A CREATE that was undone leaves no group behind that it made, unless    *)
(* deleting that failed or was refused because the group was in use; and   *)
(* no volume unless one of its calls failed.                               *)
UndoneLeavesNothing ==
    \A r \in Creators :
        req[r].st \in {"FAILED", "CANCELED"}
        => (Exists(r) => r \in hurt) /\ (r \in ag \cup cg => r \in kept)

(* A CREATE that succeeded has its volume, in its group, with the groups   *)
(* there, as long as nobody asks to delete it.  A DELETE is admitted from  *)
(* createVolumeSeries on (create.go:423 has yet to name the volume): then  *)
(* the CREATE may succeed although the volume is gone.                     *)
CreatedIsThere ==
    \A r \in Creators :
        req[r].st = "SUCCEEDED" /\ (\A d \in Deleters : Volume(d) = r => req[d].st = "absent")
        => vs[r].cg = InGroupOf[r] /\ InGroupOf[r] \in ag \cap cg

(* A crash by itself makes no CREATE fail: the handler takes up what it    *)
(* finds, and makes nothing twice.  (The CG that it names may be gone, or  *)
(* its volume deleted by an early DELETE.)                                 *)
CrashDoesNotFail ==
    \A r \in Creators :
        req[r].st = "FAILED" => r \in hurt \cup early \/ InGroupOf[r] # r

(* A DELETE that succeeded leaves neither the volume nor its groups,       *)
(* unless deleting a group failed or was refused because it was in use; a  *)
(* CREATE that was under way may make them again.                          *)
DeleteIsComplete ==
    \A r \in Deleters :
        req[r].st = "SUCCEEDED" /\ Volume(r) \notin early
        => LET c == Volume(r)
           IN  ~Exists(c) /\ (InGroupOf[c] \in ag \cup cg => InGroupOf[c] \in kept)

(* Every request ends, except a CREATE whose CG was deleted meanwhile: it  *)
(* is retried for as long as the CG is missing.                            *)
AllEnded ==
    \A r \in Requests :
        Pending(r) => HasCreate(r) /\ InGroupOf[r] # r /\ InGroupOf[r] \notin cg \cap ag
RequestsEnd == <>[]AllEnded
(* CREATE and DELETE are whole or not at all, crashes included, but for a  *)
(* DELETE that is admitted while the CREATE of its volume is under way.    *)
CreateIsWhole == CreatedIsThere /\ UndoneLeavesNothing /\ CrashDoesNotFail /\ DeleteIsComplete
=============================================================================
