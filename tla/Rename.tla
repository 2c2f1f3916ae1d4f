------------------------------- MODULE Rename -------------------------------
(***************************************************************************)
(* The handler of RENAME of centrald (vreq/rename.go): a volume gets a new *)
(* name, and so do its consistency group (CG) and application group (AG)   *)
(* where they are named as it was.  The old name is kept in a tag of the   *)
(* request, so that a restarted handler, or the undo, finds out by the     *)
(* names which part has been done.                                         *)
(***************************************************************************)
EXTENDS Naturals

CONSTANTS
    OldName, NewName, OtherName,
    MaxFaults,      \* bound: calls that fail
    MaxCrashes      \* bound: crashes of centrald

VARIABLES
    name,    \* [Object -> name] in the data store
    first,   \* the names before the request (history)
    taken,   \* objects for which another has the name to give: it is refused
    req,     \* state, plan only, tag present, cancel
    op,      \* renameOp of the running handler: next step, CG and AG loaded
    reverts, \* did each call of the undo succeed? (history)
    faults, crashes

vars == <<name, first, taken, req, op, reverts, faults, crashes>>

Object == {"VS", "CG", "AG"}

(* The name of the request differs from that of the volume; groups may have   *)
(* any name, the new one included (volume_series_request_handlers.go:754).    *)
NamesAssumption == OldName # NewName /\ OtherName \notin {OldName, NewName}
GroupNames == {OldName, NewName, OtherName}
Idle == [ss |-> "idle", groups |-> {}, err |-> FALSE]

Init ==
    /\ \E c, a \in GroupNames :
           name = [o \in Object |-> CASE o = "VS" -> OldName
                                      [] o = "CG" -> c [] o = "AG" -> a]
    /\ first = name
    /\ taken \in SUBSET Object
    /\ \E plan \in BOOLEAN :
           req = [st |-> "RENAMING", plan |-> plan, tag |-> FALSE,
                  cancel |-> FALSE]
    /\ op = Idle
    /\ reverts = TRUE
    /\ faults = 0 /\ crashes = 0

Pending == req.st \in {"RENAMING", "UNDO_RENAMING"}

Cancel ==
    /\ Pending /\ ~req.cancel
    /\ req' = [req EXCEPT !.cancel = TRUE]
    /\ UNCHANGED <<name, first, taken, op, reverts, faults, crashes>>

------------------------------------------------------------------------------
(* loadGroups: the groups that have the name.                              *)
Matching(n) == {g \in {"CG", "AG"} : name[g] = n}

(* Mutant: the undo looks at the volume only.                                 *)
UndoState_NoGroups(g) ==
    IF req.tag /\ name["VS"] = NewName THEN "RevertVS" ELSE "Done"

UndoState(g) ==
    IF ~req.tag THEN "Done"
    ELSE CASE "AG" \in g -> "RevertAG"
           [] g = {"CG"} -> "RevertCG"
           [] g = {} -> IF name["VS"] = NewName THEN "RevertVS" ELSE "Done"

(* Mutant: a volume that has its new name is done.                         *)
ForwardState_Named(g) ==
    IF ~req.tag THEN "Start"
    ELSE IF name["VS"] = OldName THEN "VS" ELSE "Done"

ForwardState(g) ==
    IF ~req.tag THEN "Start"
    ELSE CASE name["VS"] = OldName -> "VS"
           [] name["VS"] # OldName /\ "CG" \in g -> "CG"
           [] name["VS"] # OldName /\ g = {"AG"} -> "AG"
           [] OTHER -> "Done"

getInitialState ==
    /\ Pending /\ op.ss = "idle"
    /\ LET undo == req.st = "UNDO_RENAMING"
           g == Matching(IF undo THEN NewName ELSE OldName)
       IN  op' = [op EXCEPT !.groups = g,
                            !.ss = IF undo THEN UndoState(g)
                                   ELSE IF req.cancel THEN "Done"
                                   ELSE ForwardState(g)]
    /\ UNCHANGED <<name, first, taken, req, reverts, faults, crashes>>

(* A failed update of the request keeps the tag in memory, where the undo  *)
(* finds it: as if it had been saved.                                      *)
saveInitialState ==
    /\ op.ss = "Start"
    /\ req' = [req EXCEPT !.tag = TRUE]
    /\ \/ /\ op' = [op EXCEPT !.ss = "VS"]
          /\ UNCHANGED faults
       \/ /\ faults < MaxFaults
          /\ faults' = faults + 1
          /\ op' = [op EXCEPT !.ss = "Done", !.err = TRUE]
    /\ UNCHANGED <<name, first, taken, reverts, crashes>>

(* The states after a step, in the order of the sub-states.                *)
Following == [VS |-> "CG", CG |-> "AG", AG |-> "Done",
              RevertAG |-> "RevertCG", RevertCG |-> "RevertVS",
              RevertVS |-> "Done"]

Target == [VS |-> "VS", CG |-> "CG", AG |-> "AG",
           RevertAG |-> "AG", RevertCG |-> "CG", RevertVS |-> "VS"]

Reverting == op.ss \in {"RevertAG", "RevertCG", "RevertVS"}

(* renameVolumeSeries, renameConsistencyGroup, renameApplicationGroup: a   *)
(* group that was not loaded is skipped, and one already renamed is left   *)
(* alone.  An error ends the handler.                                      *)
Rename ==
    /\ op.ss \in DOMAIN Following
    /\ LET o == Target[op.ss]
           to == IF Reverting THEN OldName ELSE NewName
           wanted == (o = "VS" \/ o \in op.groups) /\ ~req.plan /\ name[o] # to
       IN  \/ /\ wanted => o \notin taken
              /\ name' = [name EXCEPT ![o] = IF wanted THEN to ELSE @]
              /\ op' = [op EXCEPT !.ss = Following[@]]
              /\ UNCHANGED <<reverts, faults>>
           \/ /\ wanted /\ o \in taken
              /\ op' = [op EXCEPT !.ss = "Done", !.err = TRUE]
              /\ reverts' = (reverts /\ ~Reverting)
              /\ UNCHANGED <<name, faults>>
           \/ /\ wanted /\ faults < MaxFaults
              /\ faults' = faults + 1
              /\ name' \in {name, IF o \in taken THEN name
                                  ELSE [name EXCEPT ![o] = to]}
              /\ op' = [op EXCEPT !.ss = "Done", !.err = TRUE]
              /\ reverts' = (reverts /\ ~Reverting)
    /\ UNCHANGED <<first, taken, req, crashes>>

(* The animator goes on to the undo or to the final state.                 *)
Finish ==
    /\ op.ss = "Done"
    /\ op' = Idle
    /\ req' = [req EXCEPT !.st =
           CASE @ = "RENAMING" -> IF op.err \/ req.cancel THEN "UNDO_RENAMING"
                                  ELSE "SUCCEEDED"
             [] @ = "UNDO_RENAMING" -> IF req.cancel THEN "CANCELED"
                                       ELSE "FAILED"]
    /\ UNCHANGED <<name, first, taken, reverts, faults, crashes>>

(* centrald stops; the handler starts over.                                *)
Crash ==
    /\ Pending /\ crashes < MaxCrashes
    /\ crashes' = crashes + 1
    /\ op' = Idle
    /\ UNCHANGED <<name, first, taken, req, reverts, faults>>

Handler == getInitialState \/ saveInitialState \/ Rename \/ Finish
Next == Handler \/ Cancel \/ Crash
Spec == Init /\ [][Next]_vars /\ WF_vars(Handler)

------------------------------------------------------------------------------
(* A RENAME that succeeded has renamed the volume and every group that was *)
(* named as it was, and nothing else; one of a plan only has not.          *)
RenamedTogether ==
    req.st = "SUCCEEDED"
    => name = [o \in Object |-> IF first[o] = OldName /\ ~req.plan
                                THEN NewName ELSE first[o]]

(* A RENAME that did not succeed leaves all names as they were, unless a   *)
(* call of its undo failed.  The exception: the undo finds the groups by   *)
(* the new name (rename.go:143), so that one which had it before the       *)
(* request, and was never renamed, may be left with the old name, although *)
(* the undo "reverses the changes made by Rename" (rename.go:88).          *)
Misnamed(o) == o # "VS" /\ first[o] = NewName /\ name[o] = OldName
UndoneAsBefore ==
    req.st \in {"FAILED", "CANCELED"} /\ reverts
    => \A o \in Object : name[o] = first[o] \/ Misnamed(o)
(* RENAME is whole or not at all, but for groups that had the new name.    *)
RenameIsWhole == RenamedTogether /\ UndoneAsBefore
=============================================================================
