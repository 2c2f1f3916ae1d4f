--------------------------- MODULE SnapshotProofs ---------------------------
(***************************************************************************)
(* The snapshots of a group are consistent: for any volumes, any writes of *)
(* their applications, and any number of interruptions, failures, cancels  *)
(* and moves.                                                              *)
(***************************************************************************)
EXTENDS Snapshot, TLAPS

-----------------------------------------------------------------------------
(* The invariant.                                                          *)

Before4 == {"PAUSING_IO", "PAUSED_IO", "CREATING_PIT"}
After4 == {"SNAPSHOT_UPLOADING", "SNAPSHOT_UPLOAD_DONE", "FINALIZING_SNAPSHOT"}
From4 == {"CREATED_PIT"} \cup After4
Synced == {"PAUSED_IO", "CREATED_PIT", "SNAPSHOT_UPLOAD_DONE", "FINALIZING_SNAPSHOT"}

(* The handler is in a sub-state of the state of its request.              *)
SubStateMatches(v) ==
    /\ sop[v].pc # "idle" => sub[v].st \in Forward \cup Backward
    /\ sop[v].pc = "PausingIO" => sub[v].st = "PAUSING_IO"
    /\ sop[v].pc = "CreatePiT" => sub[v].st = "CREATING_PIT"
    /\ sop[v].pc = "ResumeIO" => sub[v].st \in {"CREATED_PIT", "UNDO_PAUSING_IO"}
    /\ sop[v].pc = "UploadSnapshot" => sub[v].st = "SNAPSHOT_UPLOADING"
    /\ sop[v].pc \in {"RemoveOlderPiTs", "CreateSnapshotObject"} => sub[v].st = "FINALIZING_SNAPSHOT"
    /\ sop[v].pc = "DeleteSnapshot" => sub[v].st = "UNDO_SNAPSHOT_UPLOADING"
    /\ sop[v].pc = "DeletePiT" => sub[v].st = "UNDO_CREATING_PIT"
    /\ sop[v].pc = "Sync" => sub[v].st \in Synced

(* The handler is about to write the next state, and not one to undo.      *)
GoesOn(v) == sop[v].pc = "next" /\ ~(sop[v].inError \/ sop[v].canceling \/ sop[v].timedOut)

(* Requests are launched once, for volumes in the map.                     *)
LaunchedOnce(v) ==
    /\ vol[v].launched = IF sub[v].st = "none" THEN 0 ELSE 1
    /\ sub[v].st # "none" => InMap(v) \/ v \notin group
    /\ cop.pc = "InitMapInDB" => ~InMap(v)
    /\ cop.pc = "launch" /\ cop.seen[v] = "" => sub[v].st = "none" /\ InMap(v)
    /\ cop.pc = "CheckForSubordinates" /\ cop.seen[v] = "" /\ sub[v].st = "none" => InMap(v)

(* A request has come to CREATED_PIT, though it may since be undone.       *)
Reached4(v) == sub[v].st \notin {"none", "NEW"} \cup Before4
AllReached4 == \A v \in Vol : InMap(v) => Reached4(v)

(* What the map shows is true, and who depends on the others is in it.     *)
MapIsTrue(v) ==
    /\ coord.peers[v] \in From4 => Reached4(v)
    /\ sub[v].st \in {"CREATING_PIT"} \cup From4 => InMap(v)
    /\ sub[v].st = "PAUSED_IO" /\ GoesOn(v) => InMap(v)
    /\ vol[v].data # NoPiT => InMap(v)

(* I/O is paused until all points in time are made.                        *)
Passed4(v) ==
    \/ sub[v].st \in After4
    \/ sub[v].st = "CREATED_PIT" /\ (~vol[v].paused \/ sop[v].pc = "ResumeIO" \/ GoesOn(v))
    \/ vol[v].data # NoPiT

IsPaused(v) ==
    /\ sub[v].st \in {"PAUSED_IO", "CREATING_PIT"} => vol[v].paused
    /\ sub[v].st = "PAUSING_IO" /\ GoesOn(v) => vol[v].paused

PausedTogether(v) == Passed4(v) => AllReached4

(* The writes that the point in time of a volume has: it is held unless    *)
(* the request is being undone.                                            *)
Held(v) == vol[v].data # NoPiT \/ (vol[v].pit # NoPiT /\ sub[v].st \in Forward)
HeldAt(v) == IF vol[v].data # NoPiT THEN vol[v].data ELSE vol[v].pit

PitIsTrue(v) ==
    /\ vol[v].pit <= written /\ vol[v].data <= written
    /\ vol[v].pit # NoPiT => sub[v].st \notin {"none", "NEW", "PAUSING_IO", "PAUSED_IO"}
    /\ vol[v].pit # NoPiT /\ vol[v].data # NoPiT => vol[v].pit = vol[v].data

NotWritten(v) ==
    sub[v].st \in {"CREATING_PIT", "CREATED_PIT"} /\ vol[v].paused /\ vol[v].pit # NoPiT =>
        \A i \in 1 .. written : i > vol[v].pit => Writes[i] # v

Local(v) == /\ SubStateMatches(v) /\ LaunchedOnce(v) /\ MapIsTrue(v)
            /\ IsPaused(v) /\ PitIsTrue(v) /\ NotWritten(v)

(* No volume was written between its point in time and that of another.    *)
HeldInv ==
    \A v, w \in Vol : Held(v) /\ Held(w) =>
        \A i \in 1 .. written : i > HeldAt(v) /\ i <= HeldAt(w) => Writes[i] # v

IInv == /\ TypeOK
        /\ \A v \in Vol : Local(v) /\ PausedTogether(v)
        /\ HeldInv

-----------------------------------------------------------------------------
(* The lists of states.                                                    *)
LEMMA StatesAre ==
    /\ Forward = {"PAUSING_IO", "PAUSED_IO", "CREATING_PIT", "CREATED_PIT",
                  "SNAPSHOT_UPLOADING", "SNAPSHOT_UPLOAD_DONE", "FINALIZING_SNAPSHOT"}
    /\ Backward = {"UNDO_SNAPSHOT_UPLOADING", "UNDO_CREATING_PIT", "UNDO_PAUSING_IO"}
<1>1. 1 .. 7 = {1, 2, 3, 4, 5, 6, 7} /\ 1 .. 3 = {1, 2, 3}
  OBVIOUS
<1> QED
  BY <1>1 DEF Forward, Backward, States, UndoStates

LEMMA IndexInFirst ==
    ASSUME NEW s, NEW i \in DOMAIN s, \A j \in DOMAIN s : s[j] = s[i] => j = i
    PROVE  IndexIn(s, s[i]) = i
  BY DEF IndexIn

LEMMA IndexOfNone ==
    ASSUME NEW s, NEW e, \A j \in DOMAIN s : s[j] # e
    PROVE  IndexIn(s, e) = 0
  BY DEF IndexIn

LEMMA OrderIs ==
    /\ Order("PAUSING_IO") = 1 /\ Order("PAUSED_IO") = 2 /\ Order("CREATING_PIT") = 3
    /\ Order("CREATED_PIT") = 4 /\ Order("SNAPSHOT_UPLOADING") = 5
    /\ Order("SNAPSHOT_UPLOAD_DONE") = 6 /\ Order("FINALIZING_SNAPSHOT") = 7
    /\ \A st : st \notin Forward => Order(st) = 0
<1>1. DOMAIN States = 1 .. 7 /\ \A i, j \in 1 .. 7 : States[i] = States[j] => i = j
  BY DEF States
<1>2. \A i \in 1 .. 7 : Order(States[i]) = i
  BY <1>1, IndexInFirst DEF Order
<1>3. ASSUME NEW st, st \notin Forward PROVE Order(st) = 0
  <2>1. \A j \in 1 .. 7 : States[j] # st
    BY <1>3 DEF Forward
  <2> QED
    BY <1>1, <2>1, IndexOfNone DEF Order
<1>4. /\ States[1] = "PAUSING_IO" /\ States[2] = "PAUSED_IO" /\ States[3] = "CREATING_PIT"
      /\ States[4] = "CREATED_PIT" /\ States[5] = "SNAPSHOT_UPLOADING"
      /\ States[6] = "SNAPSHOT_UPLOAD_DONE" /\ States[7] = "FINALIZING_SNAPSHOT"
  BY DEF States
<1>5. 1 \in 1 .. 7 /\ 2 \in 1 .. 7 /\ 3 \in 1 .. 7 /\ 4 \in 1 .. 7 /\ 5 \in 1 .. 7 /\ 6 \in 1 .. 7 /\ 7 \in 1 .. 7
  OBVIOUS
<1> QED
  BY <1>2, <1>3, <1>4, <1>5, Zenon

LEMMA UndoIndexIs ==
    /\ IndexIn(UndoStates, "UNDO_SNAPSHOT_UPLOADING") = 1
    /\ IndexIn(UndoStates, "UNDO_CREATING_PIT") = 2
    /\ IndexIn(UndoStates, "UNDO_PAUSING_IO") = 3
    /\ \A st : IsUndo(st) <=> st \in Backward
<1>1. DOMAIN UndoStates = 1 .. 3 /\ \A i, j \in 1 .. 3 : UndoStates[i] = UndoStates[j] => i = j
  BY DEF UndoStates
<1>2. \A i \in 1 .. 3 : IndexIn(UndoStates, UndoStates[i]) = i
  BY <1>1, IndexInFirst
<1>3. ASSUME NEW st, st \notin Backward PROVE IndexIn(UndoStates, st) = 0
  <2>1. \A j \in 1 .. 3 : UndoStates[j] # st
    BY <1>3 DEF Backward
  <2> QED
    BY <1>1, <2>1, IndexOfNone
<1>4. /\ UndoStates[1] = "UNDO_SNAPSHOT_UPLOADING" /\ UndoStates[2] = "UNDO_CREATING_PIT"
      /\ UndoStates[3] = "UNDO_PAUSING_IO"
  BY DEF UndoStates
<1>5. 1 \in 1 .. 3 /\ 2 \in 1 .. 3 /\ 3 \in 1 .. 3
  OBVIOUS
<1>6. /\ IndexIn(UndoStates, "UNDO_SNAPSHOT_UPLOADING") = 1
      /\ IndexIn(UndoStates, "UNDO_CREATING_PIT") = 2
      /\ IndexIn(UndoStates, "UNDO_PAUSING_IO") = 3
  BY <1>2, <1>4, <1>5, Zenon
<1> QED
  BY <1>3, <1>6, StatesAre DEF IsUndo

(* The sub-state that follows one.                                         *)
LEMMA AfterIs ==
    ASSUME NEW v \in Vol, SubStateMatches(v), sop[v].pc \in SubPcs \ {"idle", "next"}
    PROVE  After(v, sop[v].pc) = IF sop[v].pc = "Sync" /\ sub[v].st = "CREATED_PIT" THEN "ResumeIO"
                                 ELSE IF sop[v].pc = "RemoveOlderPiTs" THEN "CreateSnapshotObject"
                                 ELSE IF sop[v].pc = "CreateSnapshotObject" THEN "Sync" ELSE "next"
<1> DEFINE st == sub[v].st
           pc == sop[v].pc
<1>1. ASSUME SubStates(st) = <<pc>>
      PROVE  After(v, pc) = "next"
  BY <1>1 DEF After, IndexIn
<1>2. CASE SubStates(st) = <<"Sync", "ResumeIO">>
  <2>1. IndexIn(<<"Sync", "ResumeIO">>, "Sync") = 1 /\ IndexIn(<<"Sync", "ResumeIO">>, "ResumeIO") = 2
    BY DEF IndexIn
  <2>2. st = "CREATED_PIT" /\ pc \in {"Sync", "ResumeIO"}
    BY <1>2, StatesAre DEF SubStates, SubStateMatches, SubPcs, Synced
  <2> QED
    BY <1>2, <2>1, <2>2 DEF After
<1>3. CASE SubStates(st) = <<"RemoveOlderPiTs", "CreateSnapshotObject", "Sync">>
  <2> DEFINE all == <<"RemoveOlderPiTs", "CreateSnapshotObject", "Sync">>
  <2>1. /\ IndexIn(all, "RemoveOlderPiTs") = 1 /\ IndexIn(all, "CreateSnapshotObject") = 2
        /\ IndexIn(all, "Sync") = 3
    BY DEF IndexIn
  <2>2. st = "FINALIZING_SNAPSHOT" /\ pc \in {"RemoveOlderPiTs", "CreateSnapshotObject", "Sync"}
    BY <1>3, StatesAre DEF SubStates, SubStateMatches, SubPcs, Synced
  <2> QED
    BY <1>3, <2>1, <2>2 DEF After
<1>4. CASE st \notin {"CREATED_PIT", "FINALIZING_SNAPSHOT"}
  <2>1. SubStates(st) = <<pc>> /\ pc \notin {"RemoveOlderPiTs", "CreateSnapshotObject"}
    BY <1>4, StatesAre DEF SubStates, SubStateMatches, SubPcs, Synced
  <2> QED
    BY <1>1, <1>4, <2>1
<1>5. /\ st = "CREATED_PIT" => SubStates(st) = <<"Sync", "ResumeIO">>
      /\ st = "FINALIZING_SNAPSHOT" => SubStates(st) = <<"RemoveOlderPiTs", "CreateSnapshotObject", "Sync">>
  BY DEF SubStates
<1> QED
  BY <1>2, <1>3, <1>4, <1>5

(* The first sub-state of a state.                                         *)
LEMMA FirstIs ==
    /\ \A st \in Forward \cup Backward :
          SubStates(st)[1] = CASE st = "PAUSING_IO" -> "PausingIO"
                               [] st = "CREATING_PIT" -> "CreatePiT"
                               [] st = "SNAPSHOT_UPLOADING" -> "UploadSnapshot"
                               [] st = "FINALIZING_SNAPSHOT" -> "RemoveOlderPiTs"
                               [] st = "UNDO_SNAPSHOT_UPLOADING" -> "DeleteSnapshot"
                               [] st = "UNDO_CREATING_PIT" -> "DeletePiT"
                               [] st = "UNDO_PAUSING_IO" -> "ResumeIO"
                               [] OTHER -> "Sync"
    /\ \A st : FirstUndo(st) \in Backward
<1>1. \A st : FirstUndo(st) \in Backward
  BY StatesAre, UndoIndexIs DEF FirstUndo
<1> QED
  BY <1>1, StatesAre DEF SubStates

-----------------------------------------------------------------------------
(* A step of one volume leaves what the others rely on.                    *)
LEMMA OthersStep ==
    ASSUME IInv, NEW v \in Vol,
           \A u \in Vol : u # v => /\ sub'[u] = sub[u] /\ sop'[u] = sop[u] /\ vol'[u] = vol[u]
                                   /\ coord'.peers[u] = coord.peers[u],
           cop' = cop, group' = group, written' = written,
           Reached4(v) => Reached4(v)', InMap(v)' => InMap(v),
           Local(v)', Passed4(v)' => AllReached4
    PROVE  /\ \A u \in Vol : Local(u)' /\ PausedTogether(u)'
           /\ \A u \in Vol : u # v => (Held(u)' <=> Held(u)) /\ HeldAt(u)' = HeldAt(u)
<1>1. ASSUME NEW u \in Vol, u # v
      PROVE  /\ Local(u)' /\ (Reached4(u)' <=> Reached4(u)) /\ (InMap(u)' <=> InMap(u))
             /\ (Passed4(u)' <=> Passed4(u)) /\ (Held(u)' <=> Held(u)) /\ HeldAt(u)' = HeldAt(u)
  <2>1. Local(u)
    BY DEF IInv
  <2>2. SubStateMatches(u)' /\ LaunchedOnce(u)'
    BY <1>1, <2>1 DEF Local, SubStateMatches, LaunchedOnce, InMap
  <2>3. MapIsTrue(u)' /\ IsPaused(u)'
    BY <1>1, <2>1 DEF Local, MapIsTrue, IsPaused, InMap, GoesOn, Reached4
  <2>4. PitIsTrue(u)' /\ NotWritten(u)'
    BY <1>1, <2>1 DEF Local, PitIsTrue, NotWritten
  <2>5. /\ (Reached4(u)' <=> Reached4(u)) /\ (InMap(u)' <=> InMap(u))
        /\ (Passed4(u)' <=> Passed4(u)) /\ (Held(u)' <=> Held(u)) /\ HeldAt(u)' = HeldAt(u)
    BY <1>1 DEF Reached4, InMap, Passed4, GoesOn, Held, HeldAt
  <2> QED
    BY <2>2, <2>3, <2>4, <2>5 DEF Local
<1>2. AllReached4 => AllReached4'
  BY <1>1 DEF AllReached4
<1>3. \A u \in Vol : PausedTogether(u)'
  BY <1>1, <1>2 DEF PausedTogether, IInv
<1> QED
  BY <1>1, <1>3

LEMMA LocalStep ==
    ASSUME IInv, TypeOK', NEW v \in Vol,
           \A u \in Vol : u # v => /\ sub'[u] = sub[u] /\ sop'[u] = sop[u] /\ vol'[u] = vol[u]
                                   /\ coord'.peers[u] = coord.peers[u],
           cop' = cop, group' = group, written' = written,
           Reached4(v) => Reached4(v)', InMap(v)' => InMap(v),
           Local(v)', Passed4(v)' => AllReached4,
           Held(v)' => Held(v) /\ HeldAt(v)' = HeldAt(v)
    PROVE  IInv'
<1>1. /\ \A u \in Vol : Local(u)' /\ PausedTogether(u)'
      /\ \A u \in Vol : Held(u)' => Held(u) /\ HeldAt(u)' = HeldAt(u)
  BY OthersStep
<1>2. HeldInv'
  BY <1>1 DEF HeldInv, IInv
<1> QED
  BY <1>1, <1>2 DEF IInv

-----------------------------------------------------------------------------
(* The parts that the actions of a subordinate are made of.                *)
LEMMA AdvertiseIs ==
    ASSUME TypeOK, NEW v \in Vol, Advertise(v) \/ UNCHANGED coord
    PROVE  /\ coord' \in CoordRecord
           /\ \A u \in Vol : u # v => coord'.peers[u] = coord.peers[u]
           /\ coord'.peers[v] \in {coord.peers[v], "FAILED"}
           /\ InMap(v)' <=> InMap(v)
<1>1. coord \in CoordRecord
  BY DEF TypeOK
<1>2. "FAILED" \in PeerStatuses /\ "FAILED" # NotInMap
  BY DEF PeerStatuses, NotInMap
<1> QED
  BY <1>1, <1>2 DEF CoordRecord, Advertise, InMap

LEMMA FailIs ==
    ASSUME TypeOK, NEW v \in Vol, sop' = [sop EXCEPT ![v] = [sop[v] EXCEPT !.pc = "next", !.inError = TRUE]]
    PROVE  /\ sop' \in [Vol -> SopRecord]
           /\ \A u \in Vol : u # v => sop'[u] = sop[u]
           /\ sop'[v].pc = "next" /\ sop'[v].inError
<1>1. "next" \in SubPcs
  BY DEF SubPcs
<1> QED
  BY <1>1 DEF TypeOK, SopRecord

LEMMA ContinueIs ==
    ASSUME TypeOK, NEW v \in Vol, SubStateMatches(v), sop[v].pc \in SubPcs \ {"idle", "next"}, Continue(v)
    PROVE  /\ sop' \in [Vol -> SopRecord]
           /\ \A u \in Vol : u # v => sop'[u] = sop[u]
           /\ sop'[v].pc = IF sop[v].pc = "Sync" /\ sub[v].st = "CREATED_PIT" THEN "ResumeIO"
                           ELSE IF sop[v].pc = "RemoveOlderPiTs" THEN "CreateSnapshotObject"
                           ELSE IF sop[v].pc = "CreateSnapshotObject" THEN "Sync" ELSE "next"
           /\ sub' = sub => SubStateMatches(v)'
<1> DEFINE pc == After(v, sop[v].pc)
<1>1. sop' = [sop EXCEPT ![v] = [sop[v] EXCEPT !.pc = pc]]
  BY DEF Continue, SetSop
<1>2. pc = IF sop[v].pc = "Sync" /\ sub[v].st = "CREATED_PIT" THEN "ResumeIO"
           ELSE IF sop[v].pc = "RemoveOlderPiTs" THEN "CreateSnapshotObject"
           ELSE IF sop[v].pc = "CreateSnapshotObject" THEN "Sync" ELSE "next"
  BY AfterIs
<1>3. pc \in SubPcs
  BY <1>2 DEF SubPcs
<1> HIDE DEF pc
<1>4. sop' \in [Vol -> SopRecord] /\ sop'[v].pc = pc
  BY <1>1, <1>3 DEF TypeOK, SopRecord
<1>5. \A u \in Vol : u # v => sop'[u] = sop[u]
  BY <1>1 DEF TypeOK
<1>6. ASSUME sub' = sub PROVE SubStateMatches(v)'
  BY <1>2, <1>4, <1>6, StatesAre DEF SubStateMatches, Synced
<1> QED
  BY <1>2, <1>4, <1>5, <1>6

-----------------------------------------------------------------------------
(* A handler that ends with an error.                                      *)
LEMMA FailStep ==
    ASSUME IInv, TypeOK', NEW v \in Vol, sop[v].pc # "idle", Fail(v), UNCHANGED <<cop, sub, group, written>>,
           \A u \in Vol : u # v => vol'[u] = vol[u],
           /\ vol'[v].paused = vol[v].paused /\ vol'[v].pit = vol[v].pit
           /\ vol'[v].data = vol[v].data /\ vol'[v].launched = vol[v].launched
    PROVE  IInv'
<1> USE DEF IInv
<1>1. /\ \A u \in Vol : u # v => coord'.peers[u] = coord.peers[u]
      /\ coord'.peers[v] \in {coord.peers[v], "FAILED"}
      /\ InMap(v)' <=> InMap(v)
  BY AdvertiseIs DEF Fail
<1>2. /\ \A u \in Vol : u # v => sop'[u] = sop[u]
      /\ sop'[v].pc = "next" /\ sop'[v].inError
  BY FailIs DEF Fail, SetSop
<1>3. Local(v) /\ PausedTogether(v)
  OBVIOUS
<1>4. SubStateMatches(v)' /\ LaunchedOnce(v)'
  BY <1>1, <1>2, <1>3 DEF Local, SubStateMatches, LaunchedOnce
<1>5. MapIsTrue(v)' /\ IsPaused(v)'
  BY <1>1, <1>2, <1>3 DEF Local, MapIsTrue, IsPaused, Reached4, GoesOn, From4, After4
<1>6. PitIsTrue(v)' /\ NotWritten(v)'
  BY <1>3 DEF Local, PitIsTrue, NotWritten
<1>7. Passed4(v)' => AllReached4
  BY <1>2, <1>3 DEF Passed4, GoesOn, PausedTogether
<1>8. Held(v)' => Held(v) /\ HeldAt(v)' = HeldAt(v)
  BY DEF Held, HeldAt
<1>9. Reached4(v) => Reached4(v)'
  BY DEF Reached4
<1> QED
  BY <1>1, <1>2, <1>4, <1>5, <1>6, <1>7, <1>8, <1>9, LocalStep DEF Local

(* The types of a step of a subordinate.                                   *)
LEMMA StepTypes ==
    ASSUME TypeOK, UNCHANGED <<cop, group, written, expired>>, coord' \in CoordRecord,
           sub' \in [Vol -> SubRecord], sop' \in [Vol -> SopRecord], vol' \in [Vol -> VolRecord],
           Fault \/ UNCHANGED faults
    PROVE  TypeOK'
  BY DEF TypeOK, Fault

LEMMA BreaksStep ==
    ASSUME IInv, NEW v \in Vol, NEW ss \in SubPcs \ {"idle"}, Breaks(v, ss), UNCHANGED vol
    PROVE  IInv'
<1>1. TypeOK
  BY DEF IInv
<1>2. coord' \in CoordRecord
  BY <1>1, AdvertiseIs DEF Breaks, Fail
<1>3. sop' \in [Vol -> SopRecord]
  BY <1>1, FailIs DEF Breaks, Fail, SetSop
<1>4. TypeOK'
  BY <1>1, <1>2, <1>3, StepTypes DEF Breaks, TypeOK
<1> QED
  BY <1>4, FailStep DEF Breaks, InSubState

(* A call that works: what it does to the volume is x.                     *)
LEMMA WorksStep ==
    ASSUME IInv, NEW v \in Vol, NEW ss \in SubPcs \ {"idle", "next"}, NEW x \in VolRecord,
           Works(v, ss), SetVol(v, x), x.launched = vol[v].launched,
           MapIsTrue(v)', IsPaused(v)', PitIsTrue(v)', NotWritten(v)',
           Passed4(v)' => AllReached4,
           Held(v)' => Held(v) /\ HeldAt(v)' = HeldAt(v)
    PROVE  IInv'
<1>1. TypeOK /\ Local(v) /\ SubStateMatches(v)
  BY DEF IInv, Local
<1>2. sop[v].pc = ss /\ Continue(v) /\ UNCHANGED <<coord, cop, sub, group, written, expired, faults>>
  BY DEF Works, InSubState, NoFault
<1>3. /\ sop' \in [Vol -> SopRecord] /\ SubStateMatches(v)'
      /\ \A u \in Vol : u # v => sop'[u] = sop[u]
  BY <1>1, <1>2, ContinueIs
<1>4. /\ vol' \in [Vol -> VolRecord] /\ vol'[v] = x
      /\ \A u \in Vol : u # v => vol'[u] = vol[u]
  BY <1>1 DEF SetVol, TypeOK
<1>5. TypeOK'
  BY <1>1, <1>2, <1>3, <1>4, StepTypes DEF TypeOK
<1>6. LaunchedOnce(v)'
  BY <1>1, <1>2, <1>4 DEF Local, LaunchedOnce, InMap
<1>7. Reached4(v) => Reached4(v)'
  BY <1>2 DEF Reached4
<1>8. InMap(v)' => InMap(v)
  BY <1>2 DEF InMap
<1> QED
  BY <1>2, <1>3, <1>4, <1>5, <1>6, <1>7, <1>8, LocalStep DEF Local

(* What a call that works leaves in memory.                                *)
LEMMA WorksIs ==
    ASSUME IInv, NEW v \in Vol, NEW ss \in SubPcs \ {"idle", "next"}, NEW x \in VolRecord,
           Works(v, ss), SetVol(v, x)
    PROVE  /\ sop[v].pc = ss /\ vol'[v] = x /\ UNCHANGED <<coord, sub, written>>
           /\ sop'[v].pc = IF ss = "Sync" /\ sub[v].st = "CREATED_PIT" THEN "ResumeIO"
                           ELSE IF ss = "RemoveOlderPiTs" THEN "CreateSnapshotObject"
                           ELSE IF ss = "CreateSnapshotObject" THEN "Sync" ELSE "next"
           /\ Local(v) /\ SubStateMatches(v) /\ TypeOK
           /\ vol[v] \in VolRecord /\ sub[v] \in SubRecord /\ written \in Nat
<1>1. TypeOK /\ Local(v) /\ SubStateMatches(v)
  BY DEF IInv, Local
<1>2. sop[v].pc = ss /\ Continue(v) /\ UNCHANGED <<coord, sub, written>>
  BY DEF Works, InSubState
<1>3. vol[v] \in VolRecord /\ sub[v] \in SubRecord /\ written \in Nat
  BY <1>1, WritesAssumption DEF TypeOK
<1>4. vol'[v] = x
  BY <1>1 DEF SetVol, TypeOK
<1> QED
  BY <1>1, <1>2, <1>3, <1>4, ContinueIs

LEMMA UploadSnapshotStep ==
    ASSUME IInv, NEW v \in Vol, UploadSnapshot(v)
    PROVE  IInv'
<1>1. "UploadSnapshot" \in SubPcs \ {"idle", "next"}
  BY DEF SubPcs
<1>2. CASE Works(v, "UploadSnapshot") /\ SetVol(v, [vol[v] EXCEPT !.data = vol[v].pit])
  <2> DEFINE x == [vol[v] EXCEPT !.data = vol[v].pit]
  <2>1. vol[v] \in VolRecord
    BY DEF IInv, TypeOK
  <2>2. x \in VolRecord /\ x.launched = vol[v].launched /\ x.paused = vol[v].paused
        /\ x.pit = vol[v].pit /\ x.data = vol[v].pit
    BY <2>1 DEF VolRecord
  <2> HIDE DEF x
  <2>3. SetVol(v, x)
    BY <1>2 DEF x
  <2>4. /\ sop[v].pc = "UploadSnapshot" /\ vol'[v] = x /\ UNCHANGED <<coord, sub, written>>
        /\ sop'[v].pc = "next"
        /\ Local(v) /\ SubStateMatches(v) /\ TypeOK
        /\ vol[v] \in VolRecord /\ sub[v] \in SubRecord /\ written \in Nat
    BY <1>1, <1>2, <2>2, <2>3, WorksIs
  <2>5. sub[v].st = "SNAPSHOT_UPLOADING" /\ sub[v].st \in Forward
    BY <2>4, StatesAre DEF SubStateMatches
  <2>6. MapIsTrue(v)' /\ IsPaused(v)'
    BY <2>4, <2>5 DEF Local, MapIsTrue, IsPaused, Reached4, InMap, From4, After4, Before4
  <2>7. PitIsTrue(v)' /\ NotWritten(v)'
    BY <2>2, <2>4, <2>5 DEF Local, PitIsTrue, NotWritten
  <2>8. AllReached4
    BY <2>5 DEF IInv, PausedTogether, Passed4, After4
  <2>9. Held(v)' => Held(v) /\ HeldAt(v)' = HeldAt(v)
    BY <2>2, <2>4, <2>5 DEF Local, Held, HeldAt, PitIsTrue
  <2> QED
    BY <1>1, <1>2, <2>2, <2>3, <2>6, <2>7, <2>8, <2>9, WorksStep
<1>3. CASE Breaks(v, "UploadSnapshot") /\ UNCHANGED vol
  BY <1>1, <1>3, BreaksStep
<1> QED
  BY <1>2, <1>3 DEF UploadSnapshot

LEMMA RemoveOlderPiTsStep ==
    ASSUME IInv, NEW v \in Vol, RemoveOlderPiTs(v)
    PROVE  IInv'
<1> DEFINE x == [vol[v] EXCEPT !.pit = IF vol[v].snap THEN NoPiT ELSE @]
<1>1. "RemoveOlderPiTs" \in SubPcs \ {"idle", "next"}
  BY DEF SubPcs
<1>2. vol[v] \in VolRecord
  BY DEF IInv, TypeOK
<1>3. x \in VolRecord /\ x.launched = vol[v].launched /\ x.paused = vol[v].paused
      /\ x.pit \in {NoPiT, vol[v].pit} /\ x.data = vol[v].data
  BY <1>2 DEF VolRecord, Times
<1> HIDE DEF x
<1>4. SetVol(v, x) /\ Works(v, "RemoveOlderPiTs")
  BY DEF x, RemoveOlderPiTs
<1>5. /\ sop[v].pc = "RemoveOlderPiTs" /\ vol'[v] = x /\ UNCHANGED <<coord, sub, written>>
      /\ sop'[v].pc = "CreateSnapshotObject"
      /\ Local(v) /\ SubStateMatches(v) /\ TypeOK
      /\ vol[v] \in VolRecord /\ sub[v] \in SubRecord /\ written \in Nat
  BY <1>1, <1>3, <1>4, WorksIs
<1>6. sub[v].st = "FINALIZING_SNAPSHOT"
  BY <1>5 DEF SubStateMatches
<1>7. MapIsTrue(v)' /\ IsPaused(v)'
  BY <1>3, <1>5, <1>6 DEF Local, MapIsTrue, IsPaused, Reached4, InMap, GoesOn
<1>8. PitIsTrue(v)' /\ NotWritten(v)'
  BY <1>3, <1>5, <1>6 DEF Local, PitIsTrue, NotWritten, NoPiT
<1>9. AllReached4
  BY <1>6 DEF IInv, PausedTogether, Passed4, After4
<1>10. Held(v)' => Held(v) /\ HeldAt(v)' = HeldAt(v)
  BY <1>3, <1>5, <1>6 DEF Local, Held, HeldAt, PitIsTrue
<1> QED
  BY <1>1, <1>3, <1>4, <1>7, <1>8, <1>9, <1>10, WorksStep

LEMMA PausingIOStep ==
    ASSUME IInv, NEW v \in Vol, PausingIO(v)
    PROVE  IInv'
<1>1. "PausingIO" \in SubPcs \ {"idle", "next"}
  BY DEF SubPcs
<1>2. CASE Works(v, "PausingIO") /\ SetVol(v, [vol[v] EXCEPT !.paused = TRUE])
  <2> DEFINE x == [vol[v] EXCEPT !.paused = TRUE]
  <2>1. vol[v] \in VolRecord
    BY DEF IInv, TypeOK
  <2>2. x \in VolRecord /\ x.launched = vol[v].launched /\ x.paused
        /\ x.pit = vol[v].pit /\ x.data = vol[v].data
    BY <2>1 DEF VolRecord
  <2> HIDE DEF x
  <2>3. SetVol(v, x)
    BY <1>2 DEF x
  <2>4. /\ sop[v].pc = "PausingIO" /\ vol'[v] = x /\ UNCHANGED <<coord, sub, written>>
        /\ Local(v) /\ SubStateMatches(v) /\ TypeOK
        /\ vol[v] \in VolRecord /\ sub[v] \in SubRecord /\ written \in Nat
    BY <1>1, <1>2, <2>2, <2>3, WorksIs
  <2>5. sub[v].st = "PAUSING_IO" /\ sub[v].st \in Forward
    BY <2>4, StatesAre DEF SubStateMatches
  <2>6. MapIsTrue(v)' /\ IsPaused(v)'
    BY <2>2, <2>4, <2>5 DEF Local, MapIsTrue, IsPaused, Reached4, InMap, From4, After4, Before4
  <2>7. PitIsTrue(v)' /\ NotWritten(v)'
    BY <2>2, <2>4, <2>5 DEF Local, PitIsTrue, NotWritten
  <2>8. Passed4(v)' => AllReached4
    BY <2>2, <2>4, <2>5 DEF IInv, PausedTogether, Passed4, After4
  <2>9. Held(v)' => Held(v) /\ HeldAt(v)' = HeldAt(v)
    BY <2>2, <2>4, <2>5 DEF Held, HeldAt
  <2> QED
    BY <1>1, <1>2, <2>2, <2>3, <2>6, <2>7, <2>8, <2>9, WorksStep
<1>3. CASE Breaks(v, "PausingIO") /\ UNCHANGED vol
  BY <1>1, <1>3, BreaksStep
<1>4. CASE /\ InSubState(v, "PausingIO") /\ InCgRace(v)
           /\ SetSop(v, [sop[v] EXCEPT !.pc = "next", !.inError = TRUE])
           /\ coord' = [coord EXCEPT !.peers[v] = NotInMap]
           /\ UNCHANGED <<cop, sub, vol, group, written, expired, faults>>
  <2>1. TypeOK /\ Local(v) /\ sub[v].st = "PAUSING_IO" /\ v \notin group /\ vol[v] \in VolRecord
    BY <1>4 DEF IInv, InCgRace, TypeOK
  <2>2. /\ coord' \in CoordRecord
        /\ \A u \in Vol : u # v => coord'.peers[u] = coord.peers[u]
        /\ coord'.peers[v] = NotInMap
    BY <1>4, <2>1 DEF TypeOK, CoordRecord, PeerStatuses
  <2>3. /\ sop' \in [Vol -> SopRecord]
        /\ \A u \in Vol : u # v => sop'[u] = sop[u]
        /\ sop'[v].pc = "next" /\ sop'[v].inError
    BY <1>4, <2>1, FailIs DEF SetSop
  <2>4. TypeOK'
    BY <1>4, <2>1, <2>2, <2>3, StepTypes DEF TypeOK
  <2>5. SubStateMatches(v)' /\ LaunchedOnce(v)'
    <3>1. cop.pc = "launch" /\ cop.seen[v] = "" => sub[v].st = "none"
      BY <2>1 DEF Local, LaunchedOnce
    <3> QED
      BY <1>4, <2>1, <2>2, <2>3, <3>1, StatesAre DEF Local, SubStateMatches, LaunchedOnce, InMap
  <2>6. vol[v].data = NoPiT
    <3>1. ~Reached4(v) /\ (vol[v].data # NoPiT => InMap(v))
      BY <2>1 DEF Local, MapIsTrue, Reached4, Before4
    <3>2. vol[v].data # NoPiT => AllReached4
      BY <2>1 DEF IInv, PausedTogether, Passed4
    <3> QED
      BY <3>1, <3>2 DEF AllReached4
  <2>7. MapIsTrue(v)' /\ IsPaused(v)'
    BY <1>4, <2>1, <2>2, <2>3, <2>6 DEF MapIsTrue, IsPaused, Reached4, InMap, GoesOn, NotInMap, From4, After4
  <2>8. PitIsTrue(v)' /\ NotWritten(v)'
    BY <1>4, <2>1 DEF Local, PitIsTrue, NotWritten
  <2>9. ~Passed4(v)'
    BY <1>4, <2>1, <2>6 DEF Passed4, After4
  <2>10. /\ Held(v)' => Held(v) /\ HeldAt(v)' = HeldAt(v)
         /\ Reached4(v) => Reached4(v)'
    BY <1>4 DEF Held, HeldAt, Reached4
  <2>11. ~InMap(v)'
    BY <2>2 DEF InMap
  <2> QED
    BY <1>4, <2>2, <2>3, <2>4, <2>5, <2>7, <2>8, <2>9, <2>10, <2>11, LocalStep DEF Local
<1> QED
  BY <1>2, <1>3, <1>4 DEF PausingIO

LEMMA ResumeIOStep ==
    ASSUME IInv, NEW v \in Vol, ResumeIO(v)
    PROVE  IInv'
<1>1. "ResumeIO" \in SubPcs \ {"idle", "next"}
  BY DEF SubPcs
<1>2. CASE Works(v, "ResumeIO") /\ SetVol(v, [vol[v] EXCEPT !.paused = FALSE])
  <2> DEFINE x == [vol[v] EXCEPT !.paused = FALSE]
  <2>1. vol[v] \in VolRecord
    BY DEF IInv, TypeOK
  <2>2. x \in VolRecord /\ x.launched = vol[v].launched /\ ~x.paused
        /\ x.pit = vol[v].pit /\ x.data = vol[v].data
    BY <2>1 DEF VolRecord
  <2> HIDE DEF x
  <2>3. SetVol(v, x)
    BY <1>2 DEF x
  <2>4. /\ sop[v].pc = "ResumeIO" /\ vol'[v] = x /\ UNCHANGED <<coord, sub, written>>
        /\ sop'[v].pc = "next"
        /\ Local(v) /\ SubStateMatches(v) /\ TypeOK
        /\ vol[v] \in VolRecord /\ sub[v] \in SubRecord /\ written \in Nat
    BY <1>1, <1>2, <2>2, <2>3, WorksIs
  <2>5. sub[v].st \in {"CREATED_PIT", "UNDO_PAUSING_IO"}
    BY <2>4 DEF SubStateMatches
  <2>6. MapIsTrue(v)' /\ IsPaused(v)'
    BY <2>2, <2>4, <2>5 DEF Local, MapIsTrue, IsPaused, Reached4, InMap, From4, After4, Before4
  <2>7. PitIsTrue(v)' /\ NotWritten(v)'
    BY <2>2, <2>4, <2>5 DEF Local, PitIsTrue, NotWritten
  <2>8. Passed4(v)' => AllReached4
    BY <2>2, <2>4, <2>5 DEF IInv, PausedTogether, Passed4, After4
  <2>9. Held(v)' => Held(v) /\ HeldAt(v)' = HeldAt(v)
    BY <2>2, <2>4, <2>5 DEF Held, HeldAt
  <2> QED
    BY <1>1, <1>2, <2>2, <2>3, <2>6, <2>7, <2>8, <2>9, WorksStep
<1>3. CASE /\ InSubState(v, "ResumeIO") /\ Fault
           /\ SetVol(v, [vol[v] EXCEPT !.stuck = IsUndo(sub[v].st)])
           /\ Fail(v) /\ UNCHANGED <<cop, sub, group, written, expired>>
  <2>1. TypeOK /\ vol[v] \in VolRecord /\ sop[v].pc # "idle"
    BY <1>3 DEF IInv, TypeOK, InSubState
  <2>2. IsUndo(sub[v].st) \in BOOLEAN
    BY DEF IsUndo
  <2>3. /\ vol' \in [Vol -> VolRecord]
        /\ \A u \in Vol : u # v => vol'[u] = vol[u]
        /\ vol'[v].paused = vol[v].paused /\ vol'[v].pit = vol[v].pit
        /\ vol'[v].data = vol[v].data /\ vol'[v].launched = vol[v].launched
    BY <1>3, <2>1, <2>2 DEF SetVol, TypeOK, VolRecord
  <2>4. coord' \in CoordRecord
    BY <1>3, <2>1, AdvertiseIs DEF Fail
  <2>5. sop' \in [Vol -> SopRecord]
    BY <1>3, <2>1, FailIs DEF Fail, SetSop
  <2>6. TypeOK'
    BY <1>3, <2>1, <2>3, <2>4, <2>5, StepTypes DEF TypeOK
  <2> QED
    BY <1>3, <2>1, <2>3, <2>6, FailStep
<1> QED
  BY <1>2, <1>3 DEF ResumeIO

LEMMA CreateSnapshotObjectStep ==
    ASSUME IInv, NEW v \in Vol, CreateSnapshotObject(v)
    PROVE  IInv'
<1>1. "CreateSnapshotObject" \in SubPcs \ {"idle", "next"}
  BY DEF SubPcs
<1>2. CASE Works(v, "CreateSnapshotObject") /\ SetVol(v, [vol[v] EXCEPT !.snap = TRUE])
  <2> DEFINE x == [vol[v] EXCEPT !.snap = TRUE]
  <2>1. vol[v] \in VolRecord
    BY DEF IInv, TypeOK
  <2>2. x \in VolRecord /\ x.launched = vol[v].launched /\ x.paused = vol[v].paused
        /\ x.pit = vol[v].pit /\ x.data = vol[v].data
    BY <2>1 DEF VolRecord
  <2> HIDE DEF x
  <2>3. SetVol(v, x)
    BY <1>2 DEF x
  <2>4. /\ sop[v].pc = "CreateSnapshotObject" /\ vol'[v] = x /\ UNCHANGED <<coord, sub, written>>
        /\ sop'[v].pc = "Sync"
        /\ Local(v) /\ SubStateMatches(v) /\ TypeOK
        /\ vol[v] \in VolRecord /\ sub[v] \in SubRecord /\ written \in Nat
    BY <1>1, <1>2, <2>2, <2>3, WorksIs
  <2>5. sub[v].st = "FINALIZING_SNAPSHOT"
    BY <2>4 DEF SubStateMatches
  <2>6. MapIsTrue(v)' /\ IsPaused(v)'
    BY <2>2, <2>4, <2>5 DEF Local, MapIsTrue, IsPaused, Reached4, InMap, GoesOn
  <2>7. PitIsTrue(v)' /\ NotWritten(v)'
    BY <2>2, <2>4, <2>5 DEF Local, PitIsTrue, NotWritten
  <2>8. AllReached4
    BY <2>5 DEF IInv, PausedTogether, Passed4, After4
  <2>9. Held(v)' => Held(v) /\ HeldAt(v)' = HeldAt(v)
    BY <2>2, <2>4, <2>5 DEF Held, HeldAt
  <2> QED
    BY <1>1, <1>2, <2>2, <2>3, <2>6, <2>7, <2>8, <2>9, WorksStep
<1>3. CASE /\ InSubState(v, "CreateSnapshotObject") /\ Fault
           /\ SetSop(v, Idle) /\ Advertise(v)
           /\ UNCHANGED <<cop, sub, vol, group, written, expired>>
  <2>1. TypeOK /\ Local(v) /\ sub[v].st = "FINALIZING_SNAPSHOT"
    BY <1>3 DEF IInv, Local, SubStateMatches, InSubState
  <2>2. /\ coord' \in CoordRecord
        /\ \A u \in Vol : u # v => coord'.peers[u] = coord.peers[u]
        /\ coord'.peers[v] \in {coord.peers[v], "FAILED"}
        /\ InMap(v)' <=> InMap(v)
    BY <1>3, <2>1, AdvertiseIs
  <2>3. /\ sop' \in [Vol -> SopRecord]
        /\ \A u \in Vol : u # v => sop'[u] = sop[u]
        /\ sop'[v].pc = "idle"
    BY <1>3, <2>1 DEF TypeOK, SetSop, Idle, SopRecord, SubPcs
  <2>4. TypeOK'
    BY <1>3, <2>1, <2>2, <2>3, StepTypes DEF TypeOK
  <2>5. SubStateMatches(v)' /\ LaunchedOnce(v)'
    BY <1>3, <2>1, <2>2, <2>3 DEF Local, SubStateMatches, LaunchedOnce
  <2>6. MapIsTrue(v)' /\ IsPaused(v)'
    BY <1>3, <2>1, <2>2, <2>3 DEF Local, MapIsTrue, IsPaused, Reached4, GoesOn, From4, After4
  <2>7. PitIsTrue(v)' /\ NotWritten(v)'
    BY <1>3, <2>1 DEF Local, PitIsTrue, NotWritten
  <2>8. AllReached4
    BY <2>1 DEF IInv, PausedTogether, Passed4, After4
  <2>9. /\ Held(v)' => Held(v) /\ HeldAt(v)' = HeldAt(v)
        /\ Reached4(v) => Reached4(v)'
    BY <1>3 DEF Held, HeldAt, Reached4
  <2> QED
    BY <1>3, <2>2, <2>3, <2>4, <2>5, <2>6, <2>7, <2>8, <2>9, LocalStep DEF Local
<1> QED
  BY <1>2, <1>3 DEF CreateSnapshotObject

(* The calls that undo: they work, and an earlier error is advertised.     *)
LEMMA UndoStep ==
    ASSUME IInv, NEW v \in Vol, sop[v].pc \in {"DeleteSnapshot", "DeletePiT"}, NEW x \in VolRecord,
           Continue(v), SetVol(v, x), Advertise(v) \/ UNCHANGED coord,
           UNCHANGED <<cop, sub, group, written, expired, faults>>,
           x.launched = vol[v].launched, x.paused = vol[v].paused,
           x.pit \in {NoPiT, vol[v].pit}, x.data \in {NoPiT, vol[v].data}
    PROVE  IInv'
<1>1. TypeOK /\ Local(v) /\ SubStateMatches(v) /\ vol[v] \in VolRecord /\ written \in Nat
  BY WritesAssumption DEF IInv, Local, TypeOK
<1>2. sop[v].pc \in SubPcs \ {"idle", "next"}
  BY DEF SubPcs
<1>3. /\ sop' \in [Vol -> SopRecord] /\ SubStateMatches(v)'
      /\ \A u \in Vol : u # v => sop'[u] = sop[u]
  BY <1>1, <1>2, ContinueIs
<1>4. /\ vol' \in [Vol -> VolRecord] /\ vol'[v] = x
      /\ \A u \in Vol : u # v => vol'[u] = vol[u]
  BY <1>1 DEF SetVol, TypeOK
<1>5. /\ coord' \in CoordRecord
      /\ \A u \in Vol : u # v => coord'.peers[u] = coord.peers[u]
      /\ coord'.peers[v] \in {coord.peers[v], "FAILED"}
      /\ InMap(v)' <=> InMap(v)
  BY <1>1, AdvertiseIs
<1>6. TypeOK'
  BY <1>1, <1>3, <1>4, <1>5, StepTypes DEF TypeOK
<1>7. sub[v].st \in {"UNDO_SNAPSHOT_UPLOADING", "UNDO_CREATING_PIT"} /\ sub[v].st \notin Forward
  BY <1>1, StatesAre DEF SubStateMatches
<1>8. LaunchedOnce(v)'
  BY <1>1, <1>4, <1>5 DEF Local, LaunchedOnce
<1>9. MapIsTrue(v)' /\ IsPaused(v)'
  BY <1>1, <1>4, <1>5, <1>7 DEF Local, MapIsTrue, IsPaused, Reached4, From4, After4, Before4
<1>10. PitIsTrue(v)' /\ NotWritten(v)'
  BY <1>1, <1>4, <1>7 DEF Local, PitIsTrue, NotWritten, NoPiT
<1>11. Passed4(v)' => AllReached4
  BY <1>1, <1>4, <1>7 DEF IInv, PausedTogether, Passed4, After4
<1>12. /\ Held(v)' => Held(v) /\ HeldAt(v)' = HeldAt(v)
       /\ Reached4(v) => Reached4(v)'
  BY <1>4, <1>7 DEF Held, HeldAt, Reached4
<1> QED
  BY <1>3, <1>4, <1>5, <1>6, <1>8, <1>9, <1>10, <1>11, <1>12, LocalStep DEF Local

LEMMA DeleteSnapshotStep ==
    ASSUME IInv, NEW v \in Vol, DeleteSnapshot(v)
    PROVE  IInv'
<1> DEFINE x == [vol[v] EXCEPT !.data = NoPiT]
<1>1. vol[v] \in VolRecord
  BY DEF IInv, TypeOK
<1>2. /\ x \in VolRecord /\ x.launched = vol[v].launched /\ x.paused = vol[v].paused
      /\ x.pit = vol[v].pit /\ x.data = NoPiT
  BY <1>1 DEF VolRecord, Times
<1>3. SetVol(v, x) /\ Continue(v) /\ (Advertise(v) \/ UNCHANGED coord)
  BY DEF DeleteSnapshot
<1>4. sop[v].pc = "DeleteSnapshot" /\ UNCHANGED <<cop, sub, group, written, expired, faults>>
  BY DEF DeleteSnapshot, InSubState
<1> HIDE DEF x
<1> QED
  BY <1>2, <1>3, <1>4, UndoStep

LEMMA DeletePiTStep ==
    ASSUME IInv, NEW v \in Vol, DeletePiT(v)
    PROVE  IInv'
<1> DEFINE x == [vol[v] EXCEPT !.pit = NoPiT]
<1>1. vol[v] \in VolRecord /\ "DeletePiT" \in SubPcs \ {"idle"}
  BY DEF IInv, TypeOK, SubPcs
<1>2. /\ x \in VolRecord /\ x.launched = vol[v].launched /\ x.paused = vol[v].paused
      /\ x.pit = NoPiT /\ x.data = vol[v].data
  BY <1>1 DEF VolRecord, Times
<1>3. CASE Breaks(v, "DeletePiT") /\ UNCHANGED vol
  BY <1>1, <1>3, BreaksStep
<1>4. CASE ~(Breaks(v, "DeletePiT") /\ UNCHANGED vol)
  <2>1. SetVol(v, x) /\ Continue(v) /\ (Advertise(v) \/ UNCHANGED coord)
    BY <1>4 DEF DeletePiT
  <2>2. sop[v].pc = "DeletePiT" /\ UNCHANGED <<cop, sub, group, written, expired, faults>>
    BY <1>4 DEF DeletePiT, InSubState
  <2> HIDE DEF x
  <2> QED
    BY <1>2, <2>1, <2>2, UndoStep
<1> QED
  BY <1>3, <1>4

(* Nothing was written to a paused volume since its point in time, and all *)
(* that have one are paused: not all have come to CREATED_PIT.             *)
LEMMA CreatePiTStep ==
    ASSUME IInv, NEW v \in Vol, CreatePiT(v)
    PROVE  IInv'
<1>1. "CreatePiT" \in SubPcs \ {"idle", "next"}
  BY DEF SubPcs
<1>2. CASE Breaks(v, "CreatePiT") /\ UNCHANGED vol
  BY <1>1, <1>2, BreaksStep
<1>3. CASE ~(Breaks(v, "CreatePiT") /\ UNCHANGED vol)
  <2> DEFINE x == [vol[v] EXCEPT !.pit = IF @ = NoPiT THEN written ELSE @]
  <2>1. Works(v, "CreatePiT") /\ SetVol(v, x)
    BY <1>3 DEF CreatePiT
  <2>2. vol[v] \in VolRecord /\ written \in Nat /\ written \in Times
    BY WritesAssumption DEF IInv, TypeOK, Times
  <2>3. x \in VolRecord /\ x.launched = vol[v].launched /\ x.paused = vol[v].paused
        /\ x.pit = (IF vol[v].pit = NoPiT THEN written ELSE vol[v].pit) /\ x.data = vol[v].data
    BY <2>2 DEF VolRecord
  <2> HIDE DEF x
  <2>4. /\ sop[v].pc = "CreatePiT" /\ vol'[v] = x /\ UNCHANGED <<coord, sub, written>>
        /\ sop'[v].pc = "next"
        /\ Local(v) /\ SubStateMatches(v) /\ TypeOK
    BY <1>1, <2>1, <2>3, WorksIs
  <2>5. sub[v].st = "CREATING_PIT" /\ sub[v].st \in Forward
    BY <2>4, StatesAre DEF SubStateMatches
  <2>6. ~AllReached4
    BY <2>4, <2>5 DEF AllReached4, Local, MapIsTrue, Reached4, Before4
  <2>7. vol[v].data = NoPiT
    BY <2>6 DEF IInv, PausedTogether, Passed4
  <2>8. MapIsTrue(v)' /\ IsPaused(v)'
    BY <2>3, <2>4, <2>5, <2>7 DEF Local, MapIsTrue, IsPaused, Reached4, InMap, GoesOn, From4, After4
  <2>9. PitIsTrue(v)' /\ NotWritten(v)'
    BY <2>2, <2>3, <2>4, <2>5, <2>7 DEF Local, PitIsTrue, NotWritten, NoPiT, VolRecord, Times
  <2>10. ~Passed4(v)'
    BY <2>3, <2>4, <2>5, <2>7 DEF Passed4, After4
  <2>11. CASE vol[v].pit # NoPiT
    <3>1. Held(v)' => Held(v) /\ HeldAt(v)' = HeldAt(v)
      BY <2>3, <2>4, <2>11 DEF Held, HeldAt
    <3> QED
      BY <1>1, <2>1, <2>3, <2>8, <2>9, <2>10, <3>1, WorksStep
  <2>12. CASE vol[v].pit = NoPiT
    <3>1. Continue(v) /\ UNCHANGED <<cop, group, expired, faults>>
      BY <2>1 DEF Works, NoFault
    <3>2. /\ sop' \in [Vol -> SopRecord] /\ SubStateMatches(v)'
          /\ \A u \in Vol : u # v => sop'[u] = sop[u]
      BY <1>1, <2>4, <3>1, ContinueIs
    <3>3. /\ vol' \in [Vol -> VolRecord]
          /\ \A u \in Vol : u # v => vol'[u] = vol[u]
      BY <2>1, <2>3, <2>4 DEF SetVol, TypeOK
    <3>4. TypeOK'
      BY <2>4, <3>1, <3>2, <3>3, StepTypes DEF TypeOK
    <3>5. LaunchedOnce(v)'
      BY <2>3, <2>4, <3>1 DEF Local, LaunchedOnce, InMap
    <3>6. (Reached4(v) => Reached4(v)') /\ (InMap(v)' => InMap(v))
      BY <2>4 DEF Reached4, InMap
    <3>7. /\ \A u \in Vol : Local(u)' /\ PausedTogether(u)'
          /\ \A u \in Vol : u # v => (Held(u)' <=> Held(u)) /\ HeldAt(u)' = HeldAt(u)
      BY <2>4, <2>8, <2>9, <2>10, <3>1, <3>2, <3>3, <3>5, <3>6, OthersStep DEF Local
    <3>8. ASSUME NEW u \in Vol, Held(u)
          PROVE  \A i \in 1 .. written : i > HeldAt(u) => Writes[i] # u
      <4>1. Local(u) /\ ~Passed4(u)
        BY <2>6 DEF IInv, PausedTogether
      <4>2. vol[u].data = NoPiT /\ vol[u].pit # NoPiT /\ sub[u].st \in {"CREATING_PIT", "CREATED_PIT"}
        BY <3>8, <4>1, StatesAre DEF Held, Passed4, Local, PitIsTrue, After4
      <4>3. vol[u].paused
        BY <4>1, <4>2 DEF Passed4, Local, IsPaused
      <4> QED
        BY <4>1, <4>2, <4>3 DEF Local, NotWritten, HeldAt
    <3>9. HeldAt(v)' = written
      BY <2>3, <2>4, <2>7, <2>12 DEF HeldAt
    <3>10. ASSUME NEW u \in Vol, NEW w \in Vol, Held(u)', Held(w)',
                  NEW i \in 1 .. written, i > HeldAt(u)', i <= HeldAt(w)'
           PROVE  Writes[i] # u
      <4>1. CASE u = v
        BY <2>2, <3>9, <3>10, <4>1
      <4>2. CASE u # v
        BY <3>7, <3>8, <3>10, <4>2
      <4> QED
        BY <4>1, <4>2
    <3>11. HeldInv'
      BY <2>4, <3>10 DEF HeldInv
    <3> QED
      BY <3>4, <3>7, <3>11 DEF IInv
  <2> QED
    BY <2>11, <2>12
<1> QED
  BY <1>2, <1>3

(* The synchronization: the last one at CREATED_PIT finds that all others  *)
(* have come there.                                                        *)
LEMMA SyncStep ==
    ASSUME IInv, NEW v \in Vol, Sync(v)
    PROVE  IInv'
<1> DEFINE Reached(w) == coord.peers[w] # "FAILED" /\ Order(coord.peers[w]) >= Order(sub[v].st)
           all == \A w \in Peers \ {v} : Reached(w)
           here == [coord EXCEPT !.peers[v] = sub[v].st]
<1>1. /\ TypeOK /\ Local(v) /\ SubStateMatches(v) /\ coord \in CoordRecord /\ sop[v].pc = "Sync"
      /\ UNCHANGED <<cop, sub, vol, group, written, expired, faults>>
  BY DEF IInv, Local, TypeOK, Sync, InSubState
<1>2. sub[v].st \in Synced /\ sub[v].st \in PeerStatuses /\ sub[v].st # NotInMap
  BY <1>1, StatesAre DEF SubStateMatches, Synced, PeerStatuses, NotInMap
<1>3. /\ here \in CoordRecord /\ here.peers[v] = sub[v].st
      /\ \A u \in Vol : u # v => here.peers[u] = coord.peers[u]
  BY <1>1, <1>2 DEF CoordRecord
<1>4. \/ Fail(v)
      \/ /\ InMap(v) /\ (coord' = coord \/ (coord'.peers = here.peers /\ coord' \in CoordRecord))
         /\ UNCHANGED sop \/ (Continue(v) /\ all)
  <2> DEFINE hopeless == \/ coord.canceled \/ sub[v].canceled \/ ~InMap(v)
                         \/ expired /\ ~adjustCB(sub[v].st)
                         \/ sub[v].st = "FINALIZING_SNAPSHOT" /\ coord.st \in Terminal
                         \/ \E w \in Peers : coord.peers[w] = "FAILED"
  <2>1. [here EXCEPT !.st = "CG_SNAPSHOT_FINALIZE"].peers = here.peers
        /\ [here EXCEPT !.st = "CG_SNAPSHOT_FINALIZE"] \in CoordRecord
    BY <1>3 DEF CoordRecord
  <2>2. \/ ~hopeless /\ ~Reached(v) /\ ~all /\ coord' = here /\ UNCHANGED sop
        \/ ~hopeless /\ ~Reached(v) /\ all /\ Continue(v)
           /\ coord' = IF sub[v].st = "FINALIZING_SNAPSHOT"
                       THEN [here EXCEPT !.st = "CG_SNAPSHOT_FINALIZE"] ELSE here
        \/ ~hopeless /\ Reached(v) /\ all /\ Continue(v) /\ UNCHANGED coord
        \/ (hopeless \/ expired) /\ Fail(v)
    BY DEF Sync
  <2>3. ~hopeless => InMap(v)
    OBVIOUS
  <2> HIDE DEF here, all, Reached, hopeless
  <2> QED
    BY <1>3, <2>1, <2>2, <2>3
<1>5. CASE Fail(v)
  <2>1. coord' \in CoordRecord
    BY <1>1, <1>5, AdvertiseIs DEF Fail
  <2>2. sop' \in [Vol -> SopRecord]
    BY <1>1, <1>5, FailIs DEF Fail, SetSop
  <2>3. TypeOK'
    BY <1>1, <2>1, <2>2, StepTypes DEF TypeOK
  <2> QED
    BY <1>1, <1>5, <2>3, FailStep
<1>6. CASE /\ InMap(v) /\ (coord' = coord \/ (coord'.peers = here.peers /\ coord' \in CoordRecord))
           /\ UNCHANGED sop \/ (Continue(v) /\ all)
  <2>1. /\ coord' \in CoordRecord /\ InMap(v)' /\ coord'.peers[v] \in {coord.peers[v], sub[v].st}
        /\ \A u \in Vol : u # v => coord'.peers[u] = coord.peers[u]
    BY <1>1, <1>2, <1>3, <1>6 DEF InMap
  <2>2. /\ sop' \in [Vol -> SopRecord] /\ SubStateMatches(v)'
        /\ \A u \in Vol : u # v => sop'[u] = sop[u]
    <3>1. CASE UNCHANGED sop
      BY <1>1, <3>1 DEF TypeOK, SubStateMatches
    <3>2. CASE Continue(v)
      <4>1. sop[v].pc \in SubPcs \ {"idle", "next"}
        BY <1>1 DEF SubPcs
      <4> QED
        BY <1>1, <3>2, <4>1, ContinueIs
    <3> QED
      BY <1>6, <3>1, <3>2
  <2>3. TypeOK'
    BY <1>1, <2>1, <2>2, StepTypes DEF TypeOK
  <2>4. LaunchedOnce(v)'
    BY <1>1, <1>2, <1>6, <2>1 DEF Local, LaunchedOnce, Synced
  <2>5. MapIsTrue(v)' /\ IsPaused(v)'
    BY <1>1, <1>2, <2>1 DEF Local, MapIsTrue, IsPaused, Reached4, From4, After4, Before4, Synced
  <2>6. PitIsTrue(v)' /\ NotWritten(v)'
    BY <1>1 DEF Local, PitIsTrue, NotWritten
  <2>7. Passed4(v)' => AllReached4
    <3>1. CASE sub[v].st = "CREATED_PIT" /\ all
      <4>1. ASSUME NEW w \in Vol, InMap(w), w # v PROVE Reached4(w)
        <5>1. Order(coord.peers[w]) >= 4
          BY <3>1, <4>1, OrderIs DEF Peers
        <5>2. coord.peers[w] \in From4
          BY <5>1, OrderIs, StatesAre DEF From4, After4
        <5> QED
          BY <5>2 DEF IInv, Local, MapIsTrue
      <4>2. Reached4(v)
        BY <3>1 DEF Reached4, Before4
      <4> QED
        BY <4>1, <4>2 DEF AllReached4
    <3>2. CASE sub[v].st # "CREATED_PIT"
      BY <1>1, <3>2 DEF Passed4, IInv, PausedTogether
    <3>3. CASE UNCHANGED sop
      BY <1>1, <3>3 DEF Passed4, IInv, PausedTogether, GoesOn
    <3> QED
      BY <1>6, <3>1, <3>2, <3>3
  <2>8. /\ Held(v)' => Held(v) /\ HeldAt(v)' = HeldAt(v)
        /\ Reached4(v) => Reached4(v)'
    BY <1>1 DEF Held, HeldAt, Reached4
  <2> QED
    BY <1>1, <1>6, <2>1, <2>2, <2>3, <2>4, <2>5, <2>6, <2>7, <2>8, LocalStep DEF Local
<1> QED
  BY <1>4, <1>5, <1>6

-----------------------------------------------------------------------------
(* A request that comes to another state, or is dispatched anew.           *)
Follows(to, st) ==
    \/ st = "PAUSING_IO" /\ to = "PAUSED_IO"
    \/ st = "PAUSED_IO" /\ to = "CREATING_PIT"
    \/ st = "CREATING_PIT" /\ to = "CREATED_PIT"
    \/ st = "CREATED_PIT" /\ to = "SNAPSHOT_UPLOADING"
    \/ st = "SNAPSHOT_UPLOADING" /\ to = "SNAPSHOT_UPLOAD_DONE"
    \/ st = "SNAPSHOT_UPLOAD_DONE" /\ to = "FINALIZING_SNAPSHOT"

(* The handler is left, starts with the state, or goes on to undo it.      *)
StartsOrStops(m, to) ==
    \/ m.pc = "idle"
    \/ m.pc = SubStates(to)[1] /\ to \in Forward \cup Backward
    \/ m.pc = "next" /\ to \in Forward /\ (m.inError \/ m.canceling \/ m.timedOut)

LEMMA FirstMatches ==
    ASSUME NEW m, NEW st, StartsOrStops(m, st)
    PROVE  /\ m.pc # "idle" => st \in Forward \cup Backward
           /\ m.pc = "next" => m.inError \/ m.canceling \/ m.timedOut
           /\ m.pc = "PausingIO" => st = "PAUSING_IO"
           /\ m.pc = "CreatePiT" => st = "CREATING_PIT"
           /\ m.pc = "ResumeIO" => st = "UNDO_PAUSING_IO"
           /\ m.pc = "UploadSnapshot" => st = "SNAPSHOT_UPLOADING"
           /\ m.pc = "RemoveOlderPiTs" => st = "FINALIZING_SNAPSHOT"
           /\ m.pc # "CreateSnapshotObject"
           /\ m.pc = "DeleteSnapshot" => st = "UNDO_SNAPSHOT_UPLOADING"
           /\ m.pc = "DeletePiT" => st = "UNDO_CREATING_PIT"
           /\ m.pc = "Sync" => st \in Synced
<1>1. CASE m.pc = "idle"
  BY <1>1
<1>2. CASE m.pc = SubStates(st)[1] /\ st \in Forward \cup Backward
  BY <1>2, FirstIs, StatesAre DEF Synced
<1>3. CASE m.pc = "next" /\ st \in Forward /\ (m.inError \/ m.canceling \/ m.timedOut)
  BY <1>3
<1> QED
  BY <1>1, <1>2, <1>3 DEF StartsOrStops

LEMMA StateStep ==
    ASSUME IInv, NEW v \in Vol, NEW to \in SubStatuses \ {"none", "NEW"}, NEW m \in SopRecord,
           sub' = [sub EXCEPT ![v].st = to], SetSop(v, m), StartsOrStops(m, to),
           UNCHANGED <<coord, cop, vol, group, written, expired>>, Fault \/ UNCHANGED faults,
           sub[v].st # "none",
           \/ to \in Backward \cup Terminal
           \/ to = sub[v].st
           \/ to = "PAUSING_IO" /\ sub[v].st = "NEW"
           \/ GoesOn(v) /\ Follows(to, sub[v].st)
    PROVE  IInv'
<1>1. TypeOK /\ Local(v) /\ coord \in CoordRecord /\ vol \in [Vol -> VolRecord]
  BY DEF IInv, TypeOK
<1>2. /\ sub' \in [Vol -> SubRecord] /\ sub'[v].st = to
      /\ \A u \in Vol : u # v => sub'[u] = sub[u]
  BY <1>1 DEF TypeOK, SubRecord
<1>3. /\ sop' \in [Vol -> SopRecord] /\ sop'[v] = m
      /\ \A u \in Vol : u # v => sop'[u] = sop[u]
  BY <1>1 DEF TypeOK, SetSop
<1>4. TypeOK'
  BY <1>1, <1>2, <1>3, StepTypes
<1>5. SubStateMatches(v)' /\ ~GoesOn(v)' /\ (sop'[v].pc = "ResumeIO" => to = "UNDO_PAUSING_IO")
  BY <1>2, <1>3, FirstMatches DEF SubStateMatches, GoesOn
<1>7. LaunchedOnce(v)'
  BY <1>1, <1>2 DEF Local, LaunchedOnce, InMap
<1>8. MapIsTrue(v)'
  BY <1>1, <1>2, <1>5, StatesAre
     DEF Local, MapIsTrue, Reached4, Before4, From4, After4, InMap, Follows, Terminal
<1>9. IsPaused(v)'
  BY <1>1, <1>2, <1>5, StatesAre DEF Local, IsPaused, Follows, Terminal
<1>10. PitIsTrue(v)'
  BY <1>1, <1>2, StatesAre DEF Local, PitIsTrue, Follows, Terminal
<1>11. NotWritten(v)'
  BY <1>1, <1>2, StatesAre DEF Local, NotWritten, PitIsTrue, Follows, Terminal
<1>12. Passed4(v)' => Passed4(v)
  BY <1>1, <1>2, <1>5, StatesAre DEF Local, IsPaused, Passed4, After4, Follows, Terminal
<1>13. Passed4(v)' => AllReached4
  BY <1>12 DEF IInv, PausedTogether
<1>14. Held(v)' => Held(v) /\ HeldAt(v)' = HeldAt(v)
  BY <1>1, <1>2, StatesAre DEF Local, PitIsTrue, Held, HeldAt, Follows, Terminal
<1>15. Reached4(v) => Reached4(v)'
  BY <1>2, StatesAre DEF Reached4, Before4, Follows, Terminal
<1>16. InMap(v)' => InMap(v)
  BY DEF InMap
<1> QED
  BY <1>2, <1>3, <1>4, <1>5, <1>7, <1>8, <1>9, <1>10, <1>11, <1>13, <1>14, <1>15, <1>16, LocalStep DEF Local

LEMMA DispatchStep ==
    ASSUME IInv, NEW v \in Vol, Dispatch(v)
    PROVE  IInv'
<1> DEFINE undo == expired \/ sub[v].canceled \/ IsUndo(sub[v].st)
           st == IF undo THEN FirstUndo(sub[v].st) ELSE IF sub[v].st = "NEW" THEN States[1] ELSE sub[v].st
           m == [Idle EXCEPT !.pc = SubStates(st)[1], !.timedOut = expired,
                             !.inError = ~expired /\ IsUndo(sub[v].st),
                             !.canceling = sub[v].canceled]
<1>1. TypeOK /\ sub[v] \in SubRecord /\ sub[v].st \notin Terminal \cup {"none"}
  BY DEF IInv, TypeOK, Dispatch
<1>2. sub[v].st \in {"NEW"} \cup Forward \cup Backward
  BY <1>1 DEF SubRecord, SubStatuses
<1>3. /\ undo => st \in Backward
      /\ ~undo => st = IF sub[v].st = "NEW" THEN "PAUSING_IO" ELSE sub[v].st
  BY FirstIs DEF States
<1>4. st \in Forward \cup Backward
  BY <1>2, <1>3, StatesAre
<1>5. SubStates(st)[1] \in SubPcs
  BY <1>4, FirstIs, StatesAre DEF SubPcs
<1> HIDE DEF st
<1>6. (~expired /\ IsUndo(sub[v].st)) \in BOOLEAN /\ expired \in BOOLEAN /\ sub[v].canceled \in BOOLEAN
  BY <1>1 DEF IsUndo, TypeOK, SubRecord
<1>7. m \in SopRecord /\ m.pc = SubStates(st)[1]
  BY <1>5, <1>6 DEF Idle, SopRecord
<1>8. StartsOrStops(m, st)
  BY <1>4, <1>7 DEF StartsOrStops
<1>9. /\ SetSop(v, m) /\ sub' = [sub EXCEPT ![v].st = st]
      /\ UNCHANGED <<coord, cop, vol, group, written, expired, faults>>
  BY DEF Dispatch, st
<1>10. st \in SubStatuses \ {"none", "NEW"}
  BY <1>4, StatesAre DEF SubStatuses
<1>11. st \in Backward \cup Terminal \/ st = sub[v].st \/ (st = "PAUSING_IO" /\ sub[v].st = "NEW")
  BY <1>3
<1> HIDE DEF m
<1> QED
  BY <1>1, <1>7, <1>8, <1>9, <1>10, <1>11, StateStep

LEMMA NextStateStep ==
    ASSUME IInv, NEW v \in Vol, NextState(v)
    PROVE  IInv'
<1> DEFINE m == sop[v]
           bad == m.inError \/ m.canceling \/ m.timedOut
           st == sub[v].st
           final == IF m.inError \/ m.timedOut THEN "FAILED" ELSE IF m.canceling THEN "CANCELED" ELSE "SUCCEEDED"
           to == IF IsUndo(st)
                 THEN IF st = "UNDO_PAUSING_IO" THEN final ELSE UndoStates[IndexIn(UndoStates, st) + 1]
                 ELSE IF bad THEN FirstUndo(st)
                 ELSE IF st = "FINALIZING_SNAPSHOT" THEN final ELSE States[Order(st) + 1]
           canceling == m.canceling \/ (sub[v].canceled /\ to \notin Terminal)
           x == IF to \in Terminal THEN Idle
                ELSE IF canceling /\ ~IsUndo(to) THEN [m EXCEPT !.canceling = TRUE]
                ELSE [m EXCEPT !.canceling = canceling, !.pc = SubStates(to)[1]]
<1>1. /\ TypeOK /\ m \in SopRecord /\ sub[v] \in SubRecord /\ m.pc = "next"
      /\ st \in Forward \cup Backward
  BY DEF IInv, Local, TypeOK, NextState, InSubState, SubStateMatches
<1>2. final \in Terminal
  BY DEF Terminal
<1>3. \/ to \in Backward \cup Terminal
      \/ GoesOn(v) /\ Follows(to, st) /\ to \in Forward
  <2>1. CASE st \in Backward
    <3>1. IsUndo(st)
      BY <2>1, UndoIndexIs
    <3>2. st # "UNDO_PAUSING_IO" => UndoStates[IndexIn(UndoStates, st) + 1] \in Backward
      BY <2>1, UndoIndexIs, StatesAre DEF UndoStates
    <3> HIDE DEF final
    <3> QED
      BY <1>2, <3>1, <3>2
  <2>2. CASE st \in Forward /\ bad
    BY <2>2, FirstIs, UndoIndexIs, StatesAre
  <2>3. CASE st \in Forward /\ ~bad
    <3>1. ~IsUndo(st) /\ GoesOn(v)
      BY <1>1, <2>3, UndoIndexIs, StatesAre DEF GoesOn
    <3>2. CASE st = "FINALIZING_SNAPSHOT"
      BY <1>2, <2>3, <3>1, <3>2
    <3>3. CASE st # "FINALIZING_SNAPSHOT"
      <4>1. to = States[Order(st) + 1]
        BY <2>3, <3>1, <3>3
      <4>2. Follows(States[Order(st) + 1], st)
        BY <2>3, <3>3, OrderIs, StatesAre DEF States, Follows
      <4>3. Follows(to, st)
        BY <4>1, <4>2, Zenon
      <4>4. to \in Forward
        BY <4>3, StatesAre DEF Follows
      <4> QED
        BY <3>1, <4>3, <4>4
    <3> QED
      BY <3>2, <3>3
  <2> QED
    BY <1>1, <2>1, <2>2, <2>3
<1>4. sub' = [sub EXCEPT ![v].st = to] /\ SetSop(v, x)
      /\ UNCHANGED <<coord, cop, vol, group, written, expired, faults>>
  BY Zenon DEF NextState
<1> HIDE DEF to
<1>5. to \in SubStatuses \ {"none", "NEW"}
  BY <1>3, StatesAre DEF SubStatuses, Terminal
<1>6. canceling \in BOOLEAN
  OBVIOUS
<1>7. ASSUME to \notin Terminal PROVE to \in Forward \cup Backward /\ SubStates(to)[1] \in SubPcs
  <2>1. to \in Forward \cup Backward
    BY <1>3, <1>7
  <2> QED
    BY <2>1, FirstIs, StatesAre DEF SubPcs
<1>8. x \in SopRecord /\ StartsOrStops(x, to)
  <2>1. CASE to \in Terminal
    <3> HIDE DEF canceling, m
    <3>1. x = Idle
      BY <2>1, Zenon
    <3>2. Idle \in SopRecord /\ StartsOrStops(Idle, to)
      BY DEF Idle, SopRecord, SubPcs, StartsOrStops
    <3> HIDE DEF x
    <3> QED
      BY <3>1, <3>2
  <2>2. CASE to \notin Terminal /\ canceling /\ ~IsUndo(to)
    <3>1. x = [m EXCEPT !.canceling = TRUE]
      BY <2>2
    <3>2. to \in Forward
      BY <1>7, <2>2, UndoIndexIs
    <3> QED
      BY <1>1, <3>1, <3>2 DEF SopRecord, StartsOrStops
  <2>3. CASE to \notin Terminal /\ ~(canceling /\ ~IsUndo(to))
    <3> HIDE DEF canceling
    <3>1. x = [m EXCEPT !.canceling = canceling, !.pc = SubStates(to)[1]]
      BY <2>3
    <3> QED
      BY <1>1, <1>6, <1>7, <2>3, <3>1 DEF SopRecord, StartsOrStops
  <2> QED
    BY <2>1, <2>2, <2>3
<1>9. st # "none"
  BY <1>1, StatesAre
<1> HIDE DEF x
<1> QED
  BY <1>3, <1>4, <1>5, <1>8, <1>9, StateStep

LEMMA InterruptStep ==
    ASSUME IInv, NEW v \in Vol, Interrupt(v)
    PROVE  IInv'
<1>1. TypeOK /\ Local(v) /\ sop[v].pc # "idle"
  BY DEF IInv, Interrupt, InSubState
<1>2. sub[v].st \in Forward \cup Backward
  BY <1>1 DEF Local, SubStateMatches
<1>3. sub[v].st \in SubStatuses \ {"none", "NEW"}
  BY <1>2, StatesAre DEF SubStatuses
<1>4. sub' = [sub EXCEPT ![v].st = sub[v].st]
  BY <1>1 DEF TypeOK, SubRecord, Interrupt
<1>5. Idle \in SopRecord /\ StartsOrStops(Idle, sub[v].st)
  BY DEF Idle, SopRecord, SubPcs, StartsOrStops
<1>6. SetSop(v, Idle) /\ Fault /\ UNCHANGED <<coord, cop, vol, group, written, expired>>
  BY DEF Interrupt
<1> QED
  BY <1>3, <1>4, <1>5, <1>6, StateStep

LEMMA CancelStep ==
    ASSUME IInv, NEW v \in Vol, Cancel(v)
    PROVE  IInv'
<1>1. TypeOK /\ Local(v)
  BY DEF IInv
<1>2. /\ sub' \in [Vol -> SubRecord] /\ sub'[v].st = sub[v].st
      /\ \A u \in Vol : u # v => sub'[u] = sub[u]
  BY <1>1 DEF TypeOK, SubRecord, Cancel
<1>3. UNCHANGED <<coord, cop, sop, vol, group, written, expired>> /\ Fault
  BY DEF Cancel
<1>4. TypeOK'
  BY <1>1, <1>2, <1>3, StepTypes DEF TypeOK
<1>5. SubStateMatches(v)' /\ LaunchedOnce(v)'
  BY <1>1, <1>2, <1>3 DEF Local, SubStateMatches, LaunchedOnce, InMap
<1>6. MapIsTrue(v)' /\ IsPaused(v)'
  BY <1>1, <1>2, <1>3 DEF Local, MapIsTrue, IsPaused, InMap, GoesOn, Reached4
<1>7. PitIsTrue(v)' /\ NotWritten(v)'
  BY <1>1, <1>2, <1>3 DEF Local, PitIsTrue, NotWritten
<1>8. /\ Reached4(v) => Reached4(v)'
      /\ Passed4(v)' => AllReached4
      /\ Held(v)' => Held(v) /\ HeldAt(v)' = HeldAt(v)
      /\ InMap(v)' => InMap(v)
  BY <1>1, <1>2, <1>3 DEF Reached4, Passed4, GoesOn, Held, HeldAt, InMap, IInv, PausedTogether
<1> QED
  BY <1>2, <1>3, <1>4, <1>5, <1>6, <1>7, <1>8, LocalStep DEF Local

-----------------------------------------------------------------------------
(* The group request: it changes the map only once, when no volume has any *)
(* request, and what it knows of the requests is what LaunchedOnce says.   *)
LEMMA ClusterdStep ==
    ASSUME IInv, TypeOK', UNCHANGED <<sub, sop, vol, written>>, coord'.peers = coord.peers,
           \A v \in Vol : LaunchedOnce(v)'
    PROVE  IInv'
<1>1. \A v \in Vol : /\ SubStateMatches(v)' /\ MapIsTrue(v)' /\ IsPaused(v)'
                     /\ PitIsTrue(v)' /\ NotWritten(v)'
  BY DEF IInv, Local, SubStateMatches, MapIsTrue, IsPaused, PitIsTrue, NotWritten, InMap, Reached4, GoesOn
<1>2. AllReached4' <=> AllReached4
  BY DEF AllReached4, InMap, Reached4
<1>3. \A v \in Vol : PausedTogether(v)'
  BY <1>2 DEF IInv, PausedTogether, Passed4, GoesOn
<1>4. HeldInv'
  BY DEF IInv, HeldInv, Held, HeldAt
<1> QED
  BY <1>1, <1>3, <1>4 DEF IInv, Local

LEMMA ClusterdTypes ==
    ASSUME TypeOK, UNCHANGED <<sub, sop, vol, group, written, expired>>,
           coord' \in CoordRecord, cop' \in CopRecord, Fault \/ UNCHANGED faults
    PROVE  TypeOK'
  BY DEF TypeOK, Fault

(* Nothing is known of the requests where the handler does not use it.     *)
LEMMA ElsewhereStep ==
    ASSUME IInv, TypeOK', UNCHANGED <<sub, sop, vol, written>>, coord'.peers = coord.peers,
           group' \subseteq group,
           cop' = cop \/ cop'.pc \notin {"InitMapInDB", "launch", "CheckForSubordinates"}
    PROVE  IInv'
<1>1. \A v \in Vol : LaunchedOnce(v)'
  BY DEF IInv, Local, LaunchedOnce, InMap
<1> QED
  BY <1>1, ClusterdStep

LEMMA CIdleIs == CIdle \in CopRecord /\ CIdle.pc = "idle"
  BY DEF CIdle, CopRecord, PeerStatuses

LEMMA CDispatchStep ==
    ASSUME IInv, CDispatch
    PROVE  IInv'
<1> DEFINE undo == coord.st = "UNDO_CG_SNAPSHOT_VOLUMES"
           bad == expired \/ coord.canceled \/ undo
           st == IF bad THEN "UNDO_CG_SNAPSHOT_VOLUMES"
                 ELSE IF coord.st = "NEW" THEN "CG_SNAPSHOT_VOLUMES" ELSE coord.st
           pc == CASE bad -> "undo"
                   [] st = "CG_SNAPSHOT_VOLUMES" /\ Peers = {} -> "InitMapInDB"
                   [] st = "CG_SNAPSHOT_FINALIZE" -> "done"
                   [] OTHER -> "CheckForSubordinates"
           x == [CIdle EXCEPT !.seen = coord.peers, !.timedOut = expired,
                              !.inError = ~expired /\ undo, !.canceling = coord.canceled, !.pc = pc]
<1>1. TypeOK /\ coord \in CoordRecord /\ expired \in BOOLEAN
  BY DEF IInv, TypeOK
<1>2. /\ coord' = [coord EXCEPT !.st = st] /\ cop' = x
      /\ UNCHANGED <<sub, sop, vol, group, written, expired, faults>>
  BY DEF CDispatch, SetCop
<1>3. coord' \in CoordRecord /\ coord'.peers = coord.peers
  <2>1. st \in {"NEW", "CG_SNAPSHOT_VOLUMES", "CG_SNAPSHOT_WAIT", "CG_SNAPSHOT_FINALIZE",
                "UNDO_CG_SNAPSHOT_VOLUMES"} \cup Terminal
    BY <1>1 DEF CoordRecord
  <2> HIDE DEF st
  <2> QED
    BY <1>1, <1>2, <2>1 DEF CoordRecord
<1>4. /\ pc \in {"undo", "InitMapInDB", "done", "CheckForSubordinates"}
      /\ pc = "InitMapInDB" => Peers = {}
  <2>1. st = "UNDO_CG_SNAPSHOT_VOLUMES" <=> bad
    OBVIOUS
  <2> HIDE DEF st
  <2> QED
    BY <2>1
<1> HIDE DEF pc
<1>5. (~expired /\ undo) \in BOOLEAN
  OBVIOUS
<1>6. x \in CopRecord /\ x.pc = pc /\ x.seen = coord.peers
  BY <1>1, <1>4, <1>5 DEF CIdle, CopRecord, CoordRecord
<1> HIDE DEF x
<1>7. TypeOK'
  BY <1>1, <1>2, <1>3, <1>6, ClusterdTypes
<1>8. \A v \in Vol : LaunchedOnce(v)'
  BY <1>2, <1>3, <1>4, <1>6 DEF IInv, Local, LaunchedOnce, InMap, Peers, NotInMap
<1> QED
  BY <1>2, <1>3, <1>7, <1>8, ClusterdStep

LEMMA InitMapInDBStep ==
    ASSUME IInv, InitMapInDB
    PROVE  IInv'
<1>1. /\ TypeOK /\ coord \in CoordRecord /\ cop \in CopRecord /\ cop.pc = "InitMapInDB"
      /\ UNCHANGED <<sub, sop, vol, group, written, expired, faults>>
  BY DEF IInv, TypeOK, InitMapInDB, InCop
<1>2. CASE group = {}
  <2>1. cop' \in CopRecord /\ cop'.pc = "fail" /\ UNCHANGED coord
    BY <1>1, <1>2 DEF InitMapInDB, SetCop, CopRecord
  <2>2. TypeOK'
    BY <1>1, <2>1, ClusterdTypes
  <2> QED
    BY <1>1, <2>1, <2>2, ElsewhereStep
<1>3. CASE group # {}
  <2> DEFINE map == [v \in Vol |-> IF v \in group THEN "" ELSE NotInMap]
  <2>1. coord' = [coord EXCEPT !.peers = map] /\ cop' = [cop EXCEPT !.pc = "launch", !.seen = map]
    BY <1>3 DEF InitMapInDB, SetCop
  <2>2. map \in [Vol -> PeerStatuses] /\ map \in [Vol -> SubStatuses \cup PeerStatuses]
    BY DEF PeerStatuses
  <2>3. \A v \in Vol : map[v] = IF v \in group THEN "" ELSE NotInMap
    OBVIOUS
  <2> HIDE DEF map
  <2>4. /\ coord' \in CoordRecord /\ coord'.peers = map
        /\ cop' \in CopRecord /\ cop'.pc = "launch" /\ cop'.seen = map
    BY <1>1, <2>1, <2>2 DEF CoordRecord, CopRecord
  <2>5. TypeOK'
    BY <1>1, <2>4, ClusterdTypes
  <2>6. \A v \in Vol : Local(v) /\ ~InMap(v) /\ (sub[v].st # "none" => v \notin group)
    BY <1>1 DEF IInv, Local, LaunchedOnce
  <2>7. \A v \in Vol : LaunchedOnce(v)'
    BY <1>1, <2>3, <2>4, <2>6 DEF Local, LaunchedOnce, InMap, NotInMap
  <2>8. \A v \in Vol : vol[v].data = NoPiT /\ sub[v].st \notin {"CREATING_PIT"} \cup From4
    BY <2>6 DEF Local, MapIsTrue
  <2>9. \A v \in Vol : ~(sub[v].st = "PAUSED_IO" /\ GoesOn(v))
    BY <2>6 DEF Local, MapIsTrue
  <2>10. \A v \in Vol : MapIsTrue(v)'
    BY <1>1, <2>3, <2>4, <2>8, <2>9 DEF MapIsTrue, GoesOn, NotInMap, From4, After4
  <2>11. \A v \in Vol : SubStateMatches(v)' /\ IsPaused(v)' /\ PitIsTrue(v)' /\ NotWritten(v)'
    BY <1>1, <2>6 DEF Local, SubStateMatches, IsPaused, PitIsTrue, NotWritten, GoesOn
  <2>12. \A v \in Vol : ~Passed4(v)'
    BY <1>1, <2>8 DEF Passed4, From4
  <2>13. HeldInv'
    BY <1>1 DEF IInv, HeldInv, Held, HeldAt
  <2> QED
    BY <2>5, <2>7, <2>10, <2>11, <2>12, <2>13 DEF IInv, Local, PausedTogether
<1> QED
  BY <1>2, <1>3

LEMMA CheckForSubordinatesStep ==
    ASSUME IInv, CheckForSubordinates
    PROVE  IInv'
<1> DEFINE map == WithSubordinates(cop.seen)
           pc == IF coord.st = "CG_SNAPSHOT_VOLUMES" THEN "launch" ELSE "count"
<1>1. /\ TypeOK /\ coord \in CoordRecord /\ cop \in CopRecord /\ cop.pc = "CheckForSubordinates"
      /\ sub \in [Vol -> SubRecord]
      /\ UNCHANGED <<coord, sub, sop, vol, group, written, expired, faults>>
      /\ cop' = [cop EXCEPT !.seen = map, !.pc = pc]
  BY DEF IInv, TypeOK, CheckForSubordinates, InCop, SetCop
<1>2. \A v \in Vol : /\ map[v] \in SubStatuses \cup PeerStatuses
                     /\ map[v] = "" => cop.seen[v] = "" /\ sub[v].st = "none"
  <2>1. "" \notin SubStatuses
    BY StatesAre DEF SubStatuses, Terminal
  <2>2. \A v \in Vol : sub[v].st \in SubStatuses /\ cop.seen[v] \in SubStatuses \cup PeerStatuses
    BY <1>1 DEF SubRecord, CopRecord
  <2>3. \A v \in Vol : map[v] = IF cop.seen[v] # NotInMap /\ sub[v].st # "none" THEN sub[v].st ELSE cop.seen[v]
    BY DEF WithSubordinates
  <2> HIDE DEF map
  <2> QED
    BY <2>1, <2>2, <2>3 DEF NotInMap
<1>3. map \in [Vol -> SubStatuses \cup PeerStatuses]
  BY <1>2 DEF WithSubordinates
<1> HIDE DEF map
<1>4. cop' \in CopRecord /\ cop'.seen = map /\ cop'.pc \in {"launch", "count"}
  BY <1>1, <1>3 DEF CopRecord
<1>5. TypeOK'
  BY <1>1, <1>4, ClusterdTypes
<1>6. \A v \in Vol : LaunchedOnce(v)'
  BY <1>1, <1>2, <1>4 DEF IInv, Local, LaunchedOnce, InMap
<1> QED
  BY <1>1, <1>5, <1>6, ClusterdStep

LEMMA LaunchedIs ==
    ASSUME NEW r \in VolRecord, r.launched = 0
    PROVE  LET x == [r EXCEPT !.launched = @ + 1]
           IN  x \in VolRecord /\ x.launched = 1 /\ x.paused = r.paused /\ x.pit = r.pit /\ x.data = r.data
  BY DEF VolRecord

LEMMA WrittenIs ==
    ASSUME TypeOK
    PROVE  written \in Nat /\ NoPiT <= written
<1>1. written \in 0 .. Len(Writes)
  BY DEF TypeOK
<1> QED
  BY <1>1, WritesAssumption DEF NoPiT

LEMMA LaunchStep ==
    ASSUME IInv, Launch
    PROVE  IInv'
<1> DEFINE rest == {v \in Vol : cop.seen[v] = ""}
<1>1. /\ TypeOK /\ coord \in CoordRecord /\ cop \in CopRecord /\ cop.pc = "launch"
      /\ UNCHANGED <<sop, group, written, expired>>
  BY DEF IInv, TypeOK, Launch, InCop
<1>2. CASE rest # {} /\ Fault /\ SetCop([cop EXCEPT !.pc = "fail"]) /\ UNCHANGED <<sub, vol, coord>>
  <2>1. cop' \in CopRecord /\ cop'.pc = "fail"
    BY <1>1, <1>2 DEF SetCop, CopRecord
  <2>2. TypeOK'
    BY <1>1, <1>2, <2>1, ClusterdTypes
  <2> QED
    BY <1>1, <1>2, <2>1, <2>2, ElsewhereStep
<1>3. CASE /\ rest = {} /\ NoFault /\ UNCHANGED <<sub, vol>>
           /\ IF coord.st = "CG_SNAPSHOT_FINALIZE" THEN UNCHANGED coord ELSE coord' = [coord EXCEPT !.st = "CG_SNAPSHOT_WAIT"]
           /\ SetCop(IF cop.created THEN CIdle ELSE [cop EXCEPT !.pc = "CheckForSubordinates"])
  <2>1. coord' \in CoordRecord /\ coord'.peers = coord.peers
    BY <1>1, <1>3 DEF CoordRecord
  <2>2. /\ cop' \in CopRecord
        /\ cop'.pc = "idle" \/ (cop'.pc = "CheckForSubordinates" /\ cop'.seen = cop.seen)
    BY <1>1, <1>3, CIdleIs DEF SetCop, CopRecord
  <2>3. TypeOK'
    BY <1>1, <1>3, <2>1, <2>2, ClusterdTypes DEF NoFault
  <2>4. \A v \in Vol : LaunchedOnce(v)'
    BY <1>1, <1>3, <2>1, <2>2 DEF IInv, Local, LaunchedOnce, InMap
  <2> QED
    BY <1>1, <1>3, <2>1, <2>3, <2>4, ClusterdStep
<1>4. ASSUME NEW v \in rest,
             sub' = [sub EXCEPT ![v] = [NoSub EXCEPT !.st = "NEW"]],
             SetVol(v, [vol[v] EXCEPT !.launched = @ + 1]),
             SetCop([cop EXCEPT !.seen[v] = "NEW", !.created = TRUE]),
             NoFault, UNCHANGED coord
      PROVE  IInv'
  <2>1. v \in Vol /\ Local(v) /\ vol[v] \in VolRecord
    BY <1>1 DEF IInv, TypeOK
  <2>2. sub[v].st = "none" /\ InMap(v) /\ vol[v].launched = 0 /\ sop[v].pc = "idle"
    <3>1. sub[v].st = "none" /\ InMap(v) /\ vol[v].launched = 0
      BY <1>1, <2>1 DEF Local, LaunchedOnce
    <3> QED
      BY <2>1, <3>1, StatesAre DEF Local, SubStateMatches
  <2>3. ~Reached4(v) /\ ~AllReached4
    BY <2>1, <2>2 DEF Reached4, AllReached4
  <2>4. \A u \in Vol : ~Passed4(u) /\ vol[u].data = NoPiT
    BY <2>3 DEF IInv, PausedTogether, Passed4
  <2>5. vol[v].pit = NoPiT
    BY <2>1, <2>2 DEF Local, PitIsTrue
  <2>6. /\ sub' \in [Vol -> SubRecord] /\ sub'[v].st = "NEW"
        /\ \A u \in Vol : u # v => sub'[u] = sub[u]
    BY <1>1, <1>4, <2>1 DEF TypeOK, NoSub, SubRecord, SubStatuses
  <2>7. /\ vol' \in [Vol -> VolRecord] /\ vol'[v].launched = 1
        /\ vol'[v].paused = vol[v].paused /\ vol'[v].pit = NoPiT /\ vol'[v].data = NoPiT
        /\ \A u \in Vol : u # v => vol'[u] = vol[u]
    <3> DEFINE x == [vol[v] EXCEPT !.launched = @ + 1]
    <3>1. SetVol(v, x)
      BY <1>4, Zenon
    <3>2. x \in VolRecord /\ x.launched = 1 /\ x.paused = vol[v].paused /\ x.pit = NoPiT /\ x.data = NoPiT
      BY <2>1, <2>2, <2>4, <2>5, LaunchedIs
    <3> HIDE DEF x
    <3>3. /\ vol' \in [Vol -> VolRecord] /\ vol'[v] = x
          /\ \A u \in Vol : u # v => vol'[u] = vol[u]
      BY <1>1, <2>1, <3>1, <3>2 DEF TypeOK, SetVol
    <3> QED
      BY <3>2, <3>3
  <2>8. /\ cop' \in CopRecord /\ cop'.pc = "launch" /\ cop'.seen[v] = "NEW"
        /\ \A u \in Vol : u # v => cop'.seen[u] = cop.seen[u]
    <3> DEFINE s == [cop.seen EXCEPT ![v] = "NEW"]
    <3>1. s \in [Vol -> SubStatuses \cup PeerStatuses] /\ s[v] = "NEW"
          /\ \A u \in Vol : u # v => s[u] = cop.seen[u]
      BY <1>1, <2>1 DEF CopRecord, SubStatuses
    <3>2. cop' = [cop EXCEPT !.seen = s, !.created = TRUE]
      BY <1>1, <1>4 DEF SetCop, CopRecord
    <3> HIDE DEF s
    <3> QED
      BY <1>1, <3>1, <3>2 DEF CopRecord
  <2>9. TypeOK'
    BY <1>1, <1>4, <2>6, <2>7, <2>8 DEF TypeOK, NoFault
  <2>10. Local(v)'
    <3>1. SubStateMatches(v)' /\ LaunchedOnce(v)'
      BY <1>1, <1>4, <2>1, <2>2, <2>6, <2>7, <2>8 DEF Local, SubStateMatches, LaunchedOnce, InMap
    <3>2. MapIsTrue(v)' /\ IsPaused(v)'
      BY <1>1, <1>4, <2>1, <2>2, <2>3, <2>6, <2>7 DEF Local, MapIsTrue, IsPaused, Reached4, From4, After4, GoesOn
    <3>3. NoPiT <= written /\ written' = written
      BY <1>1, WrittenIs
    <3>4. PitIsTrue(v)'
      BY <2>6, <2>7, <3>3 DEF PitIsTrue
    <3>5. NotWritten(v)'
      BY <2>6 DEF NotWritten
    <3> QED
      BY <3>1, <3>2, <3>4, <3>5 DEF Local
  <2>11. ASSUME NEW u \in Vol, u # v
         PROVE  Local(u)' /\ ~Passed4(u)' /\ (Held(u)' <=> Held(u)) /\ HeldAt(u)' = HeldAt(u)
    <3>1. Local(u) /\ ~Passed4(u)
      BY <2>4 DEF IInv
    <3>2. SubStateMatches(u)' /\ LaunchedOnce(u)'
      BY <1>1, <1>4, <2>6, <2>7, <2>8, <2>11, <3>1 DEF Local, SubStateMatches, LaunchedOnce, InMap
    <3>3. MapIsTrue(u)' /\ IsPaused(u)'
      BY <1>1, <1>4, <2>6, <2>7, <2>11, <3>1 DEF Local, MapIsTrue, IsPaused, InMap, GoesOn, Reached4
    <3>4. PitIsTrue(u)' /\ NotWritten(u)'
      BY <1>1, <1>4, <2>6, <2>7, <2>11, <3>1 DEF Local, PitIsTrue, NotWritten
    <3>5. ~Passed4(u)' /\ (Held(u)' <=> Held(u)) /\ HeldAt(u)' = HeldAt(u)
      BY <1>1, <2>6, <2>7, <2>11, <3>1 DEF Passed4, GoesOn, Held, HeldAt
    <3> QED
      BY <3>2, <3>3, <3>4, <3>5 DEF Local
  <2>12. ~Passed4(v)' /\ ~Held(v)'
    BY <2>6, <2>7 DEF Passed4, After4, Held
  <2>13. HeldInv'
    BY <1>1, <2>11, <2>12 DEF IInv, HeldInv
  <2> QED
    BY <2>9, <2>10, <2>11, <2>12, <2>13 DEF IInv, PausedTogether
<1> QED
  BY <1>2, <1>3, <1>4 DEF Launch

LEMMA CoordSteps ==
    ASSUME IInv, CoordStep \/ CInterrupt \/ CancelGroup
    PROVE  IInv'
<1>1. TypeOK /\ coord \in CoordRecord /\ cop \in CopRecord
  BY DEF IInv, TypeOK
<1>2. CASE CountActive
  <2>1. cop' \in CopRecord /\ cop'.pc \notin {"InitMapInDB", "launch", "CheckForSubordinates"}
    BY <1>1, <1>2, CIdleIs DEF CountActive, SetCop, CopRecord
  <2>2. UNCHANGED <<coord, sub, sop, vol, group, written, expired, faults>>
    BY <1>2 DEF CountActive
  <2>3. TypeOK'
    BY <1>1, <2>1, <2>2, ClusterdTypes
  <2> QED
    BY <2>1, <2>2, <2>3, ElsewhereStep
<1>3. CASE EnterUndo
  <2>1. cop' \in CopRecord /\ cop'.pc = "undo"
    BY <1>1, <1>3 DEF EnterUndo, SetCop, CopRecord
  <2>2. coord' \in CoordRecord /\ coord'.peers = coord.peers
    BY <1>1, <1>3 DEF EnterUndo, CoordRecord
  <2>3. UNCHANGED <<sub, sop, vol, group, written, expired, faults>>
    BY <1>3 DEF EnterUndo
  <2>4. TypeOK'
    BY <1>1, <2>1, <2>2, <2>3, ClusterdTypes
  <2> QED
    BY <2>1, <2>2, <2>3, <2>4, ElsewhereStep
<1>4. CASE UndoWait
  <2>1. cop' \in {[cop EXCEPT !.pc = "done", !.inError = TRUE], CIdle, [cop EXCEPT !.pc = "done", !.timedOut = FALSE]}
    BY <1>4 DEF UndoWait, SetCop
  <2>2. cop' \in CopRecord /\ cop'.pc \in {"done", "idle"}
    BY <1>1, <2>1, CIdleIs DEF CopRecord
  <2>3. UNCHANGED <<coord, sub, sop, vol, group, written, expired, faults>>
    BY <1>4 DEF UndoWait
  <2>4. TypeOK'
    BY <1>1, <2>2, <2>3, ClusterdTypes
  <2> QED
    BY <2>2, <2>3, <2>4, ElsewhereStep
<1>5. CASE CFinish
  <2>1. cop' \in CopRecord /\ cop'.pc = "idle"
    BY <1>5, CIdleIs DEF CFinish, SetCop
  <2>2. coord' \in CoordRecord /\ coord'.peers = coord.peers
    BY <1>1, <1>5 DEF CFinish, CoordRecord, Terminal
  <2>3. UNCHANGED <<sub, sop, vol, group, written, expired, faults>>
    BY <1>5 DEF CFinish
  <2>4. TypeOK'
    BY <1>1, <2>1, <2>2, <2>3, ClusterdTypes
  <2> QED
    BY <2>1, <2>2, <2>3, <2>4, ElsewhereStep
<1>6. CASE CInterrupt
  <2>1. cop' \in CopRecord /\ cop'.pc = "idle"
    BY <1>6, CIdleIs DEF CInterrupt, SetCop
  <2>2. UNCHANGED <<coord, sub, sop, vol, group, written, expired>> /\ Fault
    BY <1>6 DEF CInterrupt
  <2>3. TypeOK'
    BY <1>1, <2>1, <2>2, ClusterdTypes
  <2> QED
    BY <2>1, <2>2, <2>3, ElsewhereStep
<1>7. CASE CancelGroup
  <2>1. coord' \in CoordRecord /\ coord'.peers = coord.peers
    BY <1>1, <1>7 DEF CancelGroup, CoordRecord
  <2>2. UNCHANGED <<cop, sub, sop, vol, group, written, expired>> /\ Fault
    BY <1>7 DEF CancelGroup
  <2>3. TypeOK'
    BY <1>1, <2>1, <2>2, ClusterdTypes
  <2> QED
    BY <2>1, <2>2, <2>3, ElsewhereStep
<1> QED
  BY <1>2, <1>3, <1>4, <1>5, <1>6, <1>7, CDispatchStep, InitMapInDBStep, CheckForSubordinatesStep, LaunchStep
     DEF CoordStep

-----------------------------------------------------------------------------
(* The deadline, the group and the applications.                           *)
LEMMA ExpireStep ==
    ASSUME IInv, Expire
    PROVE  IInv'
<1>1. TypeOK' /\ UNCHANGED <<coord, cop, sub, sop, vol, group, written>>
  BY DEF IInv, TypeOK, Expire
<1> QED
  BY <1>1, ElsewhereStep

LEMMA LeaveGroupStep ==
    ASSUME IInv, NEW v \in Vol, LeaveGroup(v)
    PROVE  IInv'
<1>1. UNCHANGED <<coord, cop, sub, sop, vol, written, expired>> /\ group' \subseteq group /\ Fault
  BY DEF LeaveGroup
<1>2. TypeOK'
  BY <1>1 DEF IInv, TypeOK, Fault
<1> QED
  BY <1>1, <1>2, ElsewhereStep

(* A write to a volume that is not paused: no other volume with a point in *)
(* time can have it, as none has a later one than it, and its own is not   *)
(* held or all points in time are made.                                    *)
LEMMA WriteStep ==
    ASSUME IInv, NEW v \in Vol, Write(v)
    PROVE  IInv'
<1>1. /\ written \in Nat /\ written' = written + 1 /\ v = Writes[written + 1] /\ ~vol[v].paused
      /\ UNCHANGED <<coord, cop, sub, sop, vol, group, expired, faults>>
  BY WritesAssumption DEF IInv, TypeOK, Write
<1>2. TypeOK'
  <2>1. written' \in 0 .. Len(Writes)
    BY WritesAssumption DEF IInv, TypeOK, Write
  <2> QED
    BY <1>1, <2>1 DEF IInv, TypeOK
<1>3. \A u \in Vol : /\ Local(u) /\ vol[u].pit \in Int /\ vol[u].data \in Int
  BY DEF IInv, TypeOK, VolRecord, Times, NoPiT
<1>4. ASSUME NEW u \in Vol PROVE SubStateMatches(u)' /\ LaunchedOnce(u)' /\ MapIsTrue(u)' /\ IsPaused(u)'
  <2>1. Local(u)
    BY <1>3
  <2>2. SubStateMatches(u)' /\ LaunchedOnce(u)'
    BY <1>1, <2>1 DEF Local, SubStateMatches, LaunchedOnce, InMap
  <2>3. MapIsTrue(u)' /\ IsPaused(u)'
    BY <1>1, <2>1 DEF Local, MapIsTrue, IsPaused, InMap, Reached4, GoesOn
  <2> QED
    BY <2>2, <2>3
<1>5. \A u \in Vol : PitIsTrue(u)'
  BY <1>1, <1>3 DEF Local, PitIsTrue
<1>6. ASSUME NEW u \in Vol PROVE NotWritten(u)'
  <2>1. NotWritten(u)
    BY <1>3 DEF Local
  <2>2. \A i \in 1 .. written' : i \in 1 .. written \/ i = written + 1
    BY <1>1
  <2>3. u # v \/ ~vol[u].paused
    BY <1>1
  <2> QED
    BY <1>1, <2>1, <2>2, <2>3 DEF NotWritten
<1>7. \A u \in Vol : PausedTogether(u)'
  BY <1>1 DEF IInv, PausedTogether, Passed4, GoesOn, AllReached4, Reached4, InMap
<1>8. ASSUME NEW u \in Vol, NEW w \in Vol, Held(u)', Held(w)',
             NEW i \in 1 .. written', i > HeldAt(u)', i <= HeldAt(w)'
      PROVE  Writes[i] # u
  <2>1. Held(u) /\ Held(w) /\ HeldAt(u)' = HeldAt(u) /\ HeldAt(w)' = HeldAt(w)
    BY <1>1, <1>8 DEF Held, HeldAt
  <2>2. HeldAt(w) \in Int /\ HeldAt(w) <= written
    BY <1>3 DEF HeldAt, Local, PitIsTrue
  <2>3. i \in 1 .. written
    BY <1>1, <1>8, <2>1, <2>2
  <2> QED
    BY <1>8, <2>1, <2>3 DEF IInv, HeldInv
<1>9. HeldInv'
  BY <1>1, <1>8 DEF HeldInv
<1> QED
  BY <1>2, <1>4, <1>5, <1>6, <1>7, <1>9 DEF IInv, Local

-----------------------------------------------------------------------------
LEMMA InitInv == Init => IInv
<1> SUFFICES ASSUME Init PROVE IInv
  OBVIOUS
<1>1. /\ coord = [st |-> "NEW", peers |-> [v \in Vol |-> NotInMap], canceled |-> FALSE]
      /\ cop = CIdle /\ sub = [v \in Vol |-> NoSub] /\ sop = [v \in Vol |-> Idle]
      /\ group = Vol /\ written = 0 /\ expired = FALSE /\ faults = 0
      /\ vol = [v \in Vol |-> [paused |-> FALSE, pit |-> NoPiT, data |-> NoPiT,
                               snap |-> FALSE, launched |-> 0, stuck |-> FALSE]]
  BY DEF Init
<1>2. TypeOK
  <2>1. coord \in CoordRecord /\ cop \in CopRecord
    BY <1>1, CIdleIs DEF CoordRecord, PeerStatuses
  <2>2. sub \in [Vol -> SubRecord] /\ sop \in [Vol -> SopRecord]
    BY <1>1 DEF NoSub, SubRecord, SubStatuses, Idle, SopRecord, SubPcs
  <2>3. vol \in [Vol -> VolRecord]
    BY <1>1 DEF VolRecord, Times
  <2>4. written \in 0 .. Len(Writes)
    BY <1>1, WritesAssumption
  <2> QED
    BY <1>1, <2>1, <2>2, <2>3, <2>4 DEF TypeOK
<1>3. ASSUME NEW v \in Vol PROVE Local(v) /\ ~Passed4(v) /\ ~Held(v)
  <2>1. /\ sub[v].st = "none" /\ sop[v].pc = "idle" /\ ~InMap(v) /\ cop.pc = "idle"
        /\ vol[v].launched = 0 /\ vol[v].pit = NoPiT /\ vol[v].data = NoPiT
    BY <1>1, CIdleIs DEF NoSub, Idle, InMap
  <2>2. SubStateMatches(v) /\ LaunchedOnce(v)
    BY <2>1 DEF SubStateMatches, LaunchedOnce
  <2>3. MapIsTrue(v) /\ IsPaused(v)
    BY <1>1, <2>1 DEF MapIsTrue, IsPaused, From4, After4, NotInMap
  <2>4. PitIsTrue(v) /\ NotWritten(v)
    BY <1>1, <2>1 DEF PitIsTrue, NotWritten, NoPiT
  <2>5. ~Passed4(v) /\ ~Held(v)
    BY <2>1 DEF Passed4, After4, Held
  <2> QED
    BY <2>2, <2>3, <2>4, <2>5 DEF Local
<1> QED
  BY <1>2, <1>3 DEF IInv, PausedTogether, HeldInv

LEMMA NextInv == IInv /\ [Next]_snapVars => IInv'
<1> SUFFICES ASSUME IInv, [Next]_snapVars PROVE IInv'
  OBVIOUS
<1>1. CASE UNCHANGED snapVars
  <2>1. TypeOK' /\ UNCHANGED <<coord, cop, sub, sop, vol, group, written>>
    BY <1>1 DEF IInv, TypeOK, snapVars
  <2> QED
    BY <2>1, ElsewhereStep
<1>2. CASE CoordStep \/ CInterrupt \/ CancelGroup
  BY <1>2, CoordSteps
<1>3. CASE Expire
  BY <1>3, ExpireStep
<1>4. ASSUME NEW v \in Vol, SubStep(v)
      PROVE  IInv'
  BY <1>4, DispatchStep, NextStateStep, PausingIOStep, SyncStep, CreatePiTStep, ResumeIOStep,
     UploadSnapshotStep, RemoveOlderPiTsStep, CreateSnapshotObjectStep, DeleteSnapshotStep, DeletePiTStep
     DEF SubStep
<1>5. ASSUME NEW v \in Vol, Interrupt(v) \/ Cancel(v) \/ LeaveGroup(v) \/ Write(v)
      PROVE  IInv'
  BY <1>5, InterruptStep, CancelStep, LeaveGroupStep, WriteStep
<1> QED
  BY <1>1, <1>2, <1>3, <1>4, <1>5 DEF Next

(* The invariant holds: in particular I/O of a volume stays paused from    *)
(* before its point in time is made until those of all volumes are made,   *)
(* wherever a handler or a process stops.                                  *)
THEOREM Invariance == Spec => []IInv
  BY InitInv, NextInv, PTL DEF Spec

(* Every request, handler and volume has the fields and the states that    *)
(* the code gives it.                                                      *)
THEOREM TypeCorrect == Spec => []TypeOK
<1>1. IInv => TypeOK
  BY DEF IInv
<1> QED
  BY <1>1, Invariance, PTL

(* The snapshots of a group keep the order of writes, whichever volumes    *)
(* the applications write to, and no volume gets two requests.             *)
THEOREM GroupCorrect == Spec => []GroupIsConsistent
<1>1. ASSUME IInv PROVE WriteOrderKept
  <2> SUFFICES ASSUME NEW v \in Vol, NEW w \in Vol, HasSnapshot(v), HasSnapshot(w),
                      NEW i \in 1 .. written, NEW j \in 1 .. written,
                      i < j, Writes[i] = v, Writes[j] = w, j <= vol[w].data
               PROVE  i <= vol[v].data
    BY DEF WriteOrderKept
  <2>1. Held(v) /\ Held(w) /\ HeldAt(v) = vol[v].data /\ HeldAt(w) = vol[w].data
    BY DEF HasSnapshot, Held, HeldAt
  <2>2. vol[v].data \in Int /\ vol[w].data \in Int
    BY <1>1 DEF IInv, TypeOK, VolRecord, Times, NoPiT
  <2>3. i > vol[v].data /\ i <= vol[w].data => Writes[i] # v
    BY <1>1, <2>1 DEF IInv, HeldInv
  <2> QED
    BY <2>2, <2>3
<1>2. ASSUME IInv PROVE OneSubordinate
  <2>1. ASSUME NEW v \in Vol PROVE vol[v].launched \in {0, 1}
    BY <1>2 DEF IInv, Local, LaunchedOnce
  <2>2. ASSUME NEW v \in Vol PROVE vol[v].launched <= 1
    BY <2>1
  <2> QED
    BY <2>2 DEF OneSubordinate
<1>3. IInv => GroupIsConsistent
  BY <1>1, <1>2 DEF GroupIsConsistent
<1> QED
  BY <1>3, Invariance, PTL
=============================================================================
