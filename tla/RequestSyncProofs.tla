------------------------- MODULE RequestSyncProofs -------------------------
(***************************************************************************)
(* BarrierHolds is an invariant of RequestSync for any set of peers, any   *)
(* number of phases and any number of conflicts, restarts and cancels;     *)
(* NoOvertaking too, for as long as it makes a claim.                      *)
(***************************************************************************)
EXTENDS RequestSync, TLAPS

(* A label in the syncPeers map was advertised, and in a phase the VSR of  *)
(* its participant has reached.                                            *)
LabelsReached ==
    \A q \in Peers :
        /\ reached[q] <= phase[q]
        /\ coord.peers[q].state \in Phases
              => coord.peers[q].state <= reached[q]

(* What a participant saw is still true as long as the version it read is  *)
(* the current one.                                                        *)
ViewsCurrent ==
    \A p \in Peers :
        pc[p] = "write" =>
            /\ view[p].ver <= coord.ver
            /\ view[p].ver = coord.ver /\ view[p].sync =>
                  /\ view[p].rec.state = phase[p]
                  /\ \A q \in Peers \ {p} : coord.peers[q].state = phase[p]
            /\ view[p].rec.state \in Phases =>
                  view[p].rec.state = phase[p] \/ view[p].rec.state <= reached[p]

(* A participant synchronizes, or has just done so, in a proper phase.     *)
PhasesProper ==
    \A p \in Peers : pc[p] \in Syncing \cup {"passed"} => phase[p] \in Phases

(* BarrierHolds is not inductive: that all labels were equal when a        *)
(* participant read the map says something of the moment at which its      *)
(* write is applied only because the versions are compared.                *)
Barrier ==
    /\ LabelsReached
    /\ ViewsCurrent
    /\ PhasesProper
    /\ BarrierHolds

IInv == TypeOK /\ Barrier

-----------------------------------------------------------------------------
(* What modifyCoordinator may decide *)

Outcomes == [kind : {"error", "break", "write"}, rec : PeerRecord,
             og : Nat \cup {Unknown}, sync : BOOLEAN]

(* Advertise sees all peers in step only if their labels are those of the  *)
(* own phase, and leaves without a write only if its own label is too.     *)
LEMMA AdvertiseFacts ==
    ASSUME NEW p \in Peers, phase[p] \in Phases,
           NEW peers \in [Peers -> PeerRecord], NEW own \in PeerRecord,
           NEW og \in Nat, NEW chg \in BOOLEAN,
           NEW o \in Advertise(p, peers, own, og, chg)
    PROVE  /\ o \in Outcomes
           /\ o.rec.state = phase[p]
           /\ o.sync => \A q \in Peers \ {p} : peers[q].state = phase[p]
           /\ o.kind = "break" => own.state = phase[p]
<1> DEFINE new == [own EXCEPT !.state = phase[p]]
           others == {peers[q].state : q \in Peers \ {p}}
           last == [new EXCEPT !.gen = @ + 1]
<1>1. /\ own.gen \in Nat /\ phase[p] \in 0 .. NumPhases + 1
      /\ own = [gen |-> own.gen, state |-> own.state]
  BY NumPhasesAssumption DEF PeerRecord, Phases
<1>a. new = [gen |-> own.gen, state |-> phase[p]]
  BY DEF PeerRecord
<1>b. last = [gen |-> own.gen + 1, state |-> phase[p]]
  <2>1. last = [[gen |-> own.gen, state |-> phase[p]] EXCEPT !.gen = @ + 1]
    BY <1>a, Zenon
  <2> QED
    BY <2>1
<1>0. /\ new \in PeerRecord /\ last \in PeerRecord
      /\ new.state = phase[p] /\ last.state = phase[p]
  BY <1>1, <1>a, <1>b DEF PeerRecord
<1>3. new = own => own.state = phase[p]
  BY <1>0
<1>4. others \subseteq {phase[p]} =>
         \A q \in Peers \ {p} : peers[q].state = phase[p]
  OBVIOUS
<1>5. \/ /\ others \subseteq {phase[p]}
         /\ \/ o = Outcome("write", last, og, TRUE)
            \/ new = own /\ o = Outcome("break", new, og, TRUE)
      \/ o = Outcome("error", new, og, FALSE)
      \/ o = Outcome("write", new, og, FALSE)
      \/ new = own /\ o = Outcome("break", new, og, FALSE)
  BY Zenon DEF Advertise
<1> HIDE DEF new, others, last
<1>6. CASE /\ others \subseteq {phase[p]}
           /\ o = Outcome("write", last, og, TRUE)
  BY <1>0, <1>4, <1>6 DEF Outcome, Outcomes
<1>7. CASE /\ others \subseteq {phase[p]}
           /\ new = own /\ o = Outcome("break", new, og, TRUE)
  BY <1>0, <1>3, <1>4, <1>7 DEF Outcome, Outcomes
<1>8. CASE o = Outcome("error", new, og, FALSE)
  BY <1>0, <1>8 DEF Outcome, Outcomes
<1>9. CASE o = Outcome("write", new, og, FALSE)
  BY <1>0, <1>9 DEF Outcome, Outcomes
<1>10. CASE new = own /\ o = Outcome("break", new, og, FALSE)
  BY <1>0, <1>3, <1>10 DEF Outcome, Outcomes
<1> QED
  BY <1>5, <1>6, <1>7, <1>8, <1>9, <1>10

(* The same for the whole modify function, of the current coordinator.     *)
LEMMA ModifyFacts ==
    ASSUME TypeOK, NEW p \in Peers, phase[p] \in Phases,
           NEW o \in modifyCoordinator(p, coord, origGen[p])
    PROVE  /\ o \in Outcomes
           /\ o.rec.state \in {phase[p], coord.peers[p].state}
           /\ o.sync => /\ o.rec.state = phase[p]
                        /\ \A q \in Peers \ {p} :
                               coord.peers[q].state = phase[p]
           /\ o.kind = "break" /\ o.sync => coord.peers[p].state = phase[p]
<1> DEFINE peers == coord.peers
           own == peers[p]
           og == origGen[p]
<1>1. peers \in [Peers -> PeerRecord] /\ own \in PeerRecord
  BY DEF TypeOK
<1>2. og \in Nat \cup {Unknown}
  BY DEF TypeOK
<1>3. CASE o = Outcome("error", own, og, FALSE)
  BY <1>1, <1>2, <1>3 DEF Outcome, Outcomes
<1>4. CASE og # Unknown /\ o \in Advertise(p, peers, own, og, FALSE)
  <2>1. og \in Nat
    BY <1>2, <1>4
  <2> HIDE DEF peers, own, og
  <2>2. /\ o \in Outcomes
        /\ o.rec.state = phase[p]
        /\ o.sync => \A q \in Peers \ {p} : peers[q].state = phase[p]
        /\ o.kind = "break" => own.state = phase[p]
    BY <2>1, <1>1, <1>4, AdvertiseFacts
  <2> QED
    BY <2>2 DEF peers, own
<1>5. ASSUME NEW g \in MaxGen(peers), o \in JoinSession(p, peers, g)
      PROVE  /\ o \in Outcomes
             /\ o.rec.state \in {phase[p], own.state}
             /\ o.sync => /\ o.rec.state = phase[p]
                          /\ \A q \in Peers \ {p} : peers[q].state = phase[p]
             /\ o.kind = "break" /\ o.sync => own.state = phase[p]
  <2> DEFINE caught == [own EXCEPT !.gen = g]
             chg == own.gen # g
  <2> HIDE DEF peers, own
  <2>1. g \in Nat
    BY <1>1 DEF MaxGen, PeerRecord
  <2>2. caught \in PeerRecord /\ caught.state = own.state
    BY <2>1, <1>1 DEF PeerRecord
  <2>3. \/ o \in Advertise(p, peers, caught, g, chg)
        \/ o = Outcome("write", caught, Unknown, FALSE)
        \/ o = Outcome("break", caught, Unknown, FALSE)
    BY <1>5, Zenon DEF JoinSession, own
  <2>4. CASE o \in Advertise(p, peers, caught, g, chg)
    <3> HIDE DEF caught, chg
    <3>1. chg \in BOOLEAN
      BY DEF chg
    <3> QED
      BY <2>1, <2>2, <2>4, <3>1, <1>1, AdvertiseFacts
  <2>5. CASE o = Outcome("write", caught, Unknown, FALSE)
    BY <2>2, <2>5 DEF Outcome, Outcomes
  <2>6. CASE o = Outcome("break", caught, Unknown, FALSE)
    BY <2>2, <2>6 DEF Outcome, Outcomes
  <2> QED
    BY <2>3, <2>4, <2>5, <2>6
<1>6. \/ o = Outcome("error", own, og, FALSE)
      \/ og # Unknown /\ o \in Advertise(p, peers, own, og, FALSE)
      \/ \E g \in MaxGen(peers) : o \in JoinSession(p, peers, g)
  BY Zenon DEF modifyCoordinator
<1> QED
  BY <1>3, <1>4, <1>5, <1>6
-----------------------------------------------------------------------------
(* Type correctness *)

(* A participant that is not about to write has a view of the right type.  *)
LEMMA NoViewType == NoView \in [ver : Nat, rec : PeerRecord, sync : BOOLEAN]
  BY NumPhasesAssumption DEF NoView, PeerRecord, NoState

(* Return gives the variables of a participant values of their types.      *)
LEMMA ReturnType ==
    ASSUME TypeOK, NEW p \in Peers, NEW w \in PCs, Return(p, w)
    PROVE  /\ pc' \in [Peers -> PCs]
           /\ origGen' \in [Peers -> Nat \cup {Unknown}]
           /\ view' \in [Peers -> [ver : Nat, rec : PeerRecord,
                                   sync : BOOLEAN]]
           /\ flagged' \in [Peers -> BOOLEAN]
           /\ canceled' \in [Peers -> BOOLEAN]
  BY NoViewType DEF TypeOK, Return, Unknown

(* Announce adds update and cancel events only.                            *)
LEMMA AnnounceType ==
    ASSUME TypeOK, NEW kind \in {"update", "cancel"}, NEW W, NEW T,
           Announce(kind, W, T)
    PROVE  events' \in [Peers -> SUBSET {"update", "cancel"}]
  BY DEF TypeOK, Announce

(* Unwatch leaves events of the right type.                                *)
LEMMA UnwatchType ==
    ASSUME TypeOK, NEW p \in Peers, Unwatch(p)
    PROVE  events' \in [Peers -> SUBSET {"update", "cancel"}]
  BY DEF TypeOK, Unwatch

(* The database keeps the type of the coordinator when a record is stored. *)
LEMMA StoreType ==
    ASSUME TypeOK, NEW p \in Peers, NEW rec \in PeerRecord, StorePeer(p, rec)
    PROVE  /\ coord' \in [ver : Nat, cancel : BOOLEAN,
                          peers : [Peers -> PeerRecord]]
           /\ coord'.ver = coord.ver + 1
           /\ coord'.peers = [coord.peers EXCEPT ![p] = rec]
<1> DEFINE map == [coord.peers EXCEPT ![p] = rec]
<1>1. coord \in [ver : Nat, cancel : BOOLEAN, peers : [Peers -> PeerRecord]]
  BY DEF TypeOK
<1>2. map \in [Peers -> PeerRecord]
  BY <1>1
<1>3. coord' = [ver |-> coord.ver + 1, cancel |-> coord.cancel, peers |-> map]
  BY <1>1 DEF StorePeer
<1> HIDE DEF map
<1> QED
  BY <1>1, <1>2, <1>3 DEF map

(* A write of the updater keeps the types of the coordinator and history.  *)
LEMMA ApplyType ==
    ASSUME TypeOK, PhasesProper, NEW p \in Peers, WriteApplied(p)
    PROVE  /\ coord' \in [ver : Nat, cancel : BOOLEAN,
                          peers : [Peers -> PeerRecord]]
           /\ coord'.ver = coord.ver + 1
           /\ coord'.peers = [coord.peers EXCEPT ![p] = view[p].rec]
           /\ reached' \in [Peers -> 0 .. NumPhases]
<1>1. view[p].rec \in PeerRecord
  BY DEF TypeOK
<1>2. StorePeer(p, view[p].rec)
  BY DEF WriteApplied
<1>3. phase[p] \in Phases
  BY DEF WriteApplied, PhasesProper, Syncing
<1>4. reached' \in [Peers -> 0 .. NumPhases]
  BY <1>3, NumPhasesAssumption DEF WriteApplied, TypeOK, Phases
<1> QED
  BY <1>1, <1>2, <1>4, StoreType

(* Every step of a participant or of its environment keeps the types.      *)
LEMMA TypeStep ==
    ASSUME TypeOK, PhasesProper, [Next]_vars
    PROVE  TypeOK'
<1> USE DEF PCs
<1>1. ASSUME NEW p \in Peers, Synchronize(p) PROVE TypeOK'
  BY <1>1 DEF Synchronize, TypeOK
<1>2. ASSUME NEW p \in Peers, LoopTop(p) PROVE TypeOK'
  BY <1>2 DEF LoopTop, TypeOK
<1>3. ASSUME NEW p \in Peers, FetchAndModify(p) PROVE TypeOK'
  <2>1. phase[p] \in Phases
    BY <1>3 DEF FetchAndModify, PhasesProper, Syncing
  <2>2. PICK o \in modifyCoordinator(p, coord, origGen[p]) :
          \/ Return(p, "failed") /\ Unwatch(p)
          \/ Return(p, "passed") /\ Unwatch(p)
          \/ /\ pc' = [pc EXCEPT ![p] = "select"]
             /\ origGen' = [origGen EXCEPT ![p] = o.og]
             /\ UNCHANGED <<view, flagged, canceled, events>>
          \/ /\ pc' = [pc EXCEPT ![p] = "write"]
             /\ origGen' = [origGen EXCEPT ![p] = o.og]
             /\ view' = [view EXCEPT ![p] =
                           [ver |-> coord.ver, rec |-> o.rec, sync |-> o.sync]]
             /\ UNCHANGED <<flagged, canceled, events>>
    BY <1>3, Zenon DEF FetchAndModify
  <2>3. o \in Outcomes
    BY <2>1, <2>2, ModifyFacts
  <2>4. UNCHANGED <<coord, phase, localCancel, expired, reached, touches,
                    crashes>>
    BY <1>3 DEF FetchAndModify
  <2>5. CASE Return(p, "failed") /\ Unwatch(p)
    BY <2>4, <2>5, ReturnType, UnwatchType DEF TypeOK
  <2>6. CASE Return(p, "passed") /\ Unwatch(p)
    BY <2>4, <2>6, ReturnType, UnwatchType DEF TypeOK
  <2>7. CASE /\ pc' = [pc EXCEPT ![p] = "select"]
             /\ origGen' = [origGen EXCEPT ![p] = o.og]
             /\ UNCHANGED <<view, flagged, canceled, events>>
    BY <2>3, <2>4, <2>7 DEF TypeOK, Outcomes
  <2>8. CASE /\ pc' = [pc EXCEPT ![p] = "write"]
             /\ origGen' = [origGen EXCEPT ![p] = o.og]
             /\ view' = [view EXCEPT ![p] =
                           [ver |-> coord.ver, rec |-> o.rec, sync |-> o.sync]]
             /\ UNCHANGED <<flagged, canceled, events>>
    BY <2>3, <2>4, <2>8 DEF TypeOK, Outcomes
  <2> QED
    BY <2>2, <2>5, <2>6, <2>7, <2>8
<1>4. ASSUME NEW p \in Peers, WriteOK(p) PROVE TypeOK'
  <2>1. WriteApplied(p) /\ UNCHANGED <<phase, localCancel, expired, touches, crashes>>
    BY <1>4 DEF WriteOK
  <2>2. CASE /\ Return(p, "passed")
             /\ Announce("update", Peers \ {p}, {p})
    BY <2>1, <2>2, ApplyType, ReturnType, AnnounceType DEF TypeOK
  <2>3. CASE /\ pc' = [pc EXCEPT ![p] = "select"]
             /\ view' = [view EXCEPT ![p] = NoView]
             /\ Announce("update", Peers, {})
             /\ UNCHANGED <<origGen, flagged, canceled>>
    BY <2>1, <2>3, ApplyType, AnnounceType, NoViewType DEF TypeOK
  <2> QED
    BY <1>4, <2>2, <2>3 DEF WriteOK
<1>5. ASSUME NEW p \in Peers, WriteConflict(p) PROVE TypeOK'
  BY <1>5, NoViewType DEF WriteConflict, TypeOK
<1>6. ASSUME NEW p \in Peers, SelectNotified(p) PROVE TypeOK'
  <2>1. CASE Return(p, "failed") /\ Unwatch(p)
    BY <1>6, <2>1, ReturnType, UnwatchType DEF SelectNotified, TypeOK
  <2>2. CASE Again(p)
    BY <1>6, <2>2 DEF SelectNotified, Again, TypeOK
  <2> QED
    BY <1>6, <2>1, <2>2 DEF SelectNotified
<1>7. ASSUME NEW p \in Peers, SelectTicker(p) PROVE TypeOK'
  <2>1. CASE Return(p, "failed") /\ Unwatch(p)
    BY <1>7, <2>1, ReturnType, UnwatchType DEF SelectTicker, TypeOK
  <2>2. CASE Again(p)
    BY <1>7, <2>2 DEF SelectTicker, Again, TypeOK
  <2> QED
    BY <1>7, <2>1, <2>2 DEF SelectTicker
<1>8. ASSUME NEW p \in Peers, NextState(p) PROVE TypeOK'
  <2>1. phase[p] \in Phases
    BY <1>8 DEF NextState, PhasesProper
  <2>2. phase' \in [Peers -> 1 .. NumPhases + 1]
    BY <1>8, <2>1, NumPhasesAssumption DEF NextState, TypeOK, Phases
  <2> QED
    BY <1>8, <2>2 DEF NextState, TypeOK
<1>9. ASSUME NEW p \in Peers, SyncAbort(p) PROVE TypeOK'
  <2>1. [coord.peers[p] EXCEPT !.state = Terminated] \in PeerRecord
    BY NumPhasesAssumption DEF TypeOK, PeerRecord, Terminated
  <2>2. CASE UNCHANGED <<coord, events>>
    BY <1>9, <2>2 DEF SyncAbort, TypeOK
  <2>3. CASE /\ StorePeer(p, [coord.peers[p] EXCEPT !.state = Terminated])
             /\ Announce("update", Peers, {})
    BY <1>9, <2>1, <2>3, StoreType, AnnounceType DEF SyncAbort, TypeOK
  <2> QED
    BY <1>9, <2>2, <2>3 DEF SyncAbort
<1>10. CASE Touch
  <2>1. coord' \in [ver : Nat, cancel : BOOLEAN, peers : [Peers -> PeerRecord]]
    BY <1>10 DEF Touch, TypeOK
  <2>2. Announce("update", Peers, {})
    BY <1>10 DEF Touch
  <2> QED
    BY <1>10, <2>1, <2>2, AnnounceType DEF Touch, TypeOK
<1>11. CASE CancelCoordinator
  <2>1. coord' \in [ver : Nat, cancel : BOOLEAN, peers : [Peers -> PeerRecord]]
    <3>1. coord' = [ver |-> coord.ver + 1, cancel |-> TRUE,
                    peers |-> coord.peers]
      BY <1>11 DEF CancelCoordinator, TypeOK
    <3> QED
      BY <3>1 DEF TypeOK
  <2>2. Announce("cancel", Peers, {})
    BY <1>11 DEF CancelCoordinator
  <2> QED
    BY <1>11, <2>1, <2>2, AnnounceType DEF CancelCoordinator, TypeOK
<1>12. CASE Expire
  BY <1>12 DEF Expire, TypeOK
<1>13. ASSUME NEW p \in Peers, CrudeNotify(p) PROVE TypeOK'
  <2>1. PICK e \in events[p] :
          /\ events' = [events EXCEPT ![p] = @ \ {e}]
          /\ \/ UNCHANGED <<flagged, canceled>>
             \/ /\ flagged' = [flagged EXCEPT ![p] = TRUE]
                /\ canceled' = [canceled EXCEPT ![p] = @ \/ e = "cancel"]
    BY <1>13, Zenon DEF CrudeNotify
  <2>2. events' \in [Peers -> SUBSET {"update", "cancel"}]
    BY <2>1 DEF TypeOK
  <2>3. flagged' \in [Peers -> BOOLEAN]
    BY <2>1 DEF TypeOK
  <2>4. (canceled[p] \/ e = "cancel") \in BOOLEAN
    BY Zenon
  <2>5. canceled' \in [Peers -> BOOLEAN]
    BY <2>1, <2>4, Zenon DEF TypeOK
  <2> QED
    BY <1>13, <2>2, <2>3, <2>5 DEF CrudeNotify, TypeOK
<1>14. ASSUME NEW p \in Peers, CancelLocal(p) PROVE TypeOK'
  BY <1>14, AnnounceType DEF CancelLocal, TypeOK
<1>15. ASSUME NEW p \in Peers, HandlerFails(p) PROVE TypeOK'
  BY <1>15 DEF HandlerFails, TypeOK
<1>16. ASSUME NEW p \in Peers, CallFails(p) PROVE TypeOK'
  BY <1>16, ReturnType, UnwatchType DEF CallFails, TypeOK
<1>17. ASSUME NEW p \in Peers, ReplyLost(p) PROVE TypeOK'
  <2>1. /\ WriteApplied(p) /\ Return(p, "failed")
        /\ Announce("update", Peers \ {p}, {p})
        /\ UNCHANGED <<phase, localCancel, expired, touches, crashes>>
    BY <1>17 DEF ReplyLost
  <2> QED
    BY <2>1, ApplyType, ReturnType, AnnounceType DEF TypeOK
<1>18. ASSUME NEW p \in Peers, Crash(p) PROVE TypeOK'
  BY <1>18, ReturnType, UnwatchType DEF Crash, TypeOK
<1>19. CASE UNCHANGED vars
  BY <1>19 DEF vars, TypeOK
<1> QED
  BY <1>1, <1>2, <1>3, <1>4, <1>5, <1>6, <1>7, <1>8, <1>9, <1>10, <1>11,
     <1>12, <1>13, <1>14, <1>15, <1>16, <1>17, <1>18, <1>19
     DEF Next, Step, Environment, Done
-----------------------------------------------------------------------------
(* The barrier *)

(* Steps that write nothing: no view is taken, and a barrier is passed     *)
(* only by a participant whose peers have all reached its phase.           *)
LEMMA QuietStep ==
    ASSUME TypeOK, Barrier, TypeOK',
           UNCHANGED <<coord, phase, reached>>,
           \A q \in Peers : pc'[q] = "write" =>
              pc[q] = "write" /\ view'[q] = view[q],
           \A q \in Peers : pc'[q] \in Syncing \cup {"passed"} =>
              phase[q] \in Phases,
           \A q \in Peers : pc'[q] = "passed" =>
              pc[q] = "passed" \/ \A r \in Peers : phase[q] <= reached[r]
    PROVE  Barrier'
<1>1. LabelsReached'
  BY DEF Barrier, LabelsReached
<1>2. ViewsCurrent'
  BY DEF Barrier, ViewsCurrent
<1>3. PhasesProper'
  BY DEF PhasesProper
<1>4. BarrierHolds'
  BY DEF Barrier, BarrierHolds, passedPhase, TypeOK
<1> QED
  BY <1>1, <1>2, <1>3, <1>4 DEF Barrier

(* Steps that write: the views of the others are out of date from now on.  *)
LEMMA WriteStep ==
    ASSUME TypeOK, Barrier, TypeOK',
           coord'.ver = coord.ver + 1,
           UNCHANGED phase,
           \A q \in Peers : /\ reached[q] <= reached'[q]
                            /\ reached'[q] <= phase[q],
           \A q \in Peers : coord'.peers[q].state \in Phases =>
              coord'.peers[q].state <= reached'[q],
           \A q \in Peers : pc'[q] = "write" =>
              pc[q] = "write" /\ view'[q] = view[q],
           \A q \in Peers : pc'[q] \in Syncing \cup {"passed"} =>
              phase[q] \in Phases,
           \A q \in Peers : pc'[q] = "passed" =>
              pc[q] = "passed" \/ \A r \in Peers : phase[q] <= reached'[r]
    PROVE  Barrier'
<1>1. LabelsReached'
  BY DEF LabelsReached
<1>2. ViewsCurrent'
  <2> SUFFICES ASSUME NEW p \in Peers, pc'[p] = "write"
      PROVE  /\ view[p].ver < coord'.ver
             /\ view[p].rec.state \in Phases =>
                  \/ view[p].rec.state = phase[p]
                  \/ view[p].rec.state <= reached'[p]
    BY DEF ViewsCurrent, TypeOK
  <2>1. pc[p] = "write" /\ view[p].ver <= coord.ver
    BY DEF Barrier, ViewsCurrent
  <2>2. coord.ver \in Nat /\ view[p].ver \in Nat
    BY DEF TypeOK
  <2>3. ASSUME view[p].rec.state \in Phases
        PROVE  \/ view[p].rec.state = phase[p]
               \/ view[p].rec.state <= reached'[p]
    <3>1. \/ view[p].rec.state = phase[p]
          \/ view[p].rec.state <= reached[p]
      BY <2>1, <2>3 DEF Barrier, ViewsCurrent
    <3>2. view[p].rec.state \in Int /\ reached[p] \in Int /\ reached'[p] \in Int
      BY <2>3, NumPhasesAssumption DEF TypeOK, Phases
    <3> QED
      BY <3>1, <3>2
  <2> QED
    BY <2>1, <2>2, <2>3
<1>3. PhasesProper'
  BY DEF PhasesProper
<1>4. BarrierHolds'
  <2> SUFFICES ASSUME NEW p \in Peers, NEW q \in Peers
      PROVE  passedPhase(p)' <= reached'[q]
    BY DEF BarrierHolds
  <2>1. /\ reached[q] \in Int /\ reached'[q] \in Int /\ phase[p] \in Int
        /\ reached[q] <= reached'[q]
    BY NumPhasesAssumption DEF TypeOK
  <2>2. passedPhase(p) <= reached[q]
    BY DEF Barrier, BarrierHolds
  <2> QED
    BY <2>1, <2>2 DEF passedPhase
<1> QED
  BY <1>1, <1>2, <1>3, <1>4 DEF Barrier

(* A write of a participant's own record raises only its own label.        *)
LEMMA ApplyFacts ==
    ASSUME TypeOK, Barrier, NEW p \in Peers, WriteApplied(p)
    PROVE  /\ coord'.ver = coord.ver + 1
           /\ phase[p] \in Phases
           /\ \A q \in Peers : /\ reached[q] <= reached'[q]
                               /\ reached'[q] <= phase[q]
           /\ \A q \in Peers : coord'.peers[q].state \in Phases =>
                 coord'.peers[q].state <= reached'[q]
           /\ view[p].sync => \A q \in Peers : phase[p] <= reached'[q]
<1>1. phase[p] \in Phases
  BY DEF WriteApplied, Barrier, PhasesProper, Syncing
<1>2. /\ coord'.ver = coord.ver + 1
      /\ coord'.peers = [coord.peers EXCEPT ![p] = view[p].rec]
  BY ApplyType DEF Barrier
<1>3. /\ \A q \in Peers : reached[q] \in Int /\ phase[q] \in Int
      /\ \A q \in Peers : reached[q] <= phase[q]
  BY NumPhasesAssumption DEF TypeOK, Barrier, LabelsReached
<1>4. /\ \A q \in Peers \ {p} : reached'[q] = reached[q]
      /\ reached'[p] = IF view[p].rec.state = phase[p]
                       THEN phase[p] ELSE reached[p]
  BY DEF WriteApplied, TypeOK
<1>5. \A q \in Peers : reached[q] <= reached'[q] /\ reached'[q] <= phase[q]
  BY <1>3, <1>4
<1>6. ASSUME NEW q \in Peers, coord'.peers[q].state \in Phases
      PROVE  coord'.peers[q].state <= reached'[q]
  <2>1. CASE q # p
    <3>1. coord'.peers[q] = coord.peers[q]
      BY <1>2, <2>1 DEF TypeOK
    <3> QED
      BY <1>4, <1>6, <2>1, <3>1 DEF Barrier, LabelsReached
  <2>2. CASE q = p
    <3>1. coord'.peers[q] = view[p].rec
      BY <1>2, <2>2 DEF TypeOK
    <3>2. view[p].rec.state = phase[p] \/ view[p].rec.state <= reached[p]
      BY <1>6, <3>1 DEF WriteApplied, Barrier, ViewsCurrent
    <3> QED
      BY <1>3, <1>4, <2>2, <3>1, <3>2
  <2> QED
    BY <2>1, <2>2
<1>7. ASSUME view[p].sync, NEW q \in Peers
      PROVE  phase[p] <= reached'[q]
  <2>1. /\ view[p].rec.state = phase[p]
        /\ \A r \in Peers \ {p} : coord.peers[r].state = phase[p]
    BY <1>7 DEF WriteApplied, Barrier, ViewsCurrent
  <2>2. CASE q = p
    BY <1>3, <1>4, <2>1, <2>2
  <2>3. CASE q # p
    BY <1>1, <1>4, <2>1, <2>3 DEF Barrier, LabelsReached
  <2> QED
    BY <2>2, <2>3
<1> QED
  BY <1>1, <1>2, <1>5, <1>6, <1>7

(* Every step of a participant or of its environment keeps the barrier.    *)
LEMMA BarrierStep ==
    ASSUME TypeOK, Barrier, TypeOK', [Next]_vars
    PROVE  Barrier'
<1> USE DEF Syncing
<1>0. \A q \in Peers : pc[q] \in Syncing \cup {"passed"} => phase[q] \in Phases
  BY DEF Barrier, PhasesProper
<1>1. ASSUME NEW p \in Peers, Synchronize(p) PROVE Barrier'
  BY <1>0, <1>1, QuietStep DEF Synchronize, TypeOK
<1>2. ASSUME NEW p \in Peers, LoopTop(p) PROVE Barrier'
  BY <1>0, <1>2, QuietStep DEF LoopTop, TypeOK
<1>3. ASSUME NEW p \in Peers, FetchAndModify(p) PROVE Barrier'
  <2>1. phase[p] \in Phases
    BY <1>0, <1>3 DEF FetchAndModify
  <2>2. PICK o \in modifyCoordinator(p, coord, origGen[p]) :
          \/ Return(p, "failed")
          \/ o.kind = "break" /\ o.sync /\ Return(p, "passed")
          \/ pc' = [pc EXCEPT ![p] = "select"] /\ UNCHANGED view
          \/ /\ pc' = [pc EXCEPT ![p] = "write"]
             /\ view' = [view EXCEPT ![p] =
                           [ver |-> coord.ver, rec |-> o.rec, sync |-> o.sync]]
    BY <1>3, Zenon DEF FetchAndModify
  <2>3. /\ o \in Outcomes
        /\ o.rec.state \in {phase[p], coord.peers[p].state}
        /\ o.sync => /\ o.rec.state = phase[p]
                     /\ \A q \in Peers \ {p} : coord.peers[q].state = phase[p]
        /\ o.kind = "break" /\ o.sync => coord.peers[p].state = phase[p]
    BY <2>1, <2>2, ModifyFacts
  <2>4. UNCHANGED <<coord, phase, reached>>
    BY <1>3 DEF FetchAndModify
  <2>5. CASE Return(p, "failed")
    BY <1>0, <2>4, <2>5, QuietStep DEF Return, TypeOK
  <2>6. CASE o.kind = "break" /\ o.sync /\ Return(p, "passed")
    <3>1. \A r \in Peers : coord.peers[r].state = phase[p]
      BY <2>3, <2>6
    <3>2. \A r \in Peers : phase[p] <= reached[r]
      BY <2>1, <3>1 DEF Barrier, LabelsReached
    <3> QED
      BY <1>0, <2>1, <2>4, <2>6, <3>2, QuietStep DEF Return, TypeOK
  <2>7. CASE pc' = [pc EXCEPT ![p] = "select"] /\ UNCHANGED view
    BY <1>0, <2>1, <2>4, <2>7, QuietStep DEF TypeOK
  <2>8. CASE /\ pc' = [pc EXCEPT ![p] = "write"]
             /\ view' = [view EXCEPT ![p] =
                           [ver |-> coord.ver, rec |-> o.rec, sync |-> o.sync]]
    <3>1. LabelsReached'
      BY <2>4 DEF Barrier, LabelsReached
    <3>2. PhasesProper'
      BY <1>0, <2>1, <2>4, <2>8 DEF PhasesProper, TypeOK
    <3>3. BarrierHolds'
      BY <2>4, <2>8 DEF Barrier, BarrierHolds, passedPhase, TypeOK
    <3>4. ASSUME NEW q \in Peers \ {p}
          PROVE  (pc'[q] = "write" => pc[q] = "write") /\ view'[q] = view[q]
      BY <2>8 DEF TypeOK
    <3>5. view'[p] = [ver |-> coord.ver, rec |-> o.rec, sync |-> o.sync]
      BY <2>8 DEF TypeOK
    <3>6. o.rec.state \in Phases =>
            o.rec.state = phase[p] \/ o.rec.state <= reached[p]
      BY <2>3 DEF Barrier, LabelsReached
    <3>7. coord.ver \in Nat
      BY DEF TypeOK
    <3>8. ViewsCurrent'
      BY <2>3, <2>4, <3>4, <3>5, <3>6, <3>7 DEF Barrier, ViewsCurrent
    <3> QED
      BY <3>1, <3>2, <3>3, <3>8 DEF Barrier
  <2> QED
    BY <2>2, <2>5, <2>6, <2>7, <2>8
<1>4. ASSUME NEW p \in Peers, WriteOK(p) PROVE Barrier'
  <2>1. WriteApplied(p) /\ UNCHANGED phase
    BY <1>4 DEF WriteOK
  <2>2. CASE view[p].sync /\ Return(p, "passed")
    BY <1>0, <2>1, <2>2, ApplyFacts, WriteStep DEF Return, TypeOK
  <2>3. CASE /\ pc' = [pc EXCEPT ![p] = "select"]
             /\ view' = [view EXCEPT ![p] = NoView]
    BY <1>0, <2>1, <2>3, ApplyFacts, WriteStep DEF TypeOK
  <2> QED
    BY <1>4, <2>2, <2>3 DEF WriteOK
<1>5. ASSUME NEW p \in Peers, WriteConflict(p) PROVE Barrier'
  BY <1>0, <1>5, QuietStep DEF WriteConflict, TypeOK
<1>6. ASSUME NEW p \in Peers, SelectNotified(p) PROVE Barrier'
  BY <1>0, <1>6, QuietStep DEF SelectNotified, Return, Again, TypeOK
<1>7. ASSUME NEW p \in Peers, SelectTicker(p) PROVE Barrier'
  BY <1>0, <1>7, QuietStep DEF SelectTicker, Return, Again, TypeOK
<1>8. ASSUME NEW p \in Peers, NextState(p) PROVE Barrier'
  <2>1. /\ phase[p] \in Phases
        /\ UNCHANGED <<coord, reached, view>>
        /\ phase' = [phase EXCEPT ![p] = @ + 1]
        /\ pc[p] = "passed"
        /\ pc' = [pc EXCEPT ![p] =
                    IF phase[p] = NumPhases THEN "finished" ELSE "idle"]
    BY <1>0, <1>8 DEF NextState
  <2>2. /\ \A q \in Peers \ {p} : phase'[q] = phase[q] /\ pc'[q] = pc[q]
        /\ phase'[p] = phase[p] + 1 /\ pc'[p] \in {"finished", "idle"}
    BY <2>1 DEF TypeOK
  <2>3. \A q \in Peers : phase[q] \in Int /\ reached[q] \in Int
    BY NumPhasesAssumption DEF TypeOK
  <2>4. LabelsReached'
    BY <2>1, <2>2, <2>3 DEF Barrier, LabelsReached
  <2>5. ViewsCurrent'
    BY <2>1, <2>2 DEF Barrier, ViewsCurrent
  <2>6. PhasesProper'
    BY <1>0, <2>2 DEF PhasesProper
  <2>7. BarrierHolds'
    BY <2>1, <2>2, <2>3 DEF Barrier, BarrierHolds, passedPhase
  <2> QED
    BY <2>4, <2>5, <2>6, <2>7 DEF Barrier
<1>9. ASSUME NEW p \in Peers, SyncAbort(p) PROVE Barrier'
  <2>1. /\ UNCHANGED <<phase, reached, view>>
        /\ pc' = [pc EXCEPT ![p] = "aborted"]
    BY <1>9 DEF SyncAbort
  <2>2. CASE UNCHANGED coord
    BY <1>0, <2>1, <2>2, QuietStep DEF TypeOK
  <2>3. CASE StorePeer(p, [coord.peers[p] EXCEPT !.state = Terminated])
    <3> DEFINE rec == [coord.peers[p] EXCEPT !.state = Terminated]
    <3>1. rec \in PeerRecord /\ rec.state = Terminated
      <4>1. coord.peers[p] \in PeerRecord /\ Terminated \in 0 .. NumPhases + 1
        BY NumPhasesAssumption DEF TypeOK, Terminated
      <4>2. rec = [gen |-> coord.peers[p].gen, state |-> Terminated]
        BY <4>1 DEF PeerRecord
      <4> QED
        BY <4>1, <4>2 DEF PeerRecord
    <3> HIDE DEF rec
    <3>2. /\ coord'.ver = coord.ver + 1
          /\ coord'.peers = [coord.peers EXCEPT ![p] = rec]
      BY <2>3, <3>1, StoreType DEF rec
    <3>3. Terminated \notin Phases
      BY NumPhasesAssumption DEF Terminated, Phases
    <3>4. /\ coord'.peers[p].state = Terminated
          /\ \A q \in Peers \ {p} : coord'.peers[q] = coord.peers[q]
      BY <3>1, <3>2 DEF TypeOK
    <3>5. \A q \in Peers : coord'.peers[q].state \in Phases =>
             coord'.peers[q].state <= reached'[q]
      BY <2>1, <3>3, <3>4 DEF Barrier, LabelsReached
    <3>6. \A q \in Peers : /\ reached[q] <= reached'[q]
                           /\ reached'[q] <= phase[q]
      BY <2>1, NumPhasesAssumption DEF Barrier, LabelsReached, TypeOK
    <3> QED
      BY <1>0, <2>1, <3>2, <3>5, <3>6, WriteStep DEF TypeOK
  <2> QED
    BY <1>9, <2>2, <2>3 DEF SyncAbort
<1>10. CASE Touch \/ CancelCoordinator
  <2>1. /\ UNCHANGED <<pc, phase, reached, view>>
        /\ coord'.ver = coord.ver + 1 /\ coord'.peers = coord.peers
    BY <1>10 DEF Touch, CancelCoordinator, TypeOK
  <2>2. \A q \in Peers : /\ reached[q] <= reached'[q]
                         /\ reached'[q] <= phase[q]
    BY <2>1, NumPhasesAssumption DEF Barrier, LabelsReached, TypeOK
  <2> QED
    BY <1>0, <2>1, <2>2, WriteStep DEF Barrier, LabelsReached
<1>11. CASE \/ Expire
            \/ \E p \in Peers : CrudeNotify(p) \/ CancelLocal(p)
  BY <1>0, <1>11, QuietStep DEF Expire, CrudeNotify, CancelLocal
<1>12. ASSUME NEW p \in Peers, HandlerFails(p) \/ CallFails(p)
       PROVE  Barrier'
  BY <1>0, <1>12, QuietStep DEF HandlerFails, CallFails, Return, TypeOK
<1>13. ASSUME NEW p \in Peers, ReplyLost(p) PROVE Barrier'
  <2>1. WriteApplied(p) /\ Return(p, "failed") /\ UNCHANGED phase
    BY <1>13 DEF ReplyLost
  <2> QED
    BY <1>0, <2>1, ApplyFacts, WriteStep DEF Return, TypeOK
<1>14. ASSUME NEW p \in Peers, Crash(p) PROVE Barrier'
  BY <1>0, <1>14, QuietStep DEF Crash, Return, TypeOK
<1>15. CASE UNCHANGED vars
  BY <1>0, <1>15, QuietStep DEF vars
<1> QED
  BY <1>1, <1>2, <1>3, <1>4, <1>5, <1>6, <1>7, <1>8, <1>9, <1>10, <1>11,
     <1>12, <1>13, <1>14, <1>15 DEF Next, Step, Environment, Done

-----------------------------------------------------------------------------
(* The theorems *)

(* Init: nobody has advertised, written or passed anything.                *)
LEMMA InitIInv == Init => IInv
<1> SUFFICES ASSUME Init PROVE IInv
  OBVIOUS
<1>1. [gen |-> 0, state |-> NoState] \in PeerRecord
  BY NumPhasesAssumption DEF PeerRecord, NoState
<1>2. TypeOK
  <2>1. coord \in [ver : Nat, cancel : BOOLEAN, peers : [Peers -> PeerRecord]]
    <3> DEFINE map == [q \in Peers |-> [gen |-> 0, state |-> NoState]]
    <3>1. map \in [Peers -> PeerRecord]
      BY <1>1
    <3>2. coord = [ver |-> 1, cancel |-> FALSE, peers |-> map]
      BY DEF Init
    <3> HIDE DEF map
    <3> QED
      BY <3>1, <3>2
  <2>2. view \in [Peers -> [ver : Nat, rec : PeerRecord, sync : BOOLEAN]]
    BY NoViewType DEF Init
  <2>3. /\ pc \in [Peers -> PCs]
        /\ phase \in [Peers -> 1 .. NumPhases + 1]
        /\ origGen \in [Peers -> Nat \cup {Unknown}]
        /\ reached \in [Peers -> 0 .. NumPhases]
        /\ touches \in Nat /\ crashes \in Nat
    BY NumPhasesAssumption DEF Init, PCs, Unknown
  <2>4. /\ flagged \in [Peers -> BOOLEAN] /\ canceled \in [Peers -> BOOLEAN]
        /\ events \in [Peers -> SUBSET {"update", "cancel"}]
        /\ localCancel \in [Peers -> BOOLEAN] /\ expired \in BOOLEAN
    BY DEF Init
  <2> QED
    BY <2>1, <2>2, <2>3, <2>4 DEF TypeOK
<1>3. Barrier
  BY NumPhasesAssumption
     DEF Init, Barrier, LabelsReached, ViewsCurrent, PhasesProper,
         BarrierHolds, passedPhase, Syncing, Phases, NoState
<1> QED
  BY <1>2, <1>3 DEF IInv

(* Every step keeps the inductive invariant.                               *)
LEMMA NextIInv == IInv /\ [Next]_vars => IInv'
<1> SUFFICES ASSUME IInv, [Next]_vars PROVE IInv'
  OBVIOUS
<1>1. TypeOK'
  BY TypeStep DEF IInv, Barrier
<1>2. Barrier'
  BY <1>1, BarrierStep DEF IInv
<1> QED
  BY <1>1, <1>2 DEF IInv

(* The inductive invariant of the barrier.                                 *)
THEOREM Invariance == Spec => []IInv
  BY InitIInv, NextIInv, PTL DEF Spec

(* Every variable of requestSync and of the syncPeers map keeps its type,  *)
(* the labels in particular: a phase, none, or a terminal state.           *)
THEOREM TypeCorrect == Spec => []TypeOK
<1>1. IInv => TypeOK
  BY DEF IInv
<1> QED
  BY <1>1, Invariance, PTL

(* SyncRequests returns without error in a phase only after every peer has *)
(* advertised that phase, for any set of peers, number of phases, restarts *)
(* and concurrent writes.                                                  *)
THEOREM BarrierCorrect == Spec => []BarrierHolds
<1>1. IInv => BarrierHolds
  BY DEF IInv, Barrier
<1> QED
  BY <1>1, Invariance, PTL

-----------------------------------------------------------------------------
(* Sessions: the generation counters *)

Gen(q) == coord.peers[q].gen
Label(q) == coord.peers[q].state
Joined(p) == origGen[p] # Unknown

(* Nobody joins a session any more.                                        *)
Broken == (coord.cancel /\ Cancelable) \/ \E r \in Peers : Label(r) = Terminated

(* What a write will do that was computed from the current coordinator: a  *)
(* participant catches up with the generation of the others ...            *)
CatchesUp(p, rec, sync) ==
    /\ rec.state = Label(p) /\ ~sync
    /\ Gen(p) < rec.gen /\ \E r \in Peers \ {p} : Gen(r) = rec.gen

(* ... or advertises its phase, and raises the generation if it is the     *)
(* last one to do so.                                                      *)
Labels(p, rec, sync) ==
    /\ rec.state = phase[p] /\ Label(p) # phase[p]
    /\ Gen(p) <= rec.gen
    /\ IF sync THEN rec.gen = phase[p]
       ELSE rec.gen < phase[p] /\ \E r \in Peers \ {p} : Label(r) # phase[p]
    /\ Broken \/ phase[p] - 1 <= rec.gen

Current(p) == pc[p] = "write" /\ view[p].ver = coord.ver

(* Generation k is for those who have advertised phase k, all of them; the *)
(* last one to advertise a phase raises its generation.                    *)
Generations ==
    /\ \A q, r \in Peers : Gen(r) <= reached[q]
    /\ \A q, r \in Peers : q # r => reached[q] - 1 <= Gen(r)
    /\ \A k \in Phases : (\A q \in Peers : Label(q) = k) => \E q \in Peers : k <= Gen(q)

(* A label is the last phase that was advertised, until its participant    *)
(* gives up.  A participant has joined the session of its phase only when  *)
(* the others were ready for it; one that waits has not caught up with the *)
(* next session; an own generation that is behind is about to be written.  *)
InSession(p) ==
    /\ Label(p) = reached[p] \/ (Label(p) = Terminated /\ pc[p] = "aborted")
    /\ \E q \in Peers : passedPhase(p) <= Gen(q)
    /\ pc[p] = "idle" => reached[p] < phase[p]
    /\ pc[p] \in Syncing /\ reached[p] = phase[p] => Joined(p) /\ Gen(p) < phase[p]
    /\ Joined(p) =>
          /\ pc[p] \in Syncing
          /\ \A q \in Peers \ {p} : phase[p] - 1 <= Gen(q)
          /\ Broken \/ phase[p] - 1 <= Gen(p) \/ Current(p)
    /\ Current(p) => IF Joined(p) THEN Labels(p, view[p].rec, view[p].sync)
                     ELSE CatchesUp(p, view[p].rec, view[p].sync)

Sessions == Generations /\ \A p \in Peers : InSession(p)

-----------------------------------------------------------------------------
(* Generations, labels and phases are numbers.                             *)
LEMMA Numbers ==
    ASSUME TypeOK, NEW p \in Peers
    PROVE  /\ Gen(p) \in Nat /\ Label(p) \in 0 .. NumPhases + 1
           /\ phase[p] \in 1 .. NumPhases + 1 /\ reached[p] \in 0 .. NumPhases
           /\ NumPhases \in Nat /\ NumPhases > 0 /\ Terminated = NumPhases + 1
           /\ passedPhase(p) \in Int
<1>1. coord.peers[p] \in PeerRecord
  BY DEF TypeOK
<1> QED
  BY <1>1, NumPhasesAssumption DEF TypeOK, PeerRecord, Gen, Label, Terminated, passedPhase

(* What Advertise makes of the generation.                                 *)
LEMMA AdvertiseGen ==
    ASSUME TypeOK, NEW p \in Peers, NEW own \in PeerRecord, NEW og, NEW chg \in BOOLEAN,
           NEW o \in Advertise(p, coord.peers, own, og, chg)
    PROVE  /\ o.og = og
           /\ o.kind = "break" => ~chg
           /\ o.kind = "write" => chg \/ own.state # phase[p]
           /\ IF o.sync THEN o.rec.gen = own.gen + 1 \/ o.kind # "write"
              ELSE o.rec.gen = own.gen /\ \E r \in Peers \ {p} : Label(r) # phase[p]
<1> DEFINE peers == coord.peers
           new == [own EXCEPT !.state = phase[p]]
           others == {peers[q].state : q \in Peers \ {p}}
           last == [new EXCEPT !.gen = @ + 1]
<1>0. own = [gen |-> own.gen, state |-> own.state] /\ own.gen \in Nat
  BY DEF PeerRecord
<1>1. new = [gen |-> own.gen, state |-> phase[p]]
  BY DEF PeerRecord
<1>2. last = [gen |-> own.gen + 1, state |-> phase[p]]
  <2>1. last = [[gen |-> own.gen, state |-> phase[p]] EXCEPT !.gen = @ + 1]
    BY <1>1, Zenon
  <2> QED
    BY <2>1
<1>3. new.gen = own.gen /\ last.gen = own.gen + 1
  BY <1>1, <1>2
<1>4. new # own => own.state # phase[p]
  BY <1>0, <1>1
<1>5. ~(others \subseteq {phase[p]}) => \E r \in Peers \ {p} : Label(r) # phase[p]
  BY DEF Label
<1>6. \/ /\ others \subseteq {phase[p]}
         /\ \/ (chg \/ new # own) /\ o = Outcome("write", last, og, TRUE)
            \/ ~chg /\ o = Outcome("break", new, og, TRUE)
      \/ /\ ~(others \subseteq {phase[p]})
         /\ \/ o = Outcome("error", new, og, FALSE)
            \/ (chg \/ new # own) /\ o = Outcome("write", new, og, FALSE)
            \/ ~chg /\ o = Outcome("break", new, og, FALSE)
  BY Zenon DEF Advertise
<1> HIDE DEF new, others, last
<1>7. CASE (chg \/ new # own) /\ o = Outcome("write", last, og, TRUE)
  BY <1>3, <1>4, <1>7 DEF Outcome
<1>8. CASE ~chg /\ o = Outcome("break", new, og, TRUE)
  BY <1>8 DEF Outcome
<1>9. CASE ~(others \subseteq {phase[p]})
  <2>1. CASE o = Outcome("error", new, og, FALSE)
    BY <1>3, <1>5, <1>9, <2>1 DEF Outcome
  <2>2. CASE (chg \/ new # own) /\ o = Outcome("write", new, og, FALSE)
    BY <1>3, <1>4, <1>5, <1>9, <2>2 DEF Outcome
  <2>3. CASE ~chg /\ o = Outcome("break", new, og, FALSE)
    BY <1>3, <1>5, <1>9, <2>3 DEF Outcome
  <2> QED
    BY <1>6, <1>9, <2>1, <2>2, <2>3
<1> QED
  BY <1>6, <1>7, <1>8, <1>9

(* What the modify function decides in a session.                          *)
LEMMA ModifyFits ==
    ASSUME TypeOK, Barrier, Sessions, NEW p \in Peers, pc[p] = "fetch",
           NEW o \in modifyCoordinator(p, coord, origGen[p])
    PROVE  \/ o.kind = "error"
           \/ /\ o.og = Unknown => ~Joined(p)
              /\ o.og # Unknown =>
                    /\ \A q \in Peers \ {p} : phase[p] - 1 <= Gen(q)
                    /\ o.kind = "break" => Broken \/ phase[p] - 1 <= Gen(p)
              /\ o.kind = "write" => IF o.og # Unknown THEN Labels(p, o.rec, o.sync)
                                     ELSE CatchesUp(p, o.rec, o.sync)
<1> DEFINE peers == coord.peers
           own == peers[p]
           og == origGen[p]
<1>0. /\ peers \in [Peers -> PeerRecord] /\ own \in PeerRecord
      /\ og \in Nat \cup {Unknown} /\ phase[p] \in Phases
      /\ own.gen = Gen(p) /\ own.state = Label(p)
  BY DEF TypeOK, Barrier, PhasesProper, Syncing, Gen, Label
<1>a. \A q \in Peers :
        /\ Gen(q) \in Nat /\ Label(q) \in 0 .. NumPhases + 1
        /\ phase[q] \in 1 .. NumPhases + 1 /\ reached[q] \in 0 .. NumPhases
        /\ NumPhases \in Nat /\ Terminated = NumPhases + 1
  BY Numbers
<1>b. Generations /\ InSession(p) /\ reached[p] <= phase[p]
  BY DEF Sessions, Barrier, LabelsReached
<1>c. Label(p) = reached[p] /\ passedPhase(p) = phase[p] - 1 /\ ~Current(p)
  BY <1>b DEF InSession, passedPhase, Current
<1>d. \A q, r \in Peers : Gen(r) <= reached[q]
  BY <1>b DEF Generations
<1>1. CASE o = Outcome("error", own, og, FALSE)
  BY <1>1 DEF Outcome
<1>2. CASE /\ Joined(p) /\ o \in Advertise(p, peers, own, og, FALSE)
           /\ ~(coord.cancel /\ Cancelable)
  <2>0. CASE o.kind = "error"
    BY <2>0
  <2> SUFFICES ASSUME o.kind # "error"
               PROVE  /\ o.og # Unknown
                      /\ \A q \in Peers \ {p} : phase[p] - 1 <= Gen(q)
                      /\ o.kind = "break" => Broken \/ phase[p] - 1 <= Gen(p)
                      /\ o.kind = "write" => Labels(p, o.rec, o.sync)
    BY <2>0
  <2>1. og \in Nat
    BY <1>0, <1>2 DEF Joined
  <2> HIDE DEF peers, own, og
  <2>2. /\ o.og = og
        /\ o.kind = "break" => ~FALSE
        /\ o.kind = "write" => FALSE \/ own.state # phase[p]
        /\ IF o.sync THEN o.rec.gen = own.gen + 1 \/ o.kind # "write"
           ELSE o.rec.gen = own.gen /\ \E r \in Peers \ {p} : Label(r) # phase[p]
    <3>1. o \in Advertise(p, coord.peers, own, og, FALSE) /\ own \in PeerRecord
      BY <1>0, <1>2 DEF peers
    <3> QED
      BY <3>1, AdvertiseGen
  <2>3. /\ o \in Outcomes
        /\ o.rec.state = phase[p]
        /\ o.sync => \A q \in Peers \ {p} : peers[q].state = phase[p]
        /\ o.kind = "break" => own.state = phase[p]
    <3>1. /\ o \in Advertise(p, peers, own, og, FALSE) /\ phase[p] \in Phases
          /\ peers \in [Peers -> PeerRecord] /\ own \in PeerRecord
      BY <1>0, <1>2
    <3> QED
      BY <2>1, <3>1, AdvertiseFacts
  <2>4. Broken \/ phase[p] - 1 <= Gen(p)
    BY <1>b, <1>c, <1>2 DEF InSession
  <2>5. ASSUME o.kind = "write" PROVE Labels(p, o.rec, o.sync)
    <3>1. Label(p) # phase[p] /\ reached[p] < phase[p] /\ Gen(p) < phase[p]
      BY <1>0, <1>a, <1>b, <1>c, <1>d, <2>2, <2>5
    <3>2. CASE o.sync
      <4>1. \A q \in Peers : Label(q) # Terminated
        BY <1>0, <1>a, <1>c, <2>3, <3>2 DEF Label, peers, Phases
      <4>2. phase[p] - 1 <= Gen(p)
        BY <1>2, <2>4, <4>1 DEF Broken
      <4>3. o.rec.gen = Gen(p) + 1
        BY <1>0, <2>2, <2>5, <3>2
      <4> QED
        BY <1>a, <2>3, <3>1, <3>2, <4>2, <4>3 DEF Labels
    <3>3. CASE ~o.sync
      <4>1. o.rec.gen = Gen(p) /\ \E r \in Peers \ {p} : Label(r) # phase[p]
        BY <1>0, <2>2, <3>3
      <4> QED
        BY <1>a, <2>3, <2>4, <3>1, <3>3, <4>1 DEF Labels
    <3> QED
      BY <3>2, <3>3
  <2>6. \A q \in Peers \ {p} : phase[p] - 1 <= Gen(q)
    BY <1>b, <1>2 DEF InSession
  <2>7. o.og # Unknown
    BY <1>2, <2>2 DEF Joined, og
  <2> QED
    BY <2>4, <2>5, <2>6, <2>7
<1>3. ASSUME NEW g \in MaxGen(peers), o \in JoinSession(p, peers, g), ~Joined(p)
      PROVE  \/ o.kind = "error"
             \/ /\ o.og # Unknown =>
                    /\ \A q \in Peers \ {p} : phase[p] - 1 <= Gen(q)
                    /\ o.kind = "break" => Broken \/ phase[p] - 1 <= Gen(p)
                /\ o.kind = "write" => IF o.og # Unknown THEN Labels(p, o.rec, o.sync)
                                       ELSE CatchesUp(p, o.rec, o.sync)
  <2> DEFINE caught == [own EXCEPT !.gen = g]
             chg == own.gen # g
  <2>1. (\E r \in Peers : Gen(r) = g) /\ \A q \in Peers : Gen(q) <= g
    BY DEF MaxGen, Gen
  <2>2. g = phase[p] - 1 /\ g \in Nat /\ Label(p) # phase[p]
    <3>1. reached[p] < phase[p]
      BY <1>a, <1>b, <1>3 DEF InSession, Syncing
    <3>2. PICK r \in Peers : phase[p] - 1 <= Gen(r)
      BY <1>b, <1>c DEF InSession
    <3>3. phase[p] - 1 <= g /\ g <= reached[p] /\ g \in Nat
      BY <1>a, <1>d, <2>1, <3>2
    <3> QED
      BY <1>a, <1>c, <3>1, <3>3
  <2> HIDE DEF peers, own
  <2>3. caught \in PeerRecord /\ caught.state = Label(p) /\ caught.gen = g
    BY <1>0, <2>2 DEF PeerRecord
  <2>4. \/ o \in Advertise(p, peers, caught, g, chg) /\ \A q \in Peers \ {p} : peers[q].gen = g
        \/ chg /\ o = Outcome("write", caught, Unknown, FALSE)
        \/ o = Outcome("break", caught, Unknown, FALSE)
    BY <1>3, Zenon DEF JoinSession, own
  <2>5. CASE o \in Advertise(p, peers, caught, g, chg) /\ \A q \in Peers \ {p} : peers[q].gen = g
    <3> HIDE DEF caught, chg
    <3>1. chg \in BOOLEAN
      BY DEF chg
    <3>2. /\ o.og = g
          /\ o.kind = "break" => ~chg
          /\ IF o.sync THEN o.rec.gen = g + 1 \/ o.kind # "write"
             ELSE o.rec.gen = g /\ \E r \in Peers \ {p} : Label(r) # phase[p]
      BY <2>3, <2>5, <3>1, AdvertiseGen DEF peers
    <3>3. o \in Outcomes /\ o.rec.state = phase[p]
      BY <1>0, <2>2, <2>3, <2>5, <3>1, AdvertiseFacts
    <3>4. \A q \in Peers \ {p} : phase[p] - 1 <= Gen(q)
      BY <1>a, <2>2, <2>5 DEF Gen, peers
    <3>5. o.kind = "break" => phase[p] - 1 <= Gen(p)
      BY <1>0, <1>a, <2>2, <3>2 DEF chg
    <3>6. o.kind = "write" => Labels(p, o.rec, o.sync)
      <4>1. Gen(p) <= g /\ g = phase[p] - 1 /\ g \in Nat /\ phase[p] \in Int /\ Gen(p) \in Nat
        BY <1>a, <2>1, <2>2
      <4>2. ASSUME o.kind = "write" PROVE Labels(p, o.rec, o.sync)
        <5>1. o.sync \in BOOLEAN /\ o.rec.gen \in Nat
          BY <3>3 DEF Outcomes, PeerRecord
        <5>2. IF o.sync THEN o.rec.gen = g + 1
              ELSE o.rec.gen = g /\ \E r \in Peers \ {p} : Label(r) # phase[p]
          BY <3>2, <4>2
        <5> QED
          BY <2>2, <3>3, <4>1, <5>1, <5>2 DEF Labels
      <4> QED
        BY <4>2
    <3> QED
      BY <3>2, <3>4, <3>5, <3>6, <2>2 DEF Unknown
  <2>6. CASE chg /\ o = Outcome("write", caught, Unknown, FALSE)
    <3>1. PICK r \in Peers : Gen(r) = g
      BY <2>1
    <3>2. Gen(p) < g /\ r # p
      BY <1>0, <1>a, <2>1, <2>6, <3>1
    <3>3. o.rec = caught /\ o.og = Unknown /\ ~o.sync
      BY <2>6 DEF Outcome
    <3> HIDE DEF caught, chg
    <3>4. CatchesUp(p, o.rec, o.sync)
      BY <2>3, <3>1, <3>2, <3>3 DEF CatchesUp
    <3> QED
      BY <3>3, <3>4
  <2>7. CASE o = Outcome("break", caught, Unknown, FALSE)
    BY <2>7 DEF Outcome
  <2> QED
    BY <2>4, <2>5, <2>6, <2>7
<1>4. \/ o = Outcome("error", own, og, FALSE)
      \/ /\ og # Unknown /\ o \in Advertise(p, peers, own, og, FALSE)
         /\ ~(coord.cancel /\ Cancelable)
      \/ og = Unknown /\ \E g \in MaxGen(peers) : o \in JoinSession(p, peers, g)
  BY Zenon DEF modifyCoordinator
<1> QED
  BY <1>1, <1>2, <1>3, <1>4 DEF Joined

(* The variables of the goroutines other than p.                           *)
Others(p) ==
    \A q \in Peers \ {p} :
        pc'[q] = pc[q] /\ origGen'[q] = origGen[q] /\ view'[q] = view[q]

(* A step that writes nothing concerns the session of one participant.     *)
LEMMA QuietSession ==
    ASSUME TypeOK, Sessions, NEW p \in Peers, UNCHANGED <<coord, phase, reached>>,
           Others(p), InSession(p)'
    PROVE  Sessions'
<1>1. Generations'
  BY DEF Sessions, Generations, Gen, Label
<1>2. ASSUME NEW q \in Peers, q # p PROVE InSession(q)'
  <2>1. pc'[q] = pc[q] /\ origGen'[q] = origGen[q] /\ view'[q] = view[q]
    BY <1>2 DEF Others
  <2>2. InSession(q)
    BY DEF Sessions
  <2> QED
    BY <2>1, <2>2 DEF InSession, Gen, Label, passedPhase, Joined, Broken, Current, Labels, CatchesUp
<1> QED
  BY <1>1, <1>2 DEF Sessions

(* A participant that gives up or has finished, or returns to the animator. *)
LEMMA LeavesSession ==
    ASSUME TypeOK, Sessions, NEW p \in Peers, UNCHANGED <<coord, phase, reached>>,
           pc[p] # "aborted" \/ pc'[p] = "aborted",
           pc'[p] \notin Syncing \cup {"idle", "passed"}, origGen'[p] = Unknown,
           pc[p] # "passed"
    PROVE  InSession(p)'
<1>1. InSession(p)
  BY DEF Sessions
<1> QED
  BY <1>1 DEF InSession, Gen, Label, passedPhase, Joined, Current, Syncing

(* A participant that goes on without a write in its session.              *)
LEMMA StaysInSession ==
    ASSUME TypeOK, Sessions, NEW p \in Peers, UNCHANGED <<coord, phase, reached>>,
           pc[p] \in Syncing, ~Current(p),
           pc'[p] \in {"top", "fetch", "select"}, origGen'[p] = origGen[p]
    PROVE  InSession(p)'
<1>1. InSession(p)
  BY DEF Sessions
<1> QED
  BY <1>1 DEF InSession, Gen, Label, passedPhase, Joined, Broken, Current, Syncing

(* Return leaves the other participants alone.                             *)
LEMMA ReturnIs ==
    ASSUME TypeOK, NEW p \in Peers, NEW w, Return(p, w)
    PROVE  Others(p) /\ pc'[p] = w /\ origGen'[p] = Unknown
  BY DEF TypeOK, Return, Others

-----------------------------------------------------------------------------
(* Writes *)

(* The writes of a participant raise generations only.                     *)
LEMMA Raised ==
    ASSUME TypeOK, Barrier, Sessions, TypeOK', NEW p \in Peers, WriteApplied(p)
    PROVE  /\ \A q \in Peers \ {p} : Gen(q)' = Gen(q) /\ Label(q)' = Label(q) /\ reached'[q] = reached[q]
           /\ Gen(p)' = view[p].rec.gen /\ Label(p)' = view[p].rec.state
           /\ \A q \in Peers : Gen(q) <= Gen(q)' /\ reached[q] <= reached'[q]
           /\ Current(p) /\ coord'.ver = coord.ver + 1
           /\ reached'[p] = IF Joined(p) THEN phase[p] ELSE reached[p]
           /\ Label(p) = reached[p] /\ Label(p)' = reached'[p] /\ Label(p) # Terminated
           /\ Broken => Broken'
           /\ IF Joined(p) THEN Labels(p, view[p].rec, view[p].sync)
              ELSE CatchesUp(p, view[p].rec, view[p].sync)
<1>0. /\ Gen(p) \in Nat /\ Label(p) \in 0 .. NumPhases + 1
      /\ phase[p] \in 1 .. NumPhases + 1 /\ reached[p] \in 0 .. NumPhases
      /\ NumPhases \in Nat /\ NumPhases > 0 /\ Terminated = NumPhases + 1
  BY Numbers
<1>1. /\ coord'.ver = coord.ver + 1
      /\ coord'.peers = [coord.peers EXCEPT ![p] = view[p].rec]
      /\ coord'.cancel = coord.cancel
  <2>1. /\ coord'.ver = coord.ver + 1
        /\ coord'.peers = [coord.peers EXCEPT ![p] = view[p].rec]
    BY ApplyType DEF Barrier
  <2>2. coord'.cancel = coord.cancel
    BY DEF WriteApplied, StorePeer, TypeOK
  <2> QED
    BY <2>1, <2>2
<1>2. /\ \A q \in Peers \ {p} : Gen(q)' = Gen(q) /\ Label(q)' = Label(q)
      /\ Gen(p)' = view[p].rec.gen /\ Label(p)' = view[p].rec.state
  BY <1>1 DEF TypeOK, Gen, Label
<1>3. Current(p) /\ pc[p] \in Syncing
  BY DEF WriteApplied, Current, Syncing
<1>4. InSession(p)
  BY DEF Sessions
<1>5. IF Joined(p) THEN Labels(p, view[p].rec, view[p].sync)
      ELSE CatchesUp(p, view[p].rec, view[p].sync)
  BY <1>3, <1>4 DEF InSession
<1>6. Label(p) = reached[p] /\ Label(p) # Terminated
  BY <1>0, <1>3, <1>4 DEF InSession, Syncing
<1>7. reached' = [reached EXCEPT ![p] = IF view[p].rec.state = phase[p] THEN phase[p] ELSE @]
  BY DEF WriteApplied
<1>8. /\ \A q \in Peers \ {p} : reached'[q] = reached[q]
      /\ reached'[p] = IF view[p].rec.state = phase[p] THEN phase[p] ELSE reached[p]
  BY <1>7 DEF TypeOK
<1>9. /\ reached'[p] = IF Joined(p) THEN phase[p] ELSE reached[p]
      /\ Label(p)' = reached'[p]
  BY <1>2, <1>5, <1>6, <1>8 DEF Labels, CatchesUp
<1>10. \A q \in Peers : Gen(q) <= Gen(q)' /\ reached[q] <= reached'[q]
  <2>1. reached[p] <= phase[p]
    BY DEF Barrier, LabelsReached
  <2>2. view[p].rec.gen \in Nat
    BY DEF TypeOK, PeerRecord
  <2>3. Gen(p) <= view[p].rec.gen
    BY <1>0, <1>5, <2>2 DEF Labels, CatchesUp
  <2>4. \A q \in Peers : Gen(q) \in Nat /\ reached[q] \in 0 .. NumPhases
    BY Numbers
  <2>5. reached[p] <= reached'[p]
    BY <1>0, <1>9, <2>1
  <2> QED
    BY <1>2, <1>8, <2>3, <2>4, <2>5
<1>11. Broken => Broken'
  BY <1>1, <1>2, <1>6 DEF Broken
<1> QED
  BY <1>1, <1>2, <1>3, <1>5, <1>6, <1>8, <1>9, <1>10, <1>11

(* Nobody can write between two writes of a participant that joins: it is  *)
(* the last one to join, and those ahead of it wait for its label.         *)
LEMMA NoConflict ==
    ASSUME TypeOK, Barrier, Sessions, NEW p \in Peers, NEW q \in Peers, q # p,
           Current(p), Current(q), Joined(q)
    PROVE  Broken \/ phase[q] - 1 <= Gen(q)
<1> SUFFICES ASSUME ~Broken, Gen(q) < phase[q] - 1
             PROVE  FALSE
  BY Numbers
<1>a. \A x \in Peers :
        /\ Gen(x) \in Nat /\ Label(x) \in 0 .. NumPhases + 1
        /\ phase[x] \in 1 .. NumPhases + 1 /\ reached[x] \in 0 .. NumPhases
        /\ NumPhases \in Nat /\ Terminated = NumPhases + 1
  BY Numbers
<1>b. InSession(p) /\ InSession(q) /\ Generations /\ reached[p] <= phase[p] /\ reached[q] <= phase[q]
  BY DEF Sessions, Barrier, LabelsReached
<1>c. pc[p] = "write" /\ pc[q] = "write"
  BY DEF Current
<1>d. Label(p) = reached[p] /\ Label(q) = reached[q]
  BY <1>b, <1>c DEF InSession
<1>1. Labels(q, view[q].rec, view[q].sync) /\ phase[q] - 1 <= Gen(p)
  BY <1>b DEF InSession
<1>2. reached[q] < phase[q]
  BY <1>a, <1>b, <1>d, <1>1 DEF Labels
<1>3. phase[q] - 1 <= reached[p]
  <2>1. passedPhase(q) <= reached[p]
    BY DEF Barrier, BarrierHolds
  <2> QED
    BY <1>c, <2>1 DEF passedPhase
<1>4. CASE Joined(p)
  <2>1. Labels(p, view[p].rec, view[p].sync) /\ phase[p] - 1 <= Gen(q)
    BY <1>b, <1>4 DEF InSession
  <2>2. phase[p] < phase[q]
    BY <1>a, <2>1
  <2>3. reached[p] = phase[p]
    BY <1>a, <1>b, <1>3, <2>2
  <2> QED
    BY <1>d, <2>1, <2>3 DEF Labels
<1>5. CASE ~Joined(p)
  <2>1. CatchesUp(p, view[p].rec, view[p].sync)
    BY <1>b, <1>5 DEF InSession
  <2>2. PICK r \in Peers : Gen(p) < Gen(r)
    BY <2>1 DEF CatchesUp
  <2>3. Gen(r) <= reached[q]
    BY <1>b DEF Generations
  <2> QED
    BY <1>a, <1>1, <1>2, <2>2, <2>3
<1> QED
  BY <1>4, <1>5

(* A write of a participant: what it advertises fits the generations.      *)
LEMMA WriteGenerations ==
    ASSUME TypeOK, Barrier, Sessions, TypeOK', NEW p \in Peers, WriteApplied(p)
    PROVE  Generations'
<1>a. \A x \in Peers :
        /\ Gen(x) \in Nat /\ Label(x) \in 0 .. NumPhases + 1
        /\ phase[x] \in 1 .. NumPhases + 1 /\ reached[x] \in 0 .. NumPhases
        /\ Gen(x)' \in Nat /\ reached'[x] \in 0 .. NumPhases
        /\ NumPhases \in Nat /\ Terminated = NumPhases + 1
  <2>1. \A x \in Peers : coord'.peers[x] \in PeerRecord /\ reached'[x] \in 0 .. NumPhases
    BY DEF TypeOK
  <2> QED
    BY <2>1, Numbers DEF Gen, PeerRecord
<1>b. /\ \A q \in Peers \ {p} : Gen(q)' = Gen(q) /\ Label(q)' = Label(q) /\ reached'[q] = reached[q]
      /\ Gen(p)' = view[p].rec.gen /\ Label(p)' = view[p].rec.state
      /\ \A q \in Peers : Gen(q) <= Gen(q)' /\ reached[q] <= reached'[q]
      /\ Current(p)
      /\ reached'[p] = IF Joined(p) THEN phase[p] ELSE reached[p]
      /\ IF Joined(p) THEN Labels(p, view[p].rec, view[p].sync)
         ELSE CatchesUp(p, view[p].rec, view[p].sync)
  BY Raised
<1>c. Generations /\ InSession(p) /\ pc[p] = "write"
  BY <1>b DEF Sessions, Current
<1>1. \A q, r \in Peers : Gen(r)' <= reached'[q]
  <2> SUFFICES ASSUME NEW q \in Peers PROVE Gen(p)' <= reached'[q]
    <3>1. \A q, r \in Peers : r # p => Gen(r)' <= reached'[q]
      BY <1>a, <1>b, <1>c DEF Generations
    <3> QED
      BY <3>1
  <2>1. CASE ~Joined(p)
    <3>1. CatchesUp(p, view[p].rec, view[p].sync)
      BY <1>b, <2>1
    <3>2. PICK r \in Peers : Gen(r) = Gen(p)'
      BY <1>b, <3>1 DEF CatchesUp
    <3>3. Gen(r) <= reached[q]
      BY <1>c DEF Generations
    <3> QED
      BY <1>a, <1>b, <3>2, <3>3
  <2>2. CASE Joined(p)
    <3>1. Labels(p, view[p].rec, view[p].sync) /\ reached'[p] = phase[p]
      BY <1>b, <2>2
    <3>2. view[p].sync => \A r \in Peers : phase[p] <= reached'[r]
      BY ApplyFacts
    <3>3. phase[p] - 1 <= reached[q]
      <4>1. passedPhase(p) <= reached[q]
        BY DEF Barrier, BarrierHolds
      <4> QED
        BY <1>c, <4>1 DEF passedPhase
    <3>4. CASE view[p].sync
      BY <1>a, <1>b, <3>1, <3>2, <3>4 DEF Labels
    <3>5. CASE ~view[p].sync
      BY <1>a, <1>b, <3>1, <3>3, <3>5 DEF Labels
    <3> QED
      BY <3>4, <3>5
  <2> QED
    BY <2>1, <2>2
<1>2. \A q, r \in Peers : q # r => reached'[q] - 1 <= Gen(r)'
  <2>1. \A q, r \in Peers : q # r => reached[q] - 1 <= Gen(r)
    BY <1>c DEF Generations
  <2>2. Joined(p) => \A r \in Peers \ {p} : phase[p] - 1 <= Gen(r)
    BY <1>c DEF InSession
  <2>3. \A r \in Peers \ {p} : reached'[p] - 1 <= Gen(r)'
    BY <1>a, <1>b, <2>1, <2>2
  <2>4. \A q, r \in Peers : q # p /\ q # r => reached'[q] - 1 <= Gen(r)'
    BY <1>a, <1>b, <2>1
  <2> QED
    BY <2>3, <2>4
<1>3. ASSUME NEW k \in Phases, \A q \in Peers : Label(q)' = k
      PROVE  \E q \in Peers : k <= Gen(q)'
  <2>1. CASE ~Joined(p)
    <3>1. Label(p)' = Label(p)
      BY <1>b, <2>1 DEF CatchesUp
    <3>2. \A q \in Peers : Label(q) = k
      BY <1>3, <1>b, <3>1
    <3>3. PICK q \in Peers : k <= Gen(q)
      BY <1>c, <3>2 DEF Generations
    <3> QED
      BY <1>a, <1>b, <3>3 DEF Phases
  <2>2. CASE Joined(p)
    <3>1. Labels(p, view[p].rec, view[p].sync)
      BY <1>b, <2>2
    <3>2. k = phase[p] /\ \A r \in Peers \ {p} : Label(r) = phase[p]
      BY <1>3, <1>b, <3>1 DEF Labels
    <3>3. Gen(p)' = k
      BY <1>b, <3>1, <3>2 DEF Labels
    <3> QED
      BY <1>a, <3>3 DEF Phases
  <2> QED
    BY <2>1, <2>2
<1> QED
  BY <1>1, <1>2, <1>3 DEF Generations

(* A write changes the session of the others only by raising a generation, *)
(* and by making what they would write themselves out of date.             *)
LEMMA WriteOthers ==
    ASSUME TypeOK, Barrier, Sessions, TypeOK', NEW p \in Peers, WriteApplied(p),
           UNCHANGED phase, Others(p), NEW q \in Peers, q # p
    PROVE  InSession(q)'
<1>a. \A x \in Peers :
        /\ Gen(x) \in Nat /\ Label(x) \in 0 .. NumPhases + 1
        /\ phase[x] \in 1 .. NumPhases + 1 /\ reached[x] \in 0 .. NumPhases
        /\ Gen(x)' \in Nat /\ passedPhase(x) \in Int
  <2>1. \A x \in Peers : coord'.peers[x] \in PeerRecord
    BY DEF TypeOK
  <2> QED
    BY <2>1, Numbers DEF Gen, PeerRecord
<1>b. /\ \A x \in Peers \ {p} : Gen(x)' = Gen(x) /\ Label(x)' = Label(x) /\ reached'[x] = reached[x]
      /\ \A x \in Peers : Gen(x) <= Gen(x)'
      /\ Current(p) /\ coord'.ver = coord.ver + 1
      /\ Broken => Broken'
  BY Raised
<1>c. InSession(q) /\ pc'[q] = pc[q] /\ origGen'[q] = origGen[q] /\ view'[q] = view[q]
      /\ phase'[q] = phase[q] /\ Joined(q)' = Joined(q) /\ passedPhase(q)' = passedPhase(q)
  BY DEF Sessions, Others, Joined, passedPhase
<1>d. Gen(q)' = Gen(q) /\ Label(q)' = Label(q) /\ reached'[q] = reached[q]
  BY <1>b
<1>1. ~Current(q)'
  <2>1. pc[q] = "write" => view[q].ver <= coord.ver
    BY DEF Barrier, ViewsCurrent
  <2>2. view[q].ver \in Nat /\ coord.ver \in Nat
    BY DEF TypeOK
  <2> QED
    BY <1>b, <1>c, <2>1, <2>2 DEF Current
<1>2. \E x \in Peers : passedPhase(q)' <= Gen(x)'
  <2>1. PICK x \in Peers : passedPhase(q) <= Gen(x)
    BY <1>c DEF InSession
  <2> QED
    BY <1>a, <1>b, <1>c, <2>1
<1>3. ASSUME Joined(q)
      PROVE  /\ pc'[q] \in Syncing
             /\ \A x \in Peers \ {q} : phase'[q] - 1 <= Gen(x)'
             /\ Broken' \/ phase'[q] - 1 <= Gen(q)' \/ Current(q)'
  <2>1. \A x \in Peers \ {q} : phase[q] - 1 <= Gen(x)
    BY <1>c, <1>3 DEF InSession
  <2>2. \A x \in Peers \ {q} : phase'[q] - 1 <= Gen(x)'
    BY <1>a, <1>b, <1>c, <2>1
  <2>3. Broken \/ phase[q] - 1 <= Gen(q) \/ Current(q)
    BY <1>c, <1>3 DEF InSession
  <2>4. Broken \/ phase[q] - 1 <= Gen(q)
    BY <1>b, <1>3, <2>3, NoConflict
  <2> QED
    BY <1>b, <1>c, <1>d, <1>3, <2>2, <2>4 DEF InSession
<1>4. /\ Label(q)' = reached'[q] \/ (Label(q)' = Terminated /\ pc'[q] = "aborted")
      /\ pc'[q] = "idle" => reached'[q] < phase'[q]
      /\ pc'[q] \in Syncing /\ reached'[q] = phase'[q] => Joined(q)' /\ Gen(q)' < phase'[q]
  BY <1>c, <1>d DEF InSession
<1> QED
  BY <1>1, <1>2, <1>3, <1>4, <1>c DEF InSession

(* A participant after its own write.                                      *)
LEMMA WriteOwn ==
    ASSUME TypeOK, Barrier, Sessions, TypeOK', NEW p \in Peers, WriteApplied(p),
           UNCHANGED phase,
           \/ pc'[p] = "select" /\ ~view[p].sync /\ origGen'[p] = origGen[p]
           \/ pc'[p] = "passed" /\ view[p].sync /\ origGen'[p] = Unknown
           \/ pc'[p] = "failed" /\ origGen'[p] = Unknown
    PROVE  InSession(p)'
<1>a. \A x \in Peers :
        /\ Gen(x) \in Nat /\ Label(x) \in 0 .. NumPhases + 1
        /\ phase[x] \in 1 .. NumPhases + 1 /\ reached[x] \in 0 .. NumPhases
        /\ Gen(x)' \in Nat /\ passedPhase(x) \in Int
  <2>1. \A x \in Peers : coord'.peers[x] \in PeerRecord
    BY DEF TypeOK
  <2> QED
    BY <2>1, Numbers DEF Gen, PeerRecord
<1>b. /\ Gen(p)' = view[p].rec.gen
      /\ \A x \in Peers : Gen(x) <= Gen(x)'
      /\ Current(p)
      /\ reached'[p] = IF Joined(p) THEN phase[p] ELSE reached[p]
      /\ Label(p)' = reached'[p]
      /\ Broken => Broken'
      /\ IF Joined(p) THEN Labels(p, view[p].rec, view[p].sync)
         ELSE CatchesUp(p, view[p].rec, view[p].sync)
  BY Raised
<1>c. InSession(p) /\ phase'[p] = phase[p] /\ pc[p] = "write" /\ ~Current(p)'
      /\ reached[p] <= phase[p]
  BY <1>b DEF Sessions, Current, Barrier, LabelsReached
<1>d. PICK r \in Peers : phase[p] - 1 <= Gen(r)
  BY <1>c DEF InSession, passedPhase
<1>1. CASE pc'[p] = "select" /\ ~view[p].sync /\ origGen'[p] = origGen[p]
  <2>1. Joined(p)' = Joined(p) /\ passedPhase(p)' = phase[p] - 1 /\ pc'[p] \in Syncing
        /\ pc[p] \in Syncing
    BY <1>1, <1>c DEF Joined, passedPhase, Syncing
  <2>2. passedPhase(p)' <= Gen(r)'
    BY <1>a, <1>b, <1>d, <2>1
  <2>3. CASE ~Joined(p)
    <3>1. reached'[p] # phase'[p]
      BY <1>b, <1>c, <2>1, <2>3 DEF InSession
    <3> QED
      BY <1>1, <1>b, <1>c, <2>1, <2>2, <2>3, <3>1 DEF InSession
  <2>4. CASE Joined(p)
    <3>1. Gen(p)' < phase[p] /\ (Broken \/ phase[p] - 1 <= Gen(p)')
      BY <1>1, <1>b, <2>4 DEF Labels
    <3>2. \A x \in Peers \ {p} : phase[p] - 1 <= Gen(x)'
      BY <1>a, <1>b, <1>c, <2>4 DEF InSession
    <3> QED
      BY <1>1, <1>b, <1>c, <2>1, <2>2, <2>4, <3>1, <3>2 DEF InSession
  <2> QED
    BY <2>3, <2>4
<1>2. CASE pc'[p] = "passed" /\ view[p].sync /\ origGen'[p] = Unknown
  <2>1. ~Joined(p)' /\ passedPhase(p)' = phase[p] /\ pc'[p] \notin Syncing
    BY <1>2, <1>c DEF Joined, passedPhase, Syncing
  <2>2. Gen(p)' = phase[p]
    BY <1>2, <1>b DEF Labels, CatchesUp
  <2> QED
    BY <1>2, <1>a, <1>b, <1>c, <2>1, <2>2 DEF InSession
<1>3. CASE pc'[p] = "failed" /\ origGen'[p] = Unknown
  <2>1. ~Joined(p)' /\ passedPhase(p)' = phase[p] - 1 /\ pc'[p] \notin Syncing
    BY <1>3, <1>c DEF Joined, passedPhase, Syncing
  <2>2. passedPhase(p)' <= Gen(r)'
    BY <1>a, <1>b, <1>d, <2>1
  <2> QED
    BY <1>3, <1>b, <1>c, <2>1, <2>2 DEF InSession
<1> QED
  BY <1>1, <1>2, <1>3

(* Together.                                                               *)
LEMMA WriteSession ==
    ASSUME TypeOK, Barrier, Sessions, TypeOK', NEW p \in Peers, WriteApplied(p),
           UNCHANGED phase, Others(p),
           \/ pc'[p] = "select" /\ ~view[p].sync /\ origGen'[p] = origGen[p]
           \/ pc'[p] = "passed" /\ view[p].sync /\ origGen'[p] = Unknown
           \/ pc'[p] = "failed" /\ origGen'[p] = Unknown
    PROVE  Sessions'
<1>1. Generations'
  BY WriteGenerations
<1>2. InSession(p)'
  BY WriteOwn
<1>3. \A q \in Peers : q # p => InSession(q)'
  BY WriteOthers
<1> QED
  BY <1>1, <1>2, <1>3 DEF Sessions

(* A step that leaves generations, labels and phases as they are, and      *)
(* makes every write that was computed before out of date.                 *)
LEMMA OutOfDate ==
    ASSUME TypeOK, Barrier, Sessions, coord'.ver = coord.ver + 1,
           UNCHANGED <<phase, reached>>, Broken',
           NEW p \in Peers, Others(p),
           \A q \in Peers : Gen(q)' = Gen(q) /\ (Label(q)' = Label(q) \/ q = p),
           \/ /\ Label(p)' = Label(p) /\ pc'[p] = pc[p] /\ origGen'[p] = origGen[p]
              /\ view'[p] = view[p]
           \/ Label(p)' = Terminated /\ pc[p] = "failed" /\ pc'[p] = "aborted"
              /\ origGen'[p] = origGen[p]
    PROVE  Sessions'
<1>a. Terminated \notin Phases
  BY NumPhasesAssumption DEF Terminated, Phases
<1>1. Generations'
  <2>1. \A q, r \in Peers : Gen(r)' <= reached'[q] /\ (q # r => reached'[q] - 1 <= Gen(r)')
    BY DEF Sessions, Generations
  <2>2. ASSUME NEW k \in Phases, \A q \in Peers : Label(q)' = k
        PROVE  \E q \in Peers : k <= Gen(q)'
    <3>1. \A q \in Peers : Label(q) = k
      BY <1>a, <2>2
    <3> QED
      BY <3>1 DEF Sessions, Generations
  <2> QED
    BY <2>1, <2>2 DEF Generations
<1>2. ASSUME NEW q \in Peers PROVE InSession(q)'
  <2>1. InSession(q) /\ phase'[q] = phase[q] /\ reached'[q] = reached[q] /\ Gen(q)' = Gen(q)
    BY DEF Sessions
  <2>2. \/ Label(q)' = Label(q) /\ pc'[q] = pc[q] /\ origGen'[q] = origGen[q] /\ view'[q] = view[q]
        \/ Label(q)' = Terminated /\ pc[q] = "failed" /\ pc'[q] = "aborted" /\ origGen'[q] = origGen[q]
    BY DEF Others
  <2>3. ~Current(q)'
    <3>1. pc[q] = "write" => view[q].ver <= coord.ver
      BY DEF Barrier, ViewsCurrent
    <3>2. view[q].ver \in Nat /\ coord.ver \in Nat
      BY DEF TypeOK
    <3> QED
      BY <2>2, <3>1, <3>2 DEF Current
  <2>4. passedPhase(q)' = passedPhase(q) /\ Joined(q)' = Joined(q)
    BY <2>1, <2>2 DEF passedPhase, Joined
  <2>5. \E r \in Peers : passedPhase(q)' <= Gen(r)'
    BY <2>1, <2>4 DEF InSession
  <2>6. Joined(q)' => /\ pc'[q] \in Syncing
                      /\ \A r \in Peers \ {q} : phase'[q] - 1 <= Gen(r)'
                      /\ Broken' \/ phase'[q] - 1 <= Gen(q)' \/ Current(q)'
    BY <2>1, <2>2, <2>4 DEF InSession, Syncing
  <2>7. /\ Label(q)' = reached'[q] \/ (Label(q)' = Terminated /\ pc'[q] = "aborted")
        /\ pc'[q] = "idle" => reached'[q] < phase'[q]
        /\ pc'[q] \in Syncing /\ reached'[q] = phase'[q] => Joined(q)' /\ Gen(q)' < phase'[q]
    BY <2>1, <2>2, <2>4 DEF InSession, Syncing
  <2> QED
    BY <2>3, <2>5, <2>6, <2>7 DEF InSession
<1> QED
  BY <1>1, <1>2 DEF Sessions

(* The fetch of the coordinator and the modify function.                   *)
LEMMA FetchSession ==
    ASSUME TypeOK, Barrier, Sessions, NEW p \in Peers, FetchAndModify(p)
    PROVE  Sessions'
<1>1. UNCHANGED <<coord, phase, reached>> /\ pc[p] = "fetch"
  BY DEF FetchAndModify
<1>2. PICK o \in modifyCoordinator(p, coord, origGen[p]) :
        \/ o.kind = "error" /\ Return(p, "failed")
        \/ o.kind = "break" /\ o.sync /\ Return(p, "passed")
        \/ /\ o.kind = "break" /\ pc' = [pc EXCEPT ![p] = "select"]
           /\ origGen' = [origGen EXCEPT ![p] = o.og] /\ UNCHANGED view
        \/ /\ o.kind = "write" /\ pc' = [pc EXCEPT ![p] = "write"]
           /\ origGen' = [origGen EXCEPT ![p] = o.og]
           /\ view' = [view EXCEPT ![p] =
                         [ver |-> coord.ver, rec |-> o.rec, sync |-> o.sync]]
  BY Zenon DEF FetchAndModify
<1>3. phase[p] \in Phases
  BY <1>1 DEF Barrier, PhasesProper, Syncing
<1>4. InSession(p) /\ Generations
  BY DEF Sessions
<1>5. CASE o.kind = "error" /\ Return(p, "failed")
  <2>1. Others(p) /\ pc'[p] = "failed" /\ origGen'[p] = Unknown
    BY <1>5, ReturnIs
  <2>2. InSession(p)'
    BY <1>1, <2>1, LeavesSession DEF Syncing
  <2> QED
    BY <1>1, <2>1, <2>2, QuietSession
<1>6. CASE o.kind = "break" /\ o.sync /\ Return(p, "passed")
  <2>1. Others(p) /\ pc'[p] = "passed" /\ origGen'[p] = Unknown
    BY <1>6, ReturnIs
  <2>2. \A q \in Peers : Label(q) = phase[p]
    <3>1. /\ o \in Outcomes
          /\ o.rec.state \in {phase[p], coord.peers[p].state}
          /\ o.sync => /\ o.rec.state = phase[p]
                       /\ \A q \in Peers \ {p} : coord.peers[q].state = phase[p]
          /\ o.kind = "break" /\ o.sync => coord.peers[p].state = phase[p]
      BY <1>3, ModifyFacts
    <3> QED
      BY <1>6, <3>1 DEF Label
  <2>3. \E q \in Peers : phase[p] <= Gen(q)
    BY <1>3, <1>4, <2>2 DEF Generations
  <2>4. InSession(p)'
    BY <1>1, <1>4, <2>1, <2>3 DEF InSession, Gen, Label, passedPhase, Joined, Current, Syncing
  <2> QED
    BY <1>1, <2>1, <2>4, QuietSession
<1>7. CASE \/ /\ o.kind = "break" /\ pc' = [pc EXCEPT ![p] = "select"]
              /\ origGen' = [origGen EXCEPT ![p] = o.og] /\ UNCHANGED view
           \/ /\ o.kind = "write" /\ pc' = [pc EXCEPT ![p] = "write"]
              /\ origGen' = [origGen EXCEPT ![p] = o.og]
              /\ view' = [view EXCEPT ![p] =
                            [ver |-> coord.ver, rec |-> o.rec, sync |-> o.sync]]
  <2>1. /\ o.og = Unknown => ~Joined(p)
        /\ o.og # Unknown =>
              /\ \A q \in Peers \ {p} : phase[p] - 1 <= Gen(q)
              /\ o.kind = "break" => Broken \/ phase[p] - 1 <= Gen(p)
        /\ o.kind = "write" => IF o.og # Unknown THEN Labels(p, o.rec, o.sync)
                               ELSE CatchesUp(p, o.rec, o.sync)
    BY <1>1, <1>7, ModifyFits
  <2>2. /\ Others(p) /\ origGen'[p] = o.og /\ pc'[p] \in {"select", "write"}
        /\ IF o.kind = "break" THEN pc'[p] = "select" ELSE
              pc'[p] = "write" /\ view'[p] = [ver |-> coord.ver, rec |-> o.rec, sync |-> o.sync]
    BY <1>7 DEF TypeOK, Others
  <2>3. /\ \A q \in Peers : Gen(q)' = Gen(q) /\ Label(q)' = Label(q)
        /\ (Broken' <=> Broken) /\ passedPhase(p)' = passedPhase(p) /\ (Joined(p)' <=> o.og # Unknown)
        /\ phase'[p] = phase[p] /\ reached'[p] = reached[p] /\ pc[p] \in Syncing /\ pc'[p] \in Syncing
    BY <1>1, <2>2 DEF Gen, Label, Broken, passedPhase, Joined, Syncing
  <2>4. reached[p] = phase[p] => Joined(p) /\ Gen(p) < phase[p]
    BY <1>4, <2>3 DEF InSession
  <2>5. Current(p)' <=> o.kind = "write"
    BY <1>1, <1>7, <2>2 DEF Current
  <2>6. Current(p)' => IF Joined(p)' THEN Labels(p, view[p].rec, view[p].sync)'
                       ELSE CatchesUp(p, view[p].rec, view[p].sync)'
    <3>1. ASSUME o.kind = "write"
          PROVE  IF Joined(p)' THEN Labels(p, view[p].rec, view[p].sync)'
                 ELSE CatchesUp(p, view[p].rec, view[p].sync)'
      <4>1. view'[p].rec = o.rec /\ view'[p].sync = o.sync
        BY <2>2, <3>1
      <4>2. CASE Joined(p)'
        <5>1. Labels(p, o.rec, o.sync)
          BY <2>1, <2>3, <3>1, <4>2
        <5> QED
          BY <2>3, <4>1, <4>2, <5>1 DEF Labels
      <4>3. CASE ~Joined(p)'
        <5>1. CatchesUp(p, o.rec, o.sync)
          BY <2>1, <2>3, <3>1, <4>3
        <5> QED
          BY <2>3, <4>1, <4>3, <5>1 DEF CatchesUp
      <4> QED
        BY <4>2, <4>3
    <3> QED
      BY <2>5, <3>1
  <2>7. Label(p)' = reached'[p]
    BY <1>1, <1>4, <2>3 DEF InSession
  <2>8. Joined(p)' => /\ \A q \in Peers \ {p} : phase'[p] - 1 <= Gen(q)'
                      /\ Broken' \/ phase'[p] - 1 <= Gen(p)' \/ Current(p)'
    BY <1>7, <2>1, <2>3, <2>5
  <2>9. \E q \in Peers : passedPhase(p)' <= Gen(q)'
    <3>1. PICK q \in Peers : passedPhase(p) <= Gen(q)
      BY <1>4 DEF InSession
    <3> QED
      BY <2>3, <3>1
  <2>10. pc'[p] \in Syncing /\ reached'[p] = phase'[p] => Joined(p)' /\ Gen(p)' < phase'[p]
    BY <2>1, <2>3, <2>4
  <2>11. pc'[p] # "idle"
    BY <2>2
  <2>12. InSession(p)'
    BY <2>3, <2>6, <2>7, <2>8, <2>9, <2>10, <2>11 DEF InSession
  <2> QED
    BY <1>1, <2>2, <2>12, QuietSession
<1> QED
  BY <1>2, <1>5, <1>6, <1>7

(* Restarts and foreign updates are counted.                               *)
LEMMA StaysUndisturbed ==
    ASSUME TypeOK, [Next]_vars, Undisturbed'
    PROVE  Undisturbed /\ ~Touch /\ \A p \in Peers : ~Crash(p)
<1>0. touches \in Nat /\ crashes \in Nat /\ touches' = 0 /\ crashes' = 0
  BY DEF TypeOK, Undisturbed
<1>1. ~Touch
  BY <1>0 DEF Touch
<1>2. \A p \in Peers : ~Crash(p)
  BY <1>0 DEF Crash
<1>3. UNCHANGED <<touches, crashes>>
  <2>1. \A p \in Peers : Step(p) => UNCHANGED <<touches, crashes>>
    BY DEF Step, Synchronize, LoopTop, FetchAndModify, WriteOK, WriteConflict, SelectNotified,
           SelectTicker, NextState, SyncAbort
  <2>2. Environment => UNCHANGED <<touches, crashes>>
    BY <1>1, <1>2 DEF Environment, CancelCoordinator, Expire, CrudeNotify, CancelLocal,
                      HandlerFails, CallFails, ReplyLost
  <2> QED
    BY <2>1, <2>2 DEF Next, Done, vars
<1> QED
  BY <1>0, <1>1, <1>2, <1>3 DEF Undisturbed

(* Every step keeps the sessions.                                          *)
LEMMA SessionStep ==
    ASSUME TypeOK, Barrier, TypeOK', Sessions, [Next]_vars,
           ~Touch, \A p \in Peers : ~Crash(p)
    PROVE  Sessions'
<1>0. \A p \in Peers : InSession(p)
  BY DEF Sessions
<1>1. ASSUME NEW p \in Peers, Synchronize(p) PROVE Sessions'
  <2>1. /\ UNCHANGED <<coord, phase, reached>> /\ Others(p) /\ pc[p] = "idle"
        /\ pc'[p] \in {"top", "failed"} /\ origGen'[p] = origGen[p]
    BY <1>1 DEF Synchronize, TypeOK, Others
  <2>2. InSession(p)'
    <3>1. /\ reached'[p] < phase'[p] /\ passedPhase(p)' = passedPhase(p)
          /\ ~Joined(p)' /\ ~Current(p)' /\ pc'[p] # "idle" /\ Label(p)' = Label(p)
          /\ \A q \in Peers : Gen(q)' = Gen(q)
      BY <1>0, <2>1 DEF InSession, Gen, Label, passedPhase, Joined, Current, Syncing
    <3>2. PICK q \in Peers : passedPhase(p) <= Gen(q)
      BY <1>0 DEF InSession
    <3>3. Label(p)' = reached'[p] /\ reached'[p] # phase'[p]
      <4>1. reached[p] \in Int /\ phase[p] \in Int
        BY Numbers
      <4> QED
        BY <1>0, <2>1, <3>1, <4>1 DEF InSession
    <3> QED
      BY <3>1, <3>2, <3>3 DEF InSession
  <2> QED
    BY <2>1, <2>2, QuietSession
<1>2. ASSUME NEW p \in Peers, LoopTop(p) PROVE Sessions'
  <2>1. /\ UNCHANGED <<coord, phase, reached>> /\ Others(p) /\ pc[p] = "top"
        /\ pc'[p] = "fetch" /\ origGen'[p] = origGen[p]
    BY <1>2 DEF LoopTop, TypeOK, Others
  <2>2. InSession(p)'
    BY <2>1, StaysInSession DEF Syncing, Current
  <2> QED
    BY <2>1, <2>2, QuietSession
<1>3. ASSUME NEW p \in Peers, FetchAndModify(p) PROVE Sessions'
  BY <1>3, FetchSession
<1>4. ASSUME NEW p \in Peers, WriteOK(p) PROVE Sessions'
  <2>1. WriteApplied(p) /\ UNCHANGED phase
    BY <1>4 DEF WriteOK
  <2>2. CASE view[p].sync /\ Return(p, "passed")
    <3>1. Others(p) /\ pc'[p] = "passed" /\ origGen'[p] = Unknown
      BY <2>2, ReturnIs
    <3> QED
      BY <2>1, <2>2, <3>1, WriteSession
  <2>3. CASE /\ ~view[p].sync /\ pc' = [pc EXCEPT ![p] = "select"]
             /\ view' = [view EXCEPT ![p] = NoView] /\ UNCHANGED origGen
    <3>1. Others(p) /\ pc'[p] = "select" /\ origGen'[p] = origGen[p]
      BY <2>3 DEF TypeOK, Others
    <3> QED
      BY <2>1, <2>3, <3>1, WriteSession
  <2> QED
    BY <1>4, <2>2, <2>3 DEF WriteOK
<1>5. ASSUME NEW p \in Peers, WriteConflict(p) PROVE Sessions'
  <2>1. /\ UNCHANGED <<coord, phase, reached>> /\ Others(p) /\ pc[p] = "write" /\ ~Current(p)
        /\ pc'[p] = "fetch" /\ origGen'[p] = origGen[p]
    BY <1>5 DEF WriteConflict, TypeOK, Others, Current
  <2>2. InSession(p)'
    BY <2>1, StaysInSession DEF Syncing
  <2> QED
    BY <2>1, <2>2, QuietSession
<1>6. ASSUME NEW p \in Peers, UNCHANGED <<coord, phase, reached>>, pc[p] \in Syncing,
             Return(p, "failed")
      PROVE  Sessions'
  <2>1. Others(p) /\ pc'[p] = "failed" /\ origGen'[p] = Unknown
    BY <1>6, ReturnIs
  <2>2. InSession(p)'
    BY <1>6, <2>1, LeavesSession DEF Syncing
  <2> QED
    BY <1>6, <2>1, <2>2, QuietSession
<1>7. ASSUME NEW p \in Peers, UNCHANGED <<coord, phase, reached>>, pc[p] = "select", Again(p)
      PROVE  Sessions'
  <2>1. Others(p) /\ pc'[p] = "top" /\ origGen'[p] = origGen[p]
    BY <1>7 DEF Again, TypeOK, Others
  <2>2. InSession(p)'
    BY <1>7, <2>1, StaysInSession DEF Syncing, Current
  <2> QED
    BY <1>7, <2>1, <2>2, QuietSession
<1>8. ASSUME NEW p \in Peers, SelectNotified(p) \/ SelectTicker(p) PROVE Sessions'
  <2>1. /\ UNCHANGED <<coord, phase, reached>> /\ pc[p] = "select"
        /\ Return(p, "failed") \/ Again(p)
    BY <1>8 DEF SelectNotified, SelectTicker
  <2> QED
    BY <1>6, <1>7, <2>1 DEF Syncing
<1>9. ASSUME NEW p \in Peers, NextState(p) PROVE Sessions'
  <2>1. /\ UNCHANGED <<coord, reached, origGen, view>> /\ pc[p] = "passed"
        /\ phase' = [phase EXCEPT ![p] = @ + 1]
        /\ pc' = [pc EXCEPT ![p] = IF phase[p] = NumPhases THEN "finished" ELSE "idle"]
    BY <1>9 DEF NextState
  <2>2. /\ \A q \in Peers \ {p} : phase'[q] = phase[q] /\ pc'[q] = pc[q]
        /\ phase'[p] = phase[p] + 1 /\ pc'[p] \in {"finished", "idle"}
    BY <2>1 DEF TypeOK
  <2>3. Generations'
    BY <2>1 DEF Sessions, Generations, Gen, Label
  <2>4. ASSUME NEW q \in Peers, q # p PROVE InSession(q)'
    <3>1. InSession(q) /\ phase'[q] = phase[q] /\ pc'[q] = pc[q]
      BY <1>0, <2>2, <2>4
    <3> QED
      BY <2>1, <3>1
         DEF InSession, Gen, Label, passedPhase, Joined, Broken, Current, Labels, CatchesUp
  <2>5. InSession(p)'
    <3>1. reached[p] <= phase[p] /\ reached[p] \in Int /\ phase[p] \in Int
      BY Numbers DEF Barrier, LabelsReached
    <3>2. /\ reached'[p] < phase'[p] /\ passedPhase(p)' = passedPhase(p)
          /\ ~Joined(p)' /\ ~Current(p)' /\ pc'[p] \notin Syncing /\ Label(p)' = Label(p)
          /\ \A q \in Peers : Gen(q)' = Gen(q)
      BY <1>0, <2>1, <2>2, <3>1
         DEF InSession, Gen, Label, passedPhase, Joined, Current, Syncing
    <3>3. PICK q \in Peers : passedPhase(p) <= Gen(q)
      BY <1>0 DEF InSession
    <3>4. Label(p)' = reached'[p]
      BY <1>0, <2>1, <3>2 DEF InSession
    <3> QED
      BY <3>2, <3>3, <3>4 DEF InSession
  <2> QED
    BY <2>3, <2>4, <2>5 DEF Sessions
<1>10. ASSUME NEW p \in Peers, HandlerFails(p) PROVE Sessions'
  <2>1. /\ UNCHANGED <<coord, phase, reached>> /\ Others(p) /\ pc[p] = "idle"
        /\ pc'[p] = "failed" /\ origGen'[p] = origGen[p]
    BY <1>10 DEF HandlerFails, TypeOK, Others
  <2>2. origGen'[p] = Unknown
    BY <1>0, <2>1 DEF InSession, Joined, Syncing
  <2>3. InSession(p)'
    BY <2>1, <2>2, LeavesSession DEF Syncing
  <2> QED
    BY <2>1, <2>3, QuietSession
<1>11. ASSUME NEW p \in Peers, CallFails(p) PROVE Sessions'
  <2>1. UNCHANGED <<coord, phase, reached>> /\ pc[p] \in Syncing /\ Return(p, "failed")
    BY <1>11 DEF CallFails, Syncing
  <2> QED
    BY <1>6, <2>1
<1>12. ASSUME NEW p \in Peers, ReplyLost(p) PROVE Sessions'
  <2>1. WriteApplied(p) /\ UNCHANGED phase /\ Return(p, "failed")
    BY <1>12 DEF ReplyLost
  <2>2. Others(p) /\ pc'[p] = "failed" /\ origGen'[p] = Unknown
    BY <2>1, ReturnIs
  <2> QED
    BY <2>1, <2>2, WriteSession
<1>13. ASSUME NEW p \in Peers, SyncAbort(p) PROVE Sessions'
  <2>1. /\ UNCHANGED <<phase, reached, origGen, view>> /\ Others(p)
        /\ pc[p] = "failed" /\ pc'[p] = "aborted"
    BY <1>13 DEF SyncAbort, TypeOK, Others
  <2>2. CASE UNCHANGED coord
    <3>1. origGen'[p] = Unknown
      BY <1>0, <2>1 DEF InSession, Joined, Syncing
    <3>2. InSession(p)'
      BY <2>1, <2>2, <3>1, LeavesSession DEF Syncing
    <3> QED
      BY <2>1, <2>2, <3>2, QuietSession
  <2>3. CASE StorePeer(p, [coord.peers[p] EXCEPT !.state = Terminated])
    <3> DEFINE rec == [coord.peers[p] EXCEPT !.state = Terminated]
    <3>1. rec \in PeerRecord /\ rec.state = Terminated /\ rec.gen = Gen(p)
      <4>1. coord.peers[p] \in PeerRecord /\ Terminated \in 0 .. NumPhases + 1
        BY NumPhasesAssumption DEF TypeOK, Terminated
      <4>2. rec = [gen |-> coord.peers[p].gen, state |-> Terminated]
        BY <4>1 DEF PeerRecord
      <4> QED
        BY <4>1, <4>2 DEF PeerRecord, Gen
    <3> HIDE DEF rec
    <3>2. /\ coord'.ver = coord.ver + 1
          /\ coord'.peers = [coord.peers EXCEPT ![p] = rec]
      BY <2>3, <3>1, StoreType DEF rec
    <3>3. /\ \A q \in Peers : Gen(q)' = Gen(q) /\ (Label(q)' = Label(q) \/ q = p)
          /\ Label(p)' = Terminated
      BY <3>1, <3>2 DEF TypeOK, Gen, Label
    <3>4. Broken'
      BY <3>3 DEF Broken
    <3>5. origGen'[p] = origGen[p]
      BY <2>1
    <3> QED
      BY <2>1, <3>2, <3>3, <3>4, <3>5, OutOfDate
  <2> QED
    BY <1>13, <2>2, <2>3 DEF SyncAbort
<1>14. CASE CancelCoordinator
  <2>1. /\ UNCHANGED <<pc, phase, reached, origGen, view>> /\ Cancelable
        /\ coord'.ver = coord.ver + 1 /\ coord'.peers = coord.peers /\ coord'.cancel
    BY <1>14 DEF CancelCoordinator, TypeOK
  <2>2. Broken' /\ \A q \in Peers : Gen(q)' = Gen(q) /\ Label(q)' = Label(q)
    BY <2>1 DEF Broken, Gen, Label
  <2>3. PICK p \in Peers : TRUE
    BY PeersAssumption
  <2>4. Others(p)
    BY <2>1 DEF Others
  <2>5. Label(p)' = Label(p) /\ pc'[p] = pc[p] /\ origGen'[p] = origGen[p] /\ view'[p] = view[p]
    BY <2>1, <2>2
  <2>6. \A q \in Peers : Gen(q)' = Gen(q) /\ (Label(q)' = Label(q) \/ q = p)
    BY <2>2
  <2>7. coord'.ver = coord.ver + 1 /\ UNCHANGED <<phase, reached>>
    BY <2>1
  <2> QED
    BY <2>2, <2>4, <2>5, <2>6, <2>7, OutOfDate
<1>15. CASE UNCHANGED <<coord, pc, phase, origGen, view, reached>>
  <2>1. PICK p \in Peers : TRUE
    BY PeersAssumption
  <2>2. Others(p)
    BY <1>15 DEF Others
  <2>3. InSession(p)'
    BY <1>0, <1>15
       DEF InSession, Gen, Label, passedPhase, Joined, Broken, Current, Labels, CatchesUp
  <2> QED
    BY <1>15, <2>2, <2>3, QuietSession
<1>16. CASE Expire \/ (\E p \in Peers : CrudeNotify(p) \/ CancelLocal(p)) \/ UNCHANGED vars
  BY <1>15, <1>16 DEF Expire, CrudeNotify, CancelLocal, vars
<1> QED
  BY <1>1, <1>2, <1>3, <1>4, <1>5, <1>8, <1>9, <1>10, <1>11, <1>12, <1>13, <1>14, <1>16
     DEF Next, Step, Environment, Done

(* Init: nobody has joined a session.                                      *)
LEMMA InitSessions ==
    ASSUME Init
    PROVE  Sessions
<1>1. \A q \in Peers : Gen(q) = 0 /\ Label(q) = 0 /\ reached[q] = 0 /\ phase[q] = 1 /\ pc[q] = "idle"
                       /\ ~Joined(q) /\ ~Current(q) /\ passedPhase(q) = 0
  BY DEF Init, Gen, Label, Joined, Current, passedPhase, NoState
<1>2. Generations
  <2>1. \A k \in Phases : k # 0
    BY DEF Phases
  <2> QED
    BY <1>1, <2>1, PeersAssumption DEF Generations
<1>3. \A q \in Peers : InSession(q)
  BY <1>1 DEF InSession, Syncing
<1> QED
  BY <1>2, <1>3 DEF Sessions

(* As long as no participant restarts and nobody else updates the          *)
(* coordinator, no participant advertises a phase while another one waits  *)
(* in an earlier phase.  Of a participant that has advertised phase k + 1  *)
(* the generations of all the others were k before; one that waits in      *)
(* phase k is not in generation k.                                         *)
THEOREM NoOvertakingCorrect == Spec => []NoOvertaking
<1> DEFINE Inv == IInv /\ (Undisturbed => Sessions)
<1>1. Init => Inv
  BY InitIInv, InitSessions
<1>2. Inv /\ [Next]_vars => Inv'
  <2> SUFFICES ASSUME IInv, Undisturbed => Sessions, [Next]_vars
               PROVE  IInv' /\ (Undisturbed' => Sessions')
    OBVIOUS
  <2>1. IInv' /\ TypeOK /\ TypeOK' /\ Barrier
    BY NextIInv DEF IInv
  <2>2. ASSUME Undisturbed' PROVE Sessions'
    <3>1. Undisturbed /\ ~Touch /\ \A p \in Peers : ~Crash(p)
      BY <2>1, <2>2, StaysUndisturbed
    <3> QED
      BY <2>1, <3>1, SessionStep
  <2> QED
    BY <2>1, <2>2
<1>3. Inv => NoOvertaking
  <2> SUFFICES ASSUME TypeOK, Barrier, Sessions, NEW p \in Peers, NEW q \in Peers,
                      pc[q] \in Syncing, reached[q] = phase[q]
               PROVE  reached[p] <= phase[q]
    BY DEF NoOvertaking, IInv
  <2>1. /\ Gen(q) \in Nat /\ reached[p] \in Int /\ phase[q] \in Int
    BY Numbers
  <2>2. Gen(q) < phase[q] /\ (p # q => reached[p] - 1 <= Gen(q))
    BY DEF Sessions, InSession, Generations
  <2> QED
    BY <2>1, <2>2
<1> QED
  BY <1>1, <1>2, <1>3, PTL DEF Spec
=============================================================================
