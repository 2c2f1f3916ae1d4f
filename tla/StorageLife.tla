----------------------------- MODULE StorageLife -----------------------------
(***************************************************************************)
(* What a StorageRequest promises about each piece of storage, whoever     *)
(* works on it: the stages of its life and the only ways between them.     *)
(* The documentation of the states (src/pkg/common/storage.go) names the   *)
(* values; which of them may follow which is left to the handlers of two   *)
(* daemons.                                                                *)
(*                                                                         *)
(* A piece is overtaken when its move was ended by one daemon while the    *)
(* other still carried it out, and its release was asked for in between:   *)
(* it was detached when the release was accepted, and is released          *)
(* wherever the move has left it.                                          *)
(***************************************************************************)
CONSTANT Stg

VARIABLES life, overtaken

Moves ==
    ({"absent"} \X {"provisioning"})
    \cup ({"provisioning"} \X {"detached", "discarded", "releasing"})
    \cup ({"detached"} \X {"moving", "releasing"})
    \cup ({"moving"} \X {"attached", "detached"})
    \cup ({"attached"} \X {"open", "moving"})
    \cup ({"open"} \X {"attached", "moving"})
    \cup ({"discarded", "releasing"} \X {"absent"})

OvertakenMoves == {"moving", "attached"} \X {"releasing"}

LifeInit == life = [s \in Stg |-> "absent"] /\ overtaken = {}

\* Pieces move one at a time, but for the restart of a node.
LifeNext ==
    /\ DOMAIN life' = Stg
    /\ \A s \in Stg : life'[s] # life[s] =>
          <<life[s], life'[s]>> \in Moves \cup IF s \in overtaken THEN OvertakenMoves ELSE {}

LifeSpec == LifeInit /\ [][LifeNext]_<<life, overtaken>>
=============================================================================
