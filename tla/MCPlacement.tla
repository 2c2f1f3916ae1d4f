----------------------------- MODULE MCPlacement -----------------------------
EXTENDS Placement, TLC

CONSTANTS v1, v2, r1, r2, r3, d1, d2, d3, s1, s2, s3, s4, s5

(* Two volumes are placed at the same time, and one of them is deleted.    *)
MCOpOf == [r \in Requests |-> IF r = r3 THEN "DELETE" ELSE "PLACE"]
MCVolOf == [r \in Requests |-> IF r = r2 THEN v2 ELSE v1]
MCNeed == [v \in Volumes |-> IF v = v1 THEN 1 ELSE 2]

=============================================================================
