----------------------------- MODULE MCSnapshot -----------------------------
(* Model checking of Snapshot: two volumes, and an application that writes *)
(* to one and then to the other.                                           *)
EXTENDS Snapshot

CONSTANTS v1, v2

MCWrites == <<v1, v2>>

\* The request of the group, and that of one volume.
MCMayCancel == {Vol, v1}
=============================================================================
