--------------------------- MODULE MCRequestSync ---------------------------
(* Model checking of RequestSync with a few participants.                  *)
EXTENDS RequestSync

=============================================================================
