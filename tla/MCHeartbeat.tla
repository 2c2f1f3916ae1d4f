---- MODULE MCHeartbeat ----
EXTENDS Heartbeat
\* The site a clusterd runs in.
MCSiteOf == [p \in Proc |-> IF p = "b" THEN "B" ELSE "A"]
====
