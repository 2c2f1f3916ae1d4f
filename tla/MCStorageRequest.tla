-------------------------- MODULE MCStorageRequest --------------------------
EXTENDS StorageRequest, TLC

VARIABLE part

\* What the other components request: placement (the first two), the release
\* of unused storage, and the deletion of a node.
Usual == {{"PROVISION", "ATTACH", "FORMAT", "USE"}, {"REATTACH"},
          {"CLOSE", "DETACH", "RELEASE"}, {"RELEASE"}, {"DETACH"}}

\* A plan more that the API accepts, after which storage is attached and unused:
\* the state in which both daemons take a REATTACH.
Odd == {{"PROVISION", "ATTACH", "FORMAT"}, {"REATTACH"}, {"RELEASE"}, {"DETACH"}}

MCPlans == Usual \cup Odd

\* The first part has the usual plans, failing calls and restarts; in the second
\* only deadlines pass.
InPart ==
    IF part = "usual" THEN \A r \in SR : req[r].ops \in Usual \cup {{}}
    ELSE faults + crashes = 0 /\ \A r \in SR : req[r].ops \in Odd \cup {{}}

MCInit == Init /\ part \in {"usual", "odd"}
MCNext == Next /\ UNCHANGED part /\ InPart'
MCSpec == MCInit /\ [][MCNext]_<<vars, part>>

\* Requests, storage, nodes and volumes are interchangeable.
MCSymmetry == Permutations(SR) \cup Permutations(Node) \cup Permutations(Stg) \cup Permutations(Vol)
=============================================================================
