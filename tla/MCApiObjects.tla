---------------------------- MODULE MCApiObjects ----------------------------
EXTENDS ApiObjects, ApiTables, TLC

Clients == Permutations(Client)

\* The two types of every protected reference, the volume whose owner is taken
\* from its service plan, and types whose delete looks at the other one.  Two
\* pairs with many references of the same kind are left to the proof.
MCFocus ==
    ({{p[1], ApiFields[p[1]][p[2]]} : p \in ApiProtected}
        \ {{"vs", "node"}, {"vsr", "pool"}})
    \cup {{"vs", "plan", "account"}, {"snap", "vs"}, {"sr", "vsr"}, {"spa", "vsr"}}
=============================================================================
