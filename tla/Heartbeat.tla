----------------------------- MODULE Heartbeat -----------------------------
(***************************************************************************)
(* The heartbeats by which the management service knows which clusters and *)
(* nodes are alive.                                                        *)
(*                                                                         *)
(* An agentd reports to the clusterd of its cluster once a period; the     *)
(* clusterd keeps the time of the last report in memory and sends a        *)
(* consolidated task to centrald, which marks the Cluster and Node         *)
(* objects, times out the nodes the task does not list, and times out      *)
(* clusters that have gone silent.  Before its first beat a clusterd       *)
(* claims the Cluster object with an identifier it keeps in a secret of    *)
(* its orchestrator, so that two clusters cannot answer for one object.    *)
(*                                                                         *)
(* Time is counted in heartbeat periods, and kept as ages: a timestamp is  *)
(* the number of Ticks since, up to MaxAge.  A worker runs once in each    *)
(* period; a task is carried out in the period it was made in, unless it   *)
(* is delayed, up to MaxDelay periods.                                     *)
(***************************************************************************)
EXTENDS Naturals, FiniteSets

CONSTANTS
  Node,         \* the nodes of the cluster that run an agentd
  Proc,         \* the clusterd processes configured with this Cluster object
  SiteOf,       \* the orchestrator cluster in which each of them runs
  Home,         \* the one to which the nodes belong
  TaskEvery,    \* periods between consolidated heartbeats (at least 2)
  ClusterMisses,\* ClusterTimeoutAfterMisses
  MaxDelay, MaxAge, MaxTasks, MaxStops, MaxLost,  \* bounds
  Nothing

ASSUME BoundsAssumption ==
  {TaskEvery, ClusterMisses, MaxDelay, MaxAge, MaxTasks, MaxStops, MaxLost} \subseteq Nat

ASSUME NothingAssumption == Nothing \notin [state : {"MANAGED", "TIMED_OUT", "TEAR_DOWN"},
                                       svc : {"READY", "UNKNOWN"}, age : Nat]

VARIABLES
  cl,      \* the Cluster object
  node,    \* the Node objects, Nothing where there is none
  tasks,   \* tasks that the housekeeping manager has started
  secret,  \* the identifier each orchestrator keeps, Nothing before it is made
  cd,      \* the clusterd processes
  health,  \* nodeHealth of each clusterd: age of the last report, or Nothing
  ag,      \* the agentd processes
  gone,    \* nodes that their orchestrator no longer knows
  deleting,\* nodes for which a NODE_DELETE request was launched
  stops, lost   \* faults so far

vars == <<cl, node, tasks, secret, cd, health, ag, gone, deleting, stops, lost>>

Sites == {SiteOf[p] : p \in Proc}

NoHealth == [n \in Node |-> Nothing]

\* A clusterd after main(): everything in memory is lost.
NewClusterd == [pc |-> "secret", ident |-> Nothing, count |-> 0, ops |-> FALSE,
                since |-> TaskEvery, news |-> FALSE]

NewAgentd == [pc |-> "beat", obj |-> FALSE, count |-> 0]

Init ==
  /\ cl = [state |-> "DEPLOYABLE", ident |-> Nothing, svc |-> "UNKNOWN", age |-> MaxAge]
  /\ node = [n \in Node |-> Nothing]
  /\ tasks = {}
  /\ secret = [s \in Sites |-> Nothing]
  /\ cd = [p \in Proc |-> NewClusterd]
  /\ health = [p \in Proc |-> NoHealth]
  /\ ag = [n \in Node |-> NewAgentd]
  /\ gone = {} /\ deleting = {}
  /\ stops = 0 /\ lost = 0

Older(a) == IF a < MaxAge THEN a + 1 ELSE a

-----------------------------------------------------------------------------
(* clusterd: claiming the Cluster object *)

\* Any failure before the claim is fatal: the process exits, and its
\* orchestrator starts it again, not before the next period.
FatalError(p) ==
  /\ cd' = [cd EXCEPT ![p].pc = "exited"]
  /\ health' = [health EXCEPT ![p] = NoHealth]

\* The secret is read; if there is none an identifier is made and must be saved.
getSavedClusterIdentifier(p) ==
  /\ cd[p].pc = "secret"
  /\ cd' = [cd EXCEPT ![p].pc = IF secret[SiteOf[p]] = Nothing THEN "save" ELSE "claim",
                      ![p].ident = secret[SiteOf[p]]]
  /\ UNCHANGED <<cl, node, tasks, secret, health, ag, gone, deleting, stops, lost>>

\* The identifier is a new UUID: its maker names it.
createAndSaveClusterIdentifier(p) ==
  /\ cd[p].pc = "save"
  /\ IF secret[SiteOf[p]] = Nothing
       THEN /\ secret' = [secret EXCEPT ![SiteOf[p]] = p]
            /\ cd' = [cd EXCEPT ![p].pc = "claim", ![p].ident = p]
            /\ UNCHANGED health
       ELSE FatalError(p) /\ UNCHANGED secret
  /\ UNCHANGED <<cl, node, tasks, ag, gone, deleting, stops, lost>>

\* Mutant: an object that is already managed is claimed whatever its identifier.
MayClaim_Any(p) == TRUE

MayClaim(p) == cl.state = "DEPLOYABLE" \/ cl.ident = cd[p].ident

\* The update is conditional on the version that was read, so it acts on the
\* object as it is.
claimClusterObj(p) ==
  /\ cd[p].pc = "claim"
  /\ IF MayClaim(p)
       THEN /\ cl' = [cl EXCEPT !.ident = IF cl.state = "DEPLOYABLE" THEN cd[p].ident ELSE @,
                                !.state = "MANAGED"]
            /\ cd' = [cd EXCEPT ![p].pc = "beat"]
            /\ UNCHANGED health
       ELSE FatalError(p) /\ UNCHANGED cl
  /\ UNCHANGED <<node, tasks, secret, ag, gone, deleting, stops, lost>>

-----------------------------------------------------------------------------
(* clusterd: the beat *)

ManagedCluster == [cl EXCEPT !.svc = "READY", !.age = 0, !.state = "MANAGED"]

\* Ends the beat of a process whose state operators are made by then.
Beaten(p, c) == [c EXCEPT !.pc = "detect", !.ops = TRUE]

updateClusterObj(p) ==
  /\ cl' = ManagedCluster
  /\ cd' = [cd EXCEPT ![p] = Beaten(p, [@ EXCEPT !.count = 1])]
  /\ UNCHANGED <<node, tasks, secret, health, ag, gone, deleting, stops, lost>>

CookedState(p, n) ==
  IF health[p][n] = Nothing \/ health[p][n] > 1 THEN "UNKNOWN" ELSE "READY"

Missing(p) == {n \in Node : health[p][n] # Nothing /\ CookedState(p, n) = "UNKNOWN"}

Purged(p) == [n \in Node |-> IF n \in Missing(p) THEN Nothing ELSE health[p][n]]

\* A task is due when a record was purged or inserted, or its period has come.
TaskIsDue(p) == Missing(p) # {} \/ cd[p].news \/ cd[p].since >= TaskEvery

NewTask(kind, listed) ==
  [kind |-> kind, age |-> 0, listed |-> listed, msgs |-> IF kind = "timeout" THEN 1 ELSE 0]

\* The records are purged whether or not the task can be created; only a
\* successful creation makes the period start again.
issueConsolidatedHeartbeat(p) ==
  /\ TaskIsDue(p)
  /\ Cardinality(tasks) < MaxTasks
  /\ health' = [health EXCEPT ![p] = Purged(p)]
  /\ LET t == NewTask("beat", {n \in Node : Purged(p)[n] # Nothing}) IN
     \/ /\ tasks' = tasks \cup {t}
        /\ cd' = [cd EXCEPT ![p] = Beaten(p, [@ EXCEPT !.since = 0, !.news = FALSE])]
        /\ UNCHANGED lost
     \/ /\ lost < MaxLost             \* the request, or its answer, is lost
        /\ lost' = lost + 1
        /\ tasks' \in {tasks, tasks \cup {t}}
        /\ cd' = [cd EXCEPT ![p].pc = "idle"]
  /\ UNCHANGED <<cl, node, secret, ag, gone, deleting, stops>>

ClusterBuzz(p) ==
  /\ cd[p].pc = "beat"
  /\ IF cd[p].count = 0
       THEN updateClusterObj(p)
       ELSE \/ issueConsolidatedHeartbeat(p)
            \/ ~TaskIsDue(p) /\ updateClusterObj(p)

\* An update that fails is begun again as after a restart of the count.
ClusterBuzzFails(p) ==
  /\ cd[p].pc = "beat"
  /\ cd[p].count = 0 \/ ~TaskIsDue(p)
  /\ lost < MaxLost
  /\ lost' = lost + 1
  /\ cd' = [cd EXCEPT ![p].pc = "idle", ![p].count = 0]
  /\ UNCHANGED <<cl, node, tasks, secret, health, ag, gone, deleting, stops>>

\* A NODE_DELETE request is launched for a node that timed out and that the
\* orchestrator no longer has, or on which no agentd is to run.
detectTerminatedNodes(p) ==
  /\ cd[p].pc = "detect"
  /\ cd' = [cd EXCEPT ![p].pc = "idle"]
  /\ deleting' = deleting \cup
       {n \in gone : node[n] # Nothing /\ node[n].state = "TIMED_OUT"}
  /\ UNCHANGED <<cl, node, tasks, secret, health, ag, gone, stops, lost>>

-----------------------------------------------------------------------------
(* agentd *)

\* proxyReady: the clusterd that answers for the service of the cluster.
Serves(p) == SiteOf[p] = Home /\ cd[p].pc \in {"beat", "detect", "idle"} /\ cd[p].ops

NodeServiceState(p, n) ==
  /\ health' = [health EXCEPT ![p][n] = 0]
  /\ cd' = [cd EXCEPT ![p].news = @ \/ health[p][n] = Nothing]

ManagedNode == [state |-> "MANAGED", svc |-> "READY", age |-> 0]

AgentDone(n, obj, count) == ag' = [ag EXCEPT ![n] = [pc |-> "idle", obj |-> obj, count |-> count]]

\* The node object is sought through clusterd, and made if there is none; one
\* that is being torn down is not used.
findNodeObj(p, n) ==
  /\ ~ag[n].obj
  /\ \/ /\ node[n] = Nothing
        /\ node' = [node EXCEPT ![n] = ManagedNode]
        /\ NodeServiceState(p, n)
        /\ AgentDone(n, TRUE, 1)
     \/ /\ node[n] # Nothing /\ node[n].state = "TEAR_DOWN"
        /\ AgentDone(n, FALSE, 0)
        /\ UNCHANGED <<node, health, cd>>
     \/ /\ node[n] # Nothing /\ node[n].state # "TEAR_DOWN"
        /\ node' = [node EXCEPT ![n] = ManagedNode]      \* and updateNodeObj
        /\ NodeServiceState(p, n)
        /\ AgentDone(n, TRUE, 1)

\* The full update is sent until one succeeds; clusterd notes the report
\* before it forwards the update, which centrald refuses for a node that is
\* being torn down and cannot find once it was deleted.
updateNodeObj(p, n) ==
  /\ ag[n].obj /\ ag[n].count = 0
  /\ NodeServiceState(p, n)
  /\ \/ /\ node[n] # Nothing /\ node[n].state # "TEAR_DOWN"
        /\ node' = [node EXCEPT ![n] = ManagedNode]
        /\ AgentDone(n, TRUE, 1)
     \/ /\ node[n] # Nothing /\ node[n].state = "TEAR_DOWN"
        /\ AgentDone(n, TRUE, 0)
        /\ UNCHANGED node
     \/ /\ node[n] = Nothing
        /\ AgentDone(n, FALSE, 0)
        /\ UNCHANGED node

\* Afterwards clusterd alone processes the heartbeat.
updateNodeHeartbeatOnly(p, n) ==
  /\ ag[n].obj /\ ag[n].count # 0
  /\ NodeServiceState(p, n)
  /\ AgentDone(n, TRUE, 1)
  /\ UNCHANGED node

AgentBuzz(n) ==
  /\ ag[n].pc = "beat"
  /\ \E p \in Proc :
       Serves(p) /\ (findNodeObj(p, n) \/ updateNodeObj(p, n) \/ updateNodeHeartbeatOnly(p, n))
  /\ UNCHANGED <<cl, tasks, secret, gone, deleting, stops, lost>>

\* No clusterd serves the call (503), or it is lost.
AgentBuzzFails(n) ==
  /\ ag[n].pc = "beat"
  /\ \/ (\A p \in Proc : ~Serves(p)) /\ UNCHANGED lost
     \/ (\E p \in Proc : Serves(p)) /\ lost < MaxLost /\ lost' = lost + 1
  /\ AgentDone(n, ag[n].obj, ag[n].count)
  /\ UNCHANGED <<cl, node, tasks, secret, cd, health, gone, deleting, stops>>

\* The state of the service changed, or its local storage did: the full
\* update is due again.
UpdateState(n) ==
  /\ ag[n].pc = "idle" /\ ag[n].obj /\ ag[n].count # 0
  /\ lost < MaxLost
  /\ lost' = lost + 1
  /\ ag' = [ag EXCEPT ![n].count = 0]
  /\ UNCHANGED <<cl, node, tasks, secret, cd, health, gone, deleting, stops>>

-----------------------------------------------------------------------------
(* centrald *)

\* Mutant: nodes in TEAR_DOWN are updated as the others are.
Updatable_All(n) == node[n] # Nothing

Updatable(n) == node[n] # Nothing /\ node[n].state # "TEAR_DOWN"

\* The nodes whose heartbeat is older than the task's.  Of two times in the
\* same period either may be the earlier one.
OlderNodes(t) ==
  {S \in SUBSET {n \in Node \ t.listed : Updatable(n) /\ node[n].svc # "UNKNOWN"} :
     \A n \in Node \ t.listed : Updatable(n) /\ node[n].svc # "UNKNOWN" =>
       /\ node[n].age > t.age => n \in S
       /\ node[n].age < t.age => n \notin S}

\* The task listed is a heartbeat or a timeout of the cluster; the manager has
\* noted in its messages, before it is executed, that it became active.
isClusterTimeoutTask(t) == t.kind = "timeout" /\ t.msgs = 1

Activated(t) == [t EXCEPT !.msgs = @ + 1]

\* A timeout is abandoned when a heartbeat has come since; TIMED_OUT is
\* entered from MANAGED only.
RacesWithHeartbeat(t) == isClusterTimeoutTask(t) /\ cl.age < t.age + ClusterMisses

updateCluster(t) ==
  [cl EXCEPT !.svc = IF t.kind = "timeout" THEN "UNKNOWN" ELSE "READY",
             !.age = t.age,
             !.state = IF t.kind = "timeout" /\ @ = "MANAGED" THEN "TIMED_OUT" ELSE @]

\* The nodes listed are updated in bulk, then S is timed out.
updateNodes(t, S) ==
  [n \in Node |->
     IF n \in t.listed /\ Updatable(n) THEN [state |-> "MANAGED", svc |-> "READY", age |-> t.age]
     ELSE IF n \in S THEN [node[n] EXCEPT !.state = "TIMED_OUT", !.svc = "UNKNOWN"]
     ELSE node[n]]

\* Under the locks of nodes and clusters.
TaskExec(t) ==
  /\ tasks' = tasks \ {t}
  /\ LET aborts == RacesWithHeartbeat(Activated(t)) IN
     /\ cl' = IF aborts THEN cl ELSE updateCluster(t)
     /\ node' \in IF aborts THEN {node} ELSE {updateNodes(t, S) : S \in OlderNodes(t)}
  /\ UNCHANGED <<secret, cd, health, ag, gone, deleting, stops, lost>>

getTimedoutClusters == cl.svc # "UNKNOWN" /\ cl.age > ClusterMisses

TimeoutClusters ==
  /\ getTimedoutClusters
  /\ \A t \in tasks : t.kind # "timeout"      \* it is checked once a period
  /\ Cardinality(tasks) < MaxTasks
  /\ tasks' = tasks \cup {NewTask("timeout", {})}
  /\ UNCHANGED <<cl, node, secret, cd, health, ag, gone, deleting, stops, lost>>

-----------------------------------------------------------------------------
(* The environment *)

\* The request puts its node in TEAR_DOWN, whatever it has become since, and
\* deletes it in the end.
teardownNode(n) ==
  /\ n \in deleting /\ node[n].state # "TEAR_DOWN"
  /\ node' = [node EXCEPT ![n].state = "TEAR_DOWN"]
  /\ UNCHANGED <<cl, tasks, secret, cd, health, ag, gone, deleting, stops, lost>>

deleteNode(n) ==
  /\ n \in deleting /\ node[n].state = "TEAR_DOWN"
  /\ node' = [node EXCEPT ![n] = Nothing]
  /\ deleting' = deleting \ {n}
  /\ UNCHANGED <<cl, tasks, secret, cd, health, ag, gone, stops, lost>>

StopClusterd(p) ==
  /\ cd[p].pc \notin {"exited", "down"} /\ stops < MaxStops
  /\ stops' = stops + 1
  /\ FatalError(p)
  /\ UNCHANGED <<cl, node, tasks, secret, ag, gone, deleting, lost>>

StartClusterd(p) ==
  /\ cd[p].pc = "down"
  /\ cd' = [cd EXCEPT ![p] = NewClusterd]
  /\ UNCHANGED <<cl, node, tasks, secret, health, ag, gone, deleting, stops, lost>>

StopAgentd(n) ==
  /\ ag[n].pc # "down" /\ stops < MaxStops
  /\ stops' = stops + 1
  /\ ag' = [ag EXCEPT ![n].pc = "down"]
  /\ gone' \in {gone, gone \cup {n}}           \* with its node, perhaps
  /\ UNCHANGED <<cl, node, tasks, secret, cd, health, deleting, lost>>

StartAgentd(n) ==
  /\ ag[n].pc = "down"
  /\ ag' = [ag EXCEPT ![n] = NewAgentd]
  /\ gone' = gone \ {n}                       \* its node may have come back
  /\ UNCHANGED <<cl, node, tasks, secret, cd, health, deleting, stops, lost>>

\* A period ends once every process that runs has had its turn in it.  That a
\* task waits for the next period is a fault.
Tick ==
  /\ \A p \in Proc : cd[p].pc \in {"idle", "exited", "down"}
  /\ \A n \in Node : ag[n].pc \in {"idle", "down"}
  /\ \A t \in tasks : t.age < MaxDelay
  /\ tasks = {} \/ lost < MaxLost
  /\ lost' = IF tasks = {} THEN lost ELSE lost + 1
  /\ cl' = [cl EXCEPT !.age = Older(@)]
  /\ node' = [n \in Node |-> IF node[n] = Nothing THEN Nothing
                             ELSE [node[n] EXCEPT !.age = Older(@)]]
  /\ tasks' = {[t EXCEPT !.age = @ + 1] : t \in tasks}
  /\ health' = [p \in Proc |-> [n \in Node |-> IF health[p][n] = Nothing THEN Nothing
                                               ELSE Older(health[p][n])]]
  /\ cd' = [p \in Proc |-> IF cd[p].pc \in {"exited", "down"} THEN [cd[p] EXCEPT !.pc = "down"]
              ELSE [cd[p] EXCEPT !.pc = "beat",
                                 !.since = IF @ < TaskEvery THEN @ + 1 ELSE @]]
  /\ ag' = [n \in Node |-> IF ag[n].pc = "down" THEN ag[n] ELSE [ag[n] EXCEPT !.pc = "beat"]]
  /\ UNCHANGED <<secret, gone, deleting, stops>>

ClusterdStep(p) ==
  \/ getSavedClusterIdentifier(p)
  \/ createAndSaveClusterIdentifier(p)
  \/ claimClusterObj(p)
  \/ ClusterBuzz(p)
  \/ detectTerminatedNodes(p)

CentraldStep == TimeoutClusters \/ \E t \in tasks : TaskExec(t)

Next ==
  \/ \E p \in Proc : ClusterdStep(p) \/ ClusterBuzzFails(p) \/ StopClusterd(p) \/ StartClusterd(p)
  \/ \E n \in Node : AgentBuzz(n) \/ AgentBuzzFails(n) \/ UpdateState(n)
                     \/ teardownNode(n) \/ deleteNode(n)
                     \/ StopAgentd(n) \/ StartAgentd(n)
  \/ CentraldStep
  \/ Tick

\* Workers run once a period while their process does, tasks are carried out,
\* and a request to delete a node ends.  Nothing makes a process start again.
Fairness ==
  /\ \A p \in Proc : WF_vars(ClusterdStep(p))
  /\ \A n \in Node : WF_vars(AgentBuzz(n) \/ AgentBuzzFails(n)) /\ WF_vars(teardownNode(n) \/ deleteNode(n))
  /\ WF_vars(CentraldStep)
  /\ WF_vars(TimeoutClusters)
  /\ WF_vars(Tick)

Spec == Init /\ [][Next]_vars /\ Fairness

-----------------------------------------------------------------------------
NodeRecord == [state : {"MANAGED", "TIMED_OUT", "TEAR_DOWN"}, svc : {"READY", "UNKNOWN"}, age : Nat]
ClusterdRecord ==
  [pc : {"secret", "save", "claim", "beat", "detect", "idle", "exited", "down"},
   ident : Proc \cup {Nothing}, count : {0, 1}, ops : BOOLEAN, since : Nat, news : BOOLEAN]
AgentRecord == [pc : {"beat", "idle", "down"}, obj : BOOLEAN, count : {0, 1}]
TaskRecord == [kind : {"beat", "timeout"}, age : Nat, listed : SUBSET Node, msgs : {0, 1}]

TypeOK ==
  /\ cl \in [state : {"DEPLOYABLE", "MANAGED", "TIMED_OUT"}, ident : Proc \cup {Nothing},
             svc : {"READY", "UNKNOWN"}, age : Nat]
  /\ node \in [Node -> NodeRecord \cup {Nothing}]
  /\ tasks \subseteq TaskRecord
  /\ secret \in [Sites -> Proc \cup {Nothing}]
  /\ cd \in [Proc -> ClusterdRecord]
  /\ health \in [Proc -> [Node -> Nat \cup {Nothing}]]
  /\ ag \in [Node -> AgentRecord]
  /\ gone \subseteq Node /\ deleting \subseteq Node
  /\ stops \in Nat /\ lost \in Nat

\* Two clusters never answer for one Cluster object: the clusterd processes
\* that have claimed it run in the same orchestrator cluster, also when they
\* start together, race for the secret, or take over after a timeout.
OneSite ==
  \A p, q \in Proc :
    (cd[p].pc \in {"beat", "detect", "idle"} /\ cd[q].pc \in {"beat", "detect", "idle"})
      => SiteOf[p] = SiteOf[q]

\* A node that is being torn down leaves that state only by being deleted,
\* whatever heartbeats of it are still on their way.
TornDownStep ==
  \A n \in Node : (node[n] # Nothing /\ node[n].state = "TEAR_DOWN") =>
       (node'[n] = Nothing \/ node'[n].state = "TEAR_DOWN")
TornDownStays == [][TornDownStep]_vars

\* "check for race between cluster timeout and real heartbeat": a cluster is
\* timed out only if its last heartbeat is as old as the timeout says.
TimeoutIsTrue ==
  [][(cl.state = "MANAGED" /\ cl'.state = "TIMED_OUT") => cl.age >= ClusterMisses]_vars

\* A request launched while the node was away has deleted it after its return:
\* the agentd goes on with heartbeats that clusterd alone processes.
Orphaned(n) == ag[n].obj /\ node[n] = Nothing

Claimed == \E p \in Proc : SiteOf[p] = Home /\ cd[p].pc \in {"beat", "detect", "idle"}

\* Once the faults are over the objects come to tell the truth, and stay so:
\* a cluster whose clusterd runs is MANAGED and READY, and without one it is
\* not known to be anything; a node whose agentd runs is MANAGED and READY,
\* unless it was deleted under its agentd; one whose agentd is dead is timed out, and one that is gone is deleted.
Settled ==
  /\ Claimed => cl.state = "MANAGED" /\ cl.svc = "READY"
  /\ (\A p \in Proc : cd[p].pc \in {"exited", "down"}) => cl.svc = "UNKNOWN"
  /\ \A n \in Node :
       /\ (Claimed /\ ag[n].pc # "down" /\ ~Orphaned(n)) =>
            node[n] # Nothing /\ node[n].state = "MANAGED" /\ node[n].svc = "READY"
       /\ (ag[n].pc = "down" /\ node[n] # Nothing) => node[n].svc = "UNKNOWN"
       /\ (Claimed /\ n \in gone) => node[n] = Nothing
=============================================================================
