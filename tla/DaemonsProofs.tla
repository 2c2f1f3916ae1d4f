--------------------------- MODULE DaemonsProofs ---------------------------
(***************************************************************************)
(* What the daemons do beside placement and storage, for all values of the *)
(* constants: two clusters never answer for one Cluster object, and a node *)
(* that is being torn down stays so until it is deleted (Heartbeat, for    *)
(* any nodes, clusterd processes, clusters and delays, and any number of   *)
(* faults); RENAME is whole or not at all (Rename); an animator that has   *)
(* been notified does not go to sleep (Crude); the plugins of the clouds   *)
(* keep their word (CspVolume).                                            *)
(***************************************************************************)
EXTENDS Heartbeat, Integers, Sequences, TLAPS

Serving == {"beat", "detect", "idle"}

(* An identifier is made in the cluster it stands for: a process that has  *)
(* one got it from the secret of its own cluster.                          *)
IdentsAreLocal ==
    /\ \A s \in Sites : secret[s] # Nothing => secret[s] \in Proc /\ SiteOf[secret[s]] = s
    /\ \A p \in Proc : cd[p].pc \in {"claim"} \cup Serving =>
          cd[p].ident \in Proc /\ SiteOf[cd[p].ident] = SiteOf[p]

(* Who serves has the identifier in the Cluster object, which is not       *)
(* replaced once the object has left DEPLOYABLE.                           *)
ServersAreClaimed ==
    \A p \in Proc : cd[p].pc \in Serving =>
        cl.state # "DEPLOYABLE" /\ cl.ident = cd[p].ident

(* A NODE_DELETE request is launched for a node that has an object, and    *)
(* nobody else deletes it.                                                 *)
DeletedExist == \A n \in deleting : node[n] # Nothing

IInv == TypeOK /\ IdentsAreLocal /\ ServersAreClaimed /\ DeletedExist

-----------------------------------------------------------------------------
LEMMA InitInv == Init => IInv
<1> SUFFICES ASSUME Init PROVE IInv
  OBVIOUS
<1> USE DEF Init
<1>1. TypeOK
  BY BoundsAssumption DEF TypeOK, NewClusterd, NewAgentd, NoHealth, ClusterdRecord, AgentRecord
<1>2. IdentsAreLocal /\ ServersAreClaimed
  BY DEF IdentsAreLocal, ServersAreClaimed, Serving, NewClusterd
<1>3. DeletedExist
  BY DEF DeletedExist
<1> QED
  BY <1>1, <1>2, <1>3 DEF IInv

(* An age grows.                                                           *)
LEMMA OlderType == ASSUME NEW a \in Nat PROVE Older(a) \in Nat
  BY BoundsAssumption DEF Older

(* The task that is carried out.                                           *)
LEMMA TaskTypes ==
    ASSUME TypeOK, NEW t \in tasks, TaskExec(t)
    PROVE  TypeOK'
<1>1. t \in TaskRecord /\ t.age \in Nat /\ t.listed \subseteq Node
  BY DEF TypeOK, TaskRecord
<1>2. cl' \in [state : {"DEPLOYABLE", "MANAGED", "TIMED_OUT"}, ident : Proc \cup {Nothing},
               svc : {"READY", "UNKNOWN"}, age : Nat]
  BY <1>1 DEF TaskExec, updateCluster, TypeOK
<1>3. node' \in [Node -> NodeRecord \cup {Nothing}]
  <2>1. CASE node' = node
    BY <2>1 DEF TypeOK
  <2>2. ASSUME NEW S \in OlderNodes(t), node' = updateNodes(t, S)
        PROVE  node' \in [Node -> NodeRecord \cup {Nothing}]
    <3>1. \A n \in S : n \in Node /\ node[n] # Nothing
      BY DEF OlderNodes, Updatable
    <3>2. \A n \in Node : node[n] \in NodeRecord \cup {Nothing}
      BY DEF TypeOK
    <3>3. \A n \in S : [node[n] EXCEPT !.state = "TIMED_OUT", !.svc = "UNKNOWN"] \in NodeRecord
      BY <3>1, <3>2 DEF NodeRecord
    <3>4. [state |-> "MANAGED", svc |-> "READY", age |-> t.age] \in NodeRecord
      BY <1>1 DEF NodeRecord
    <3> QED
      BY <2>2, <3>2, <3>3, <3>4 DEF updateNodes
  <2> QED
    BY <2>1, <2>2 DEF TaskExec
<1>4. tasks' \subseteq TaskRecord
  BY DEF TaskExec, TypeOK
<1> QED
  BY <1>2, <1>3, <1>4 DEF TaskExec, TypeOK

(* What is assigned to the records of a clusterd keeps their type.         *)
Pcs == {"secret", "save", "claim", "beat", "detect", "idle", "exited", "down"}

LEMMA ClusterdUpdates ==
    ASSUME NEW f \in [Proc -> ClusterdRecord], NEW p \in Proc, NEW pc \in Pcs,
           NEW i \in Proc \cup {Nothing}, NEW c \in {0, 1}, NEW b \in BOOLEAN
    PROVE  /\ [f EXCEPT ![p].pc = pc] \in [Proc -> ClusterdRecord]
           /\ [f EXCEPT ![p].ident = i] \in [Proc -> ClusterdRecord]
           /\ [f EXCEPT ![p].count = c] \in [Proc -> ClusterdRecord]
           /\ [f EXCEPT ![p].news = b] \in [Proc -> ClusterdRecord]
<1>1. f[p] \in ClusterdRecord
  OBVIOUS
<1>2. /\ [f[p] EXCEPT !.pc = pc] \in ClusterdRecord
      /\ [f[p] EXCEPT !.ident = i] \in ClusterdRecord
      /\ [f[p] EXCEPT !.count = c] \in ClusterdRecord
      /\ [f[p] EXCEPT !.news = b] \in ClusterdRecord
  BY <1>1 DEF ClusterdRecord, Pcs
<1> QED
  BY <1>2

(* The steps of one clusterd change only its own record.                   *)
LEMMA ClusterdTypes ==
    ASSUME TypeOK, NEW p \in Proc,
           ClusterdStep(p) \/ ClusterBuzzFails(p) \/ StopClusterd(p) \/ StartClusterd(p)
    PROVE  TypeOK'
<1> USE DEF TypeOK
<1>1. /\ SiteOf[p] \in Sites
      /\ cd[p] \in ClusterdRecord
      /\ health[p] \in [Node -> Nat \cup {Nothing}]
  BY DEF Sites
<1>a. FatalError(p) => /\ cd' \in [Proc -> ClusterdRecord]
                       /\ health' \in [Proc -> [Node -> Nat \cup {Nothing}]]
  <2>1. [cd EXCEPT ![p].pc = "exited"] \in [Proc -> ClusterdRecord]
    BY ClusterdUpdates DEF Pcs
  <2>2. [health EXCEPT ![p] = NoHealth] \in [Proc -> [Node -> Nat \cup {Nothing}]]
    BY DEF NoHealth
  <2> QED
    BY <2>1, <2>2 DEF FatalError
<1>b. ASSUME NEW pc \in Pcs, NEW i \in Proc \cup {Nothing}
      PROVE  [cd EXCEPT ![p].pc = pc, ![p].ident = i] \in [Proc -> ClusterdRecord]
  <2>1. [cd EXCEPT ![p].pc = pc] \in [Proc -> ClusterdRecord]
    BY ClusterdUpdates
  <2> QED
    BY <2>1, ClusterdUpdates
<1>2. CASE getSavedClusterIdentifier(p)
  <2> DEFINE pc == IF secret[SiteOf[p]] = Nothing THEN "save" ELSE "claim"
  <2>1. pc \in Pcs /\ secret[SiteOf[p]] \in Proc \cup {Nothing}
    BY <1>1 DEF Pcs
  <2>2. cd' = [cd EXCEPT ![p].pc = pc, ![p].ident = secret[SiteOf[p]]]
    BY <1>2 DEF getSavedClusterIdentifier
  <2>3. cd' \in [Proc -> ClusterdRecord]
    BY <1>b, <2>1, <2>2
  <2> QED
    BY <1>2, <2>3 DEF getSavedClusterIdentifier
<1>3. CASE createAndSaveClusterIdentifier(p)
  <2>1. CASE secret[SiteOf[p]] = Nothing
    <3>1. cd' = [cd EXCEPT ![p].pc = "claim", ![p].ident = p]
      BY <1>3, <2>1 DEF createAndSaveClusterIdentifier
    <3>2. cd' \in [Proc -> ClusterdRecord]
      BY <1>b, <3>1 DEF Pcs
    <3>3. secret' \in [Sites -> Proc \cup {Nothing}]
      BY <1>1, <1>3, <2>1 DEF createAndSaveClusterIdentifier
    <3> QED
      BY <1>3, <2>1, <3>2, <3>3 DEF createAndSaveClusterIdentifier
  <2> QED
    BY <1>a, <1>3, <2>1 DEF createAndSaveClusterIdentifier
<1>4. CASE claimClusterObj(p)
  <2>1. CASE MayClaim(p)
    <3>1. cd' \in [Proc -> ClusterdRecord]
      <4>1. [cd EXCEPT ![p].pc = "beat"] \in [Proc -> ClusterdRecord]
        BY ClusterdUpdates DEF Pcs
      <4> QED
        BY <1>4, <2>1, <4>1 DEF claimClusterObj
    <3>2. cl' \in [state : {"DEPLOYABLE", "MANAGED", "TIMED_OUT"}, ident : Proc \cup {Nothing},
                   svc : {"READY", "UNKNOWN"}, age : Nat]
      BY <1>1, <1>4, <2>1 DEF claimClusterObj, ClusterdRecord
    <3> QED
      BY <1>4, <2>1, <3>1, <3>2 DEF claimClusterObj
  <2> QED
    BY <1>a, <1>4, <2>1 DEF claimClusterObj
<1>5. CASE updateClusterObj(p)
  BY <1>1, <1>5 DEF updateClusterObj, ManagedCluster, Beaten, ClusterdRecord
<1>6. CASE issueConsolidatedHeartbeat(p)
  <2> DEFINE t == NewTask("beat", {n \in Node : Purged(p)[n] # Nothing})
  <2>1. t \in TaskRecord
    BY DEF NewTask, TaskRecord
  <2>2. Purged(p) \in [Node -> Nat \cup {Nothing}]
    BY <1>1 DEF Purged
  <2>3. health' \in [Proc -> [Node -> Nat \cup {Nothing}]]
    BY <1>6, <2>2 DEF issueConsolidatedHeartbeat
  <2>4. tasks' \subseteq TaskRecord
    BY <1>6, <2>1 DEF issueConsolidatedHeartbeat
  <2>5. cd' \in [Proc -> ClusterdRecord]
    <3>1. [cd EXCEPT ![p].pc = "idle"] \in [Proc -> ClusterdRecord]
      BY ClusterdUpdates DEF Pcs
    <3>2. Beaten(p, [cd[p] EXCEPT !.since = 0, !.news = FALSE]) \in ClusterdRecord
      BY <1>1 DEF Beaten, ClusterdRecord
    <3> QED
      BY <1>6, <3>1, <3>2 DEF issueConsolidatedHeartbeat
  <2>6. lost' \in Nat
    BY <1>6 DEF issueConsolidatedHeartbeat
  <2> QED
    BY <1>6, <2>3, <2>4, <2>5, <2>6 DEF issueConsolidatedHeartbeat
<1>7. CASE ClusterBuzz(p)
  BY <1>5, <1>6, <1>7 DEF ClusterBuzz
<1>8. CASE ClusterBuzzFails(p)
  <2>1. [cd EXCEPT ![p].pc = "idle"] \in [Proc -> ClusterdRecord]
    BY ClusterdUpdates DEF Pcs
  <2>2. \A f \in [Proc -> ClusterdRecord] : [f EXCEPT ![p].count = 0] \in [Proc -> ClusterdRecord]
    BY ClusterdUpdates DEF Pcs
  <2>3. cd' = [[cd EXCEPT ![p].pc = "idle"] EXCEPT ![p].count = 0]
    BY <1>8, Zenon DEF ClusterBuzzFails
  <2>4. cd' \in [Proc -> ClusterdRecord]
    BY <2>1, <2>2, <2>3
  <2>5. lost' = lost + 1 /\ UNCHANGED <<cl, node, tasks, secret, health, ag, gone, deleting, stops>>
    BY <1>8, Zenon DEF ClusterBuzzFails
  <2> QED
    BY <2>4, <2>5
<1>9. CASE detectTerminatedNodes(p)
  BY <1>1, <1>9 DEF detectTerminatedNodes, ClusterdRecord
<1>10. CASE StopClusterd(p)
  BY <1>a, <1>10 DEF StopClusterd
<1>11. CASE StartClusterd(p)
  BY <1>1, <1>11, BoundsAssumption DEF StartClusterd, NewClusterd, ClusterdRecord
<1> QED
  BY <1>2, <1>3, <1>4, <1>7, <1>8, <1>9, <1>10, <1>11 DEF ClusterdStep

(* Those of an agentd, and what is done with its node.                     *)
LEMMA NodeTypes ==
    ASSUME TypeOK, NEW n \in Node,
           \/ AgentBuzz(n) \/ AgentBuzzFails(n) \/ UpdateState(n)
           \/ teardownNode(n) \/ deleteNode(n) \/ StopAgentd(n) \/ StartAgentd(n),
           DeletedExist
    PROVE  TypeOK'
<1> USE DEF TypeOK
<1>1. ag[n] \in AgentRecord /\ node[n] \in NodeRecord \cup {Nothing} /\ ManagedNode \in NodeRecord
  BY DEF ManagedNode, NodeRecord
<1>2. ASSUME NEW obj \in BOOLEAN, NEW c \in {0, 1}, AgentDone(n, obj, c)
      PROVE  ag' \in [Node -> AgentRecord]
  BY <1>2 DEF AgentDone, AgentRecord
<1>3. ASSUME NEW p \in Proc, NodeServiceState(p, n)
      PROVE  /\ health' \in [Proc -> [Node -> Nat \cup {Nothing}]]
             /\ cd' \in [Proc -> ClusterdRecord]
  <2>1. cd[p] \in ClusterdRecord /\ cd[p].news \in BOOLEAN
    BY DEF ClusterdRecord
  <2>2. cd' = [cd EXCEPT ![p].news = cd[p].news \/ health[p][n] = Nothing]
    BY <1>3 DEF NodeServiceState
  <2>3. (cd[p].news \/ health[p][n] = Nothing) \in BOOLEAN
    BY <2>1
  <2>4. \A b \in BOOLEAN : [cd EXCEPT ![p].news = b] \in [Proc -> ClusterdRecord]
    BY ClusterdUpdates DEF Pcs
  <2> QED
    BY <1>3, <2>2, <2>3, <2>4 DEF NodeServiceState
<1>4. ASSUME NEW p \in Proc,
             findNodeObj(p, n) \/ updateNodeObj(p, n) \/ updateNodeHeartbeatOnly(p, n)
      PROVE  /\ node' \in [Node -> NodeRecord \cup {Nothing}]
             /\ ag' \in [Node -> AgentRecord]
             /\ health' \in [Proc -> [Node -> Nat \cup {Nothing}]]
             /\ cd' \in [Proc -> ClusterdRecord]
  BY <1>1, <1>2, <1>3, <1>4 DEF findNodeObj, updateNodeObj, updateNodeHeartbeatOnly
<1>5. CASE AgentBuzz(n)
  BY <1>4, <1>5 DEF AgentBuzz
<1>6. CASE AgentBuzzFails(n)
  <2>1. ag[n].obj \in BOOLEAN /\ ag[n].count \in {0, 1}
    BY <1>1 DEF AgentRecord
  <2> QED
    BY <1>2, <1>6, <2>1 DEF AgentBuzzFails
<1>7. CASE UpdateState(n)
  BY <1>1, <1>7 DEF UpdateState, AgentRecord
<1>8. CASE teardownNode(n)
  <2>1. node[n] \in NodeRecord
    BY <1>1, <1>8 DEF teardownNode, DeletedExist
  <2> QED
    BY <1>8, <2>1 DEF teardownNode, NodeRecord
<1>9. CASE deleteNode(n)
  BY <1>9 DEF deleteNode
<1>10. CASE StopAgentd(n)
  BY <1>1, <1>10 DEF StopAgentd, AgentRecord
<1>11. CASE StartAgentd(n)
  BY <1>1, <1>11 DEF StartAgentd, NewAgentd, AgentRecord
<1> QED
  BY <1>5, <1>6, <1>7, <1>8, <1>9, <1>10, <1>11

LEMMA TickTypes == ASSUME TypeOK, Tick PROVE TypeOK'
<1> USE DEF TypeOK
<1>1. cl' \in [state : {"DEPLOYABLE", "MANAGED", "TIMED_OUT"}, ident : Proc \cup {Nothing},
               svc : {"READY", "UNKNOWN"}, age : Nat]
  <2>1. cl.age \in Nat /\ Older(cl.age) \in Nat
    BY OlderType
  <2> QED
    BY <2>1 DEF Tick
<1>2. node' \in [Node -> NodeRecord \cup {Nothing}]
  <2>1. ASSUME NEW n \in Node, node[n] # Nothing
        PROVE  [node[n] EXCEPT !.age = Older(@)] \in NodeRecord
    <3>1. node[n] \in NodeRecord /\ node[n].age \in Nat
      BY <2>1 DEF NodeRecord
    <3>2. Older(node[n].age) \in Nat
      BY <3>1, OlderType
    <3> QED
      BY <3>1, <3>2 DEF NodeRecord
  <2> QED
    BY <2>1 DEF Tick
<1>3. tasks' \subseteq TaskRecord
  <2>1. ASSUME NEW t \in tasks
        PROVE  [t EXCEPT !.age = @ + 1] \in TaskRecord
    <3>1. t \in TaskRecord /\ t.age + 1 \in Nat
      BY DEF TaskRecord
    <3> QED
      BY <3>1 DEF TaskRecord
  <2>2. tasks' = {[t EXCEPT !.age = @ + 1] : t \in tasks}
    BY DEF Tick
  <2> QED
    BY <2>1, <2>2
<1>4. health' \in [Proc -> [Node -> Nat \cup {Nothing}]]
  <2>1. ASSUME NEW p \in Proc, NEW n \in Node, health[p][n] # Nothing
        PROVE  Older(health[p][n]) \in Nat
    BY <2>1, OlderType
  <2> QED
    BY <2>1 DEF Tick
<1>5. cd' \in [Proc -> ClusterdRecord]
  <2>1. ASSUME NEW p \in Proc
        PROVE  /\ [cd[p] EXCEPT !.pc = "down"] \in ClusterdRecord
               /\ [cd[p] EXCEPT !.pc = "beat", !.since = IF @ < TaskEvery THEN @ + 1 ELSE @]
                    \in ClusterdRecord
    <3>1. cd[p] \in ClusterdRecord
      OBVIOUS
    <3>2. (IF cd[p].since < TaskEvery THEN cd[p].since + 1 ELSE cd[p].since) \in Nat
      BY <3>1 DEF ClusterdRecord
    <3> QED
      BY <3>1, <3>2 DEF ClusterdRecord
  <2> QED
    BY <2>1 DEF Tick
<1>6. ag' \in [Node -> AgentRecord]
  BY DEF Tick, AgentRecord
<1>7. lost' \in Nat
  <2>1. lost' = lost \/ lost' = lost + 1
    BY Zenon DEF Tick
  <2> QED
    BY <2>1
<1> QED
  BY <1>1, <1>2, <1>3, <1>4, <1>5, <1>6, <1>7 DEF Tick

LEMMA TypeInv == TypeOK /\ DeletedExist /\ [Next]_vars => TypeOK'
<1> SUFFICES ASSUME TypeOK, DeletedExist, [Next]_vars PROVE TypeOK'
  OBVIOUS
<1>1. CASE TimeoutClusters
  <2>1. NewTask("timeout", {}) \in TaskRecord
    BY DEF NewTask, TaskRecord
  <2> QED
    BY <1>1, <2>1 DEF TimeoutClusters, TypeOK
<1>2. CASE UNCHANGED vars
  BY <1>2 DEF vars, TypeOK
<1> QED
  BY <1>1, <1>2, ClusterdTypes, NodeTypes, TaskTypes, TickTypes DEF Next, CentraldStep

-----------------------------------------------------------------------------
(* Nobody but the process itself gives it an identifier or lets it serve.  *)
LEMMA AgentsLeaveClaims ==
    ASSUME TypeOK, NEW n \in Node,
           \/ AgentBuzz(n) \/ AgentBuzzFails(n) \/ UpdateState(n)
           \/ teardownNode(n) \/ deleteNode(n) \/ StopAgentd(n) \/ StartAgentd(n)
    PROVE  /\ cl' = cl /\ secret' = secret
           /\ \A q \in Proc : cd'[q].pc = cd[q].pc /\ cd'[q].ident = cd[q].ident
<1>1. ASSUME NEW p \in Proc, NodeServiceState(p, n)
      PROVE  \A q \in Proc : cd'[q].pc = cd[q].pc /\ cd'[q].ident = cd[q].ident
  <2>1. \A q \in Proc : cd[q] \in ClusterdRecord
    BY DEF TypeOK
  <2>2. PICK b : cd' = [cd EXCEPT ![p].news = b]
    BY <1>1, Zenon DEF NodeServiceState
  <2> QED
    BY <2>1, <2>2 DEF ClusterdRecord, TypeOK
<1>2. CASE AgentBuzz(n)
  <2>1. PICK p \in Proc : \/ cd' = cd
                          \/ NodeServiceState(p, n)
    BY <1>2, Zenon DEF AgentBuzz, findNodeObj, updateNodeObj, updateNodeHeartbeatOnly
  <2> QED
    BY <1>1, <1>2, <2>1 DEF AgentBuzz
<1> QED
  BY <1>2 DEF AgentBuzzFails, UpdateState, teardownNode, deleteNode, StopAgentd, StartAgentd

(* The records that a step of p leaves.                                    *)
LEMMA PcUpdate ==
    ASSUME NEW f \in [Proc -> ClusterdRecord], NEW p \in Proc, NEW pc \in Pcs,
           NEW g, g = [f EXCEPT ![p].pc = pc]
    PROVE  /\ g \in [Proc -> ClusterdRecord]
           /\ g[p].pc = pc /\ g[p].ident = f[p].ident
           /\ \A q \in Proc : q # p => g[q].pc = f[q].pc /\ g[q].ident = f[q].ident
<1>1. g \in [Proc -> ClusterdRecord]
  BY ClusterdUpdates
<1> QED
  BY <1>1 DEF ClusterdRecord

LEMMA IdentUpdate ==
    ASSUME NEW f \in [Proc -> ClusterdRecord], NEW p \in Proc, NEW pc \in Pcs,
           NEW i \in Proc \cup {Nothing},
           NEW g, g = [f EXCEPT ![p].pc = pc, ![p].ident = i]
    PROVE  /\ g[p].pc = pc /\ g[p].ident = i
           /\ \A q \in Proc : q # p => g[q].pc = f[q].pc /\ g[q].ident = f[q].ident
<1> DEFINE h == [f EXCEPT ![p].pc = pc]
<1>1. /\ h \in [Proc -> ClusterdRecord] /\ h[p].pc = pc
      /\ \A q \in Proc : q # p => h[q].pc = f[q].pc /\ h[q].ident = f[q].ident
  BY PcUpdate
<1>2. g = [h EXCEPT ![p].ident = i]
  BY Zenon
<1> HIDE DEF h
<1> QED
  BY <1>1, <1>2 DEF ClusterdRecord

LEMMA CountUpdate ==
    ASSUME NEW f \in [Proc -> ClusterdRecord], NEW p \in Proc, NEW pc \in Pcs, NEW c \in {0, 1},
           NEW g, g = [f EXCEPT ![p].pc = pc, ![p].count = c]
    PROVE  /\ g[p].pc = pc /\ g[p].ident = f[p].ident
           /\ \A q \in Proc : q # p => g[q].pc = f[q].pc /\ g[q].ident = f[q].ident
<1> DEFINE h == [f EXCEPT ![p].pc = pc]
<1>1. /\ h \in [Proc -> ClusterdRecord] /\ h[p].pc = pc /\ h[p].ident = f[p].ident
      /\ \A q \in Proc : q # p => h[q].pc = f[q].pc /\ h[q].ident = f[q].ident
  BY PcUpdate
<1>2. g = [h EXCEPT ![p].count = c]
  BY Zenon
<1> HIDE DEF h
<1> QED
  BY <1>1, <1>2 DEF ClusterdRecord

(* What the steps of one clusterd do to the claims of all.                 *)
LEMMA ClusterdKeepsClaims ==
    ASSUME TypeOK, IdentsAreLocal, ServersAreClaimed, NEW p \in Proc,
           ClusterdStep(p) \/ ClusterBuzzFails(p) \/ StopClusterd(p) \/ StartClusterd(p)
    PROVE  IdentsAreLocal' /\ ServersAreClaimed'
<1> USE DEF IdentsAreLocal, ServersAreClaimed, Serving
<1>1. SiteOf[p] \in Sites /\ cd \in [Proc -> ClusterdRecord] /\ secret \in [Sites -> Proc \cup {Nothing}]
  BY DEF Sites, TypeOK
<1>p. "exited" \in Pcs /\ "claim" \in Pcs /\ "beat" \in Pcs /\ "idle" \in Pcs /\ 0 \in {0, 1}
  BY DEF Pcs
(* Its record is left with its identifier, or it does not serve.           *)
<1>2. ASSUME secret' = secret, cl'.ident = cl.ident, cl.state # "DEPLOYABLE" => cl'.state # "DEPLOYABLE",
             \/ cd'[p].pc \notin {"claim"} \cup Serving
             \/ cd[p].pc \in Serving /\ cd'[p].ident = cd[p].ident,
             \A q \in Proc : q # p => cd'[q].pc = cd[q].pc /\ cd'[q].ident = cd[q].ident
      PROVE  IdentsAreLocal' /\ ServersAreClaimed'
  <2>1. \A q \in Proc :
           \/ cd'[q].pc \notin {"claim"} \cup Serving
           \/ cd'[q].ident = cd[q].ident /\ (cd[q].pc \in Serving \/ cd'[q].pc = cd[q].pc)
    BY <1>2
  <2>2. IdentsAreLocal'
    BY <1>2, <2>1
  <2>3. ServersAreClaimed'
    BY <1>2, <2>1
  <2> QED
    BY <2>2, <2>3
<1>f. FatalError(p) => /\ cd'[p].pc = "exited"
                       /\ \A q \in Proc : q # p => cd'[q].pc = cd[q].pc /\ cd'[q].ident = cd[q].ident
  <2>1. FatalError(p) => cd' = [cd EXCEPT ![p].pc = "exited"]
    BY Zenon DEF FatalError
  <2> QED
    BY <1>1, <2>1, PcUpdate, <1>p
<1>3. CASE getSavedClusterIdentifier(p)
  <2> DEFINE pc == IF secret[SiteOf[p]] = Nothing THEN "save" ELSE "claim"
  <2>1. pc \in Pcs /\ secret[SiteOf[p]] \in Proc \cup {Nothing}
    BY <1>1 DEF Pcs
  <2>2. cd' = [cd EXCEPT ![p].pc = pc, ![p].ident = secret[SiteOf[p]]]
    BY <1>3 DEF getSavedClusterIdentifier
  <2>3. /\ cd'[p].pc = pc /\ cd'[p].ident = secret[SiteOf[p]]
        /\ \A q \in Proc : q # p => cd'[q].pc = cd[q].pc /\ cd'[q].ident = cd[q].ident
    <3> HIDE DEF pc
    <3> QED
      BY <1>1, <2>1, <2>2, IdentUpdate
  <2>4. secret' = secret /\ cl' = cl
    BY <1>3 DEF getSavedClusterIdentifier
  <2>5. pc \notin Serving /\ (pc = "claim" => secret[SiteOf[p]] # Nothing)
    OBVIOUS
  <2> HIDE DEF pc
  <2>6. IdentsAreLocal'
    BY <1>1, <2>3, <2>4, <2>5
  <2>7. ServersAreClaimed'
    BY <2>3, <2>4, <2>5
  <2> QED
    BY <2>6, <2>7
<1>4. CASE createAndSaveClusterIdentifier(p)
  <2>1. CASE secret[SiteOf[p]] = Nothing
    <3>1. /\ cd' = [cd EXCEPT ![p].pc = "claim", ![p].ident = p]
          /\ secret' = [secret EXCEPT ![SiteOf[p]] = p] /\ cl' = cl
      BY <1>4, <2>1 DEF createAndSaveClusterIdentifier
    <3>2. /\ cd'[p].pc = "claim" /\ cd'[p].ident = p
          /\ \A q \in Proc : q # p => cd'[q].pc = cd[q].pc /\ cd'[q].ident = cd[q].ident
      BY <1>1, <3>1, IdentUpdate, <1>p
    <3>3. \A s \in Sites : secret'[s] # Nothing => secret'[s] \in Proc /\ SiteOf[secret'[s]] = s
      BY <1>1, <3>1
    <3>4. IdentsAreLocal'
      BY <3>2, <3>3
    <3>5. ServersAreClaimed'
      BY <3>1, <3>2
    <3> QED
      BY <3>4, <3>5
  <2>2. CASE secret[SiteOf[p]] # Nothing
    BY <1>2, <1>4, <1>f, <2>2 DEF createAndSaveClusterIdentifier
  <2> QED
    BY <2>1, <2>2
<1>5. CASE claimClusterObj(p)
  <2>1. CASE MayClaim(p)
    <3>1. /\ cd' = [cd EXCEPT ![p].pc = "beat"]
          /\ secret' = secret
      BY <1>5, <2>1 DEF claimClusterObj
    <3>2. cl'.state = "MANAGED" /\ cl'.ident = cd[p].ident /\ cd[p].pc = "claim"
      BY <1>5, <2>1 DEF claimClusterObj, MayClaim, TypeOK
    <3>3. cl.state # "DEPLOYABLE" => cl'.ident = cl.ident
      BY <1>5, <2>1 DEF claimClusterObj, TypeOK
    <3>4. /\ cd'[p].pc = "beat" /\ cd'[p].ident = cd[p].ident
          /\ \A q \in Proc : q # p => cd'[q].pc = cd[q].pc /\ cd'[q].ident = cd[q].ident
      BY <1>1, <3>1, PcUpdate, <1>p
    <3>5. IdentsAreLocal'
      BY <3>1, <3>2, <3>4
    <3>6. ServersAreClaimed'
      BY <3>1, <3>2, <3>3, <3>4
    <3> QED
      BY <3>5, <3>6
  <2>2. CASE ~MayClaim(p)
    BY <1>2, <1>5, <1>f, <2>2 DEF claimClusterObj
  <2> QED
    BY <2>1, <2>2
<1>6. CASE ClusterBuzz(p)
  <2>1. cd[p].pc \in Serving
    BY <1>6 DEF ClusterBuzz
  <2>2. CASE updateClusterObj(p)
    <3>1. cl'.ident = cl.ident /\ cl'.state = "MANAGED" /\ secret' = secret
      BY <2>2 DEF updateClusterObj, ManagedCluster, TypeOK
    <3>2. cd'[p].ident = cd[p].ident /\ \A q \in Proc : q # p => cd'[q] = cd[q]
      BY <1>1, <2>2 DEF updateClusterObj, Beaten, ClusterdRecord
    <3> QED
      BY <1>2, <2>1, <3>1, <3>2
  <2>3. CASE issueConsolidatedHeartbeat(p)
    <3>1. cl' = cl /\ secret' = secret
      BY <2>3 DEF issueConsolidatedHeartbeat
    <3>2. cd'[p].ident = cd[p].ident /\ \A q \in Proc : q # p => cd'[q] = cd[q]
      <4>1. CASE cd' = [cd EXCEPT ![p] = Beaten(p, [@ EXCEPT !.since = 0, !.news = FALSE])]
        BY <1>1, <4>1 DEF Beaten, ClusterdRecord
      <4>2. CASE cd' = [cd EXCEPT ![p].pc = "idle"]
        BY <1>1, <4>2 DEF ClusterdRecord
      <4> QED
        BY <2>3, <4>1, <4>2 DEF issueConsolidatedHeartbeat
    <3> QED
      BY <1>2, <2>1, <3>1, <3>2
  <2> QED
    BY <1>6, <2>2, <2>3 DEF ClusterBuzz
<1>7. CASE ClusterBuzzFails(p)
  <2>1. /\ cd' = [cd EXCEPT ![p].pc = "idle", ![p].count = 0]
        /\ cl' = cl /\ secret' = secret /\ cd[p].pc = "beat"
    BY <1>7 DEF ClusterBuzzFails
  <2>2. /\ cd'[p].pc = "idle" /\ cd'[p].ident = cd[p].ident
        /\ \A q \in Proc : q # p => cd'[q].pc = cd[q].pc /\ cd'[q].ident = cd[q].ident
    BY <1>1, <2>1, CountUpdate, <1>p
  <2> QED
    BY <1>2, <2>1, <2>2
<1>8. CASE detectTerminatedNodes(p)
  <2>1. /\ cd' = [cd EXCEPT ![p].pc = "idle"]
        /\ cl' = cl /\ secret' = secret /\ cd[p].pc = "detect"
    BY <1>8 DEF detectTerminatedNodes
  <2>2. /\ cd'[p].pc = "idle" /\ cd'[p].ident = cd[p].ident
        /\ \A q \in Proc : q # p => cd'[q].pc = cd[q].pc /\ cd'[q].ident = cd[q].ident
    BY <1>1, <2>1, PcUpdate, <1>p
  <2> QED
    BY <1>2, <2>1, <2>2
<1>9. CASE StopClusterd(p)
  BY <1>2, <1>9, <1>f DEF StopClusterd
<1>10. CASE StartClusterd(p)
  BY <1>1, <1>2, <1>10 DEF StartClusterd, NewClusterd
<1> QED
  BY <1>3, <1>4, <1>5, <1>6, <1>7, <1>8, <1>9, <1>10 DEF ClusterdStep

LEMMA ClaimsInv ==
    TypeOK /\ IdentsAreLocal /\ ServersAreClaimed /\ [Next]_vars
      => IdentsAreLocal' /\ ServersAreClaimed'
<1> SUFFICES ASSUME TypeOK, IdentsAreLocal, ServersAreClaimed, [Next]_vars
             PROVE  IdentsAreLocal' /\ ServersAreClaimed'
  OBVIOUS
(* Elsewhere the claims are left alone.                                    *)
<1>1. ASSUME secret' = secret, cl'.ident = cl.ident, cl.state # "DEPLOYABLE" => cl'.state # "DEPLOYABLE",
             \A q \in Proc :
                /\ cd'[q].ident = cd[q].ident
                /\ \/ cd'[q].pc = cd[q].pc
                   \/ cd'[q].pc \notin {"claim"} \cup Serving
                   \/ cd[q].pc \in Serving
      PROVE  IdentsAreLocal' /\ ServersAreClaimed'
  BY <1>1 DEF IdentsAreLocal, ServersAreClaimed, Serving
<1>2. ASSUME NEW t \in tasks, TaskExec(t)
      PROVE  IdentsAreLocal' /\ ServersAreClaimed'
  <2>1. cl'.ident = cl.ident /\ (cl.state # "DEPLOYABLE" => cl'.state # "DEPLOYABLE")
    BY <1>2 DEF TaskExec, updateCluster, TypeOK
  <2> QED
    BY <1>1, <1>2, <2>1 DEF TaskExec
<1>3. CASE TimeoutClusters
  BY <1>1, <1>3 DEF TimeoutClusters
<1>4. CASE Tick
  <2>1. cl'.ident = cl.ident /\ cl'.state = cl.state /\ secret' = secret
    BY <1>4 DEF Tick, TypeOK
  <2>2. ASSUME NEW q \in Proc
        PROVE  /\ cd'[q].ident = cd[q].ident
               /\ \/ cd'[q].pc = "down"
                  \/ cd[q].pc = "idle" /\ cd'[q].pc = "beat"
    <3>1. cd[q] \in ClusterdRecord /\ cd[q].pc \in {"idle", "exited", "down"}
      BY <1>4 DEF TypeOK, Tick
    <3>2. cd'[q] = IF cd[q].pc \in {"exited", "down"} THEN [cd[q] EXCEPT !.pc = "down"]
                   ELSE [cd[q] EXCEPT !.pc = "beat",
                                      !.since = IF @ < TaskEvery THEN @ + 1 ELSE @]
      BY <1>4 DEF Tick
    <3> QED
      BY <3>1, <3>2 DEF ClusterdRecord
  <2> QED
    BY <1>1, <2>1, <2>2 DEF Serving
<1>5. CASE UNCHANGED vars
  BY <1>1, <1>5 DEF vars
<1>6. ASSUME NEW n \in Node,
             \/ AgentBuzz(n) \/ AgentBuzzFails(n) \/ UpdateState(n)
             \/ teardownNode(n) \/ deleteNode(n) \/ StopAgentd(n) \/ StartAgentd(n)
      PROVE  IdentsAreLocal' /\ ServersAreClaimed'
  BY <1>1, <1>6, AgentsLeaveClaims
<1> QED
  BY <1>2, <1>3, <1>4, <1>5, <1>6, ClusterdKeepsClaims DEF Next, CentraldStep

-----------------------------------------------------------------------------
(* What a step may do to the object of a node: only deleteNode removes it, *)
(* and nothing else changes one that is being torn down.                   *)
NodeStep(n) ==
    node[n] # Nothing =>
        \/ node'[n] = Nothing /\ node[n].state = "TEAR_DOWN" /\ n \notin deleting'
        \/ node'[n] # Nothing /\ (node[n].state = "TEAR_DOWN" => node'[n].state = "TEAR_DOWN")

LEMMA NodeSteps ==
    ASSUME TypeOK, DeletedExist, [Next]_vars, NEW n \in Node
    PROVE  NodeStep(n)
<1>n. Nothing \notin NodeRecord
  BY NothingAssumption DEF NodeRecord
<1>1. node \in [Node -> NodeRecord \cup {Nothing}] /\ ManagedNode # Nothing
  BY <1>n DEF TypeOK, ManagedNode, NodeRecord
<1>2. CASE node' = node
  BY <1>2 DEF NodeStep
<1>3. ASSUME NEW m \in Node, node' = [node EXCEPT ![m] = ManagedNode],
             node[m] = Nothing \/ node[m].state # "TEAR_DOWN"
      PROVE  NodeStep(n)
  BY <1>1, <1>3 DEF NodeStep
<1>4. ASSUME NEW m \in Node, AgentBuzz(m)
      PROVE  NodeStep(n)
  <2>1. \/ node' = node
        \/ /\ node' = [node EXCEPT ![m] = ManagedNode]
           /\ node[m] = Nothing \/ node[m].state # "TEAR_DOWN"
    BY <1>4, Zenon DEF AgentBuzz, findNodeObj, updateNodeObj, updateNodeHeartbeatOnly
  <2> QED
    BY <1>2, <1>3, <2>1
<1>5. ASSUME NEW m \in Node, teardownNode(m)
      PROVE  NodeStep(n)
  <2>1. node[m] \in NodeRecord
    BY <1>1, <1>5 DEF teardownNode, DeletedExist
  <2>2. /\ node' = [node EXCEPT ![m] = [node[m] EXCEPT !.state = "TEAR_DOWN"]]
        /\ [node[m] EXCEPT !.state = "TEAR_DOWN"] \in NodeRecord
    BY <1>5, <2>1 DEF teardownNode, NodeRecord
  <2>3. node[m].state # "TEAR_DOWN"
    BY <1>5 DEF teardownNode
  <2> QED
    BY <1>1, <2>2, <2>3, <1>n DEF NodeStep
<1>6. ASSUME NEW m \in Node, deleteNode(m)
      PROVE  NodeStep(n)
  BY <1>1, <1>6 DEF deleteNode, NodeStep
<1>7. ASSUME NEW t \in tasks, NEW S \in OlderNodes(t), node' = updateNodes(t, S)
      PROVE  NodeStep(n)
  <2>1. CASE Updatable(n)
    <3>1. node[n] \in NodeRecord /\ node[n].state # "TEAR_DOWN"
      BY <1>1, <2>1 DEF Updatable
    <3>2. [node[n] EXCEPT !.state = "TIMED_OUT", !.svc = "UNKNOWN"] \in NodeRecord
      BY <3>1 DEF NodeRecord
    <3>3. t.age \in Nat
      BY DEF TypeOK, TaskRecord
    <3>4. [state |-> "MANAGED", svc |-> "READY", age |-> t.age] \in NodeRecord
      BY <3>3 DEF NodeRecord
    <3>5. node'[n] \in NodeRecord
      BY <1>7, <3>1, <3>2, <3>4 DEF updateNodes
    <3> QED
      BY <3>1, <3>5, <1>n DEF NodeStep
  <2>2. CASE ~Updatable(n)
    <3>1. n \notin S
      BY <2>2 DEF OlderNodes
    <3>2. node'[n] = node[n]
      BY <1>7, <2>2, <3>1 DEF updateNodes
    <3> QED
      BY <3>2 DEF NodeStep
  <2> QED
    BY <2>1, <2>2
<1>8. ASSUME NEW t \in tasks, TaskExec(t)
      PROVE  NodeStep(n)
  <2>1. node' = node \/ \E S \in OlderNodes(t) : node' = updateNodes(t, S)
    BY <1>8 DEF TaskExec
  <2> QED
    BY <1>2, <1>7, <2>1
<1>9. CASE Tick
  <2>1. node'[n] = IF node[n] = Nothing THEN Nothing ELSE [node[n] EXCEPT !.age = Older(@)]
    BY <1>9 DEF Tick
  <2>2. CASE node[n] # Nothing
    <3>1. node[n] \in NodeRecord /\ Older(node[n].age) \in Nat
      BY <1>1, <2>2, OlderType DEF NodeRecord
    <3>2. node'[n] = [node[n] EXCEPT !.age = Older(node[n].age)]
      BY <2>1, <2>2
    <3>3. node'[n] \in NodeRecord /\ node'[n].state = node[n].state
      BY <3>1, <3>2 DEF NodeRecord
    <3> QED
      BY <3>3, <1>n DEF NodeStep
  <2> QED
    BY <2>2 DEF NodeStep
<1>10. ASSUME NEW p \in Proc,
              ClusterdStep(p) \/ ClusterBuzzFails(p) \/ StopClusterd(p) \/ StartClusterd(p)
       PROVE  node' = node
  BY <1>10, Zenon DEF ClusterdStep, getSavedClusterIdentifier, createAndSaveClusterIdentifier,
     claimClusterObj, ClusterBuzz, updateClusterObj, issueConsolidatedHeartbeat,
     detectTerminatedNodes, ClusterBuzzFails, StopClusterd, StartClusterd
<1>11. ASSUME NEW m \in Node,
              AgentBuzzFails(m) \/ UpdateState(m) \/ StopAgentd(m) \/ StartAgentd(m)
       PROVE  node' = node
  BY <1>11 DEF AgentBuzzFails, UpdateState, StopAgentd, StartAgentd
<1>12. TimeoutClusters \/ UNCHANGED vars => node' = node
  BY DEF TimeoutClusters, vars
<1> QED
  BY <1>2, <1>4, <1>5, <1>6, <1>8, <1>9, <1>10, <1>11, <1>12 DEF Next, CentraldStep

(* Requests are launched for nodes that have an object.                    *)
LEMMA DeletedInv == TypeOK /\ DeletedExist /\ [Next]_vars => DeletedExist'
<1> SUFFICES ASSUME TypeOK, DeletedExist, [Next]_vars PROVE DeletedExist'
  OBVIOUS
<1>1. \A n \in Node : node[n] # Nothing => node'[n] # Nothing \/ n \notin deleting'
  BY NodeSteps DEF NodeStep
<1>2. ASSUME NEW p \in Proc, detectTerminatedNodes(p)
      PROVE  \A n \in deleting' : n \in deleting \/ node[n] # Nothing
  BY <1>2 DEF detectTerminatedNodes
<1>3. ASSUME NEW p \in Proc,
             \/ ClusterdStep(p) /\ ~detectTerminatedNodes(p)
             \/ ClusterBuzzFails(p) \/ StopClusterd(p) \/ StartClusterd(p)
      PROVE  deleting' = deleting
  BY <1>3, Zenon DEF ClusterdStep, getSavedClusterIdentifier, createAndSaveClusterIdentifier,
     claimClusterObj, ClusterBuzz, updateClusterObj, issueConsolidatedHeartbeat,
     ClusterBuzzFails, StopClusterd, StartClusterd
<1>4. ASSUME NEW n \in Node,
             \/ AgentBuzz(n) \/ AgentBuzzFails(n) \/ UpdateState(n)
             \/ teardownNode(n) \/ deleteNode(n) \/ StopAgentd(n) \/ StartAgentd(n)
      PROVE  deleting' \subseteq deleting
  BY <1>4 DEF AgentBuzz, AgentBuzzFails, UpdateState, teardownNode, deleteNode,
     StopAgentd, StartAgentd
<1>5. CentraldStep \/ Tick \/ UNCHANGED vars => deleting' = deleting
  BY DEF CentraldStep, TimeoutClusters, TaskExec, Tick, vars
<1>6. \A n \in deleting' : n \in deleting \/ node[n] # Nothing
  BY <1>2, <1>3, <1>4, <1>5 DEF Next
<1>7. deleting' \subseteq Node
  BY TypeInv DEF TypeOK
<1> QED
  BY <1>1, <1>6, <1>7 DEF DeletedExist

-----------------------------------------------------------------------------
(* The invariant of every behaviour: the identifiers, the claims and the   *)
(* requests to delete are what the two properties rest on.                 *)
THEOREM Invariance == Spec => []IInv
<1>1. IInv /\ [Next]_vars => IInv'
  BY TypeInv, ClaimsInv, DeletedInv DEF IInv
<1> QED
  BY InitInv, <1>1, PTL DEF Spec

(* Every variable keeps its type.                                          *)
THEOREM TypeCorrect == Spec => []TypeOK
  BY Invariance, PTL DEF IInv

(* The processes that serve a Cluster object run in one cluster: each has  *)
(* the identifier that is in the object, made in the cluster it runs in.   *)
THEOREM OneSiteCorrect == Spec => []OneSite
<1>1. IInv => OneSite
  BY DEF IInv, IdentsAreLocal, ServersAreClaimed, Serving, OneSite
<1> QED
  BY <1>1, Invariance, PTL

(* No late heartbeat, whether the agentd's own update or a consolidated    *)
(* task, brings back a node that is being torn down.                       *)
THEOREM TornDownCorrect == Spec => TornDownStays
<1>1. IInv /\ [Next]_vars => [TornDownStep]_vars
  BY NodeSteps DEF IInv, NodeStep, TornDownStep
<1> QED
  BY <1>1, Invariance, PTL DEF Spec, TornDownStays

------------------------------------------------------------------------------
(* The state and the constants of the two modules that do not share those  *)
(* of Heartbeat; faults are counted by either.                             *)
CONSTANTS
    MaxFaults,
    OldName, NewName, OtherName, MaxCrashes,
    Kinds, MayStop, MaxVer, MaxConns

VARIABLES
    faults,
    name, first, taken, req, op, reverts, crashes,
    kind, ver, posted, uw, mon, dw, loop, term

R == INSTANCE Rename
N == INSTANCE Crude WITH cl <- loop

------------------------------------------------------------------------------
(* The steps of renameOp: there, and back.                                 *)
Forward == {"Start", "VS", "CG", "AG"}
Back == {"RevertAG", "RevertCG", "RevertVS"}
Steps == {"Done"} \cup Forward \cup Back

(* The types of the state of a RENAME.                                     *)
RenameTypes ==
    /\ name \in [R!Object -> R!GroupNames \cup {NewName}]
    /\ first \in [R!Object -> R!GroupNames] /\ first["VS"] = OldName
    /\ req \in [st : {"RENAMING", "UNDO_RENAMING", "SUCCEEDED", "FAILED", "CANCELED"},
                plan : BOOLEAN, tag : BOOLEAN, cancel : BOOLEAN]
    /\ op \in [ss : {"idle"} \cup Steps, groups : SUBSET {"CG", "AG"}, err : BOOLEAN]
    /\ reverts \in BOOLEAN

(* The request has come to its undo.                                       *)
Swapped == req.st \in {"UNDO_RENAMING", "FAILED", "CANCELED"}

(* An object has the name it had, or the new one from this request, which  *)
(* has kept the old one in its tag before, or it is a group that the undo  *)
(* took for one renamed; the groups loaded were named as the volume was,   *)
(* or are such groups.                                                     *)
NamesKnown ==
    /\ \A o \in R!Object :
          \/ name[o] = first[o]
          \/ name[o] = NewName /\ first[o] = OldName /\ ~req.plan /\ req.tag
          \/ Swapped /\ R!Misnamed(o) /\ ~req.plan /\ req.tag
    /\ \A g \in op.groups : first[g] = OldName \/ (Swapped /\ first[g] = NewName)

(* An object that still has to get the new name.                           *)
ToRename(o) == name[o] = OldName /\ ~req.plan

(* An object that the undo has taken back, or need not.                    *)
Reverted(o) == name[o] # NewName \/ req.plan \/ ~req.tag

(* On the way there, the objects before the next step have been renamed,   *)
(* and the groups still to rename are loaded: the handler loads them by    *)
(* name, and a restarted one sees the names its predecessor left.          *)
RenameAhead ==
    /\ op.ss \notin Back
    /\ op.ss \in Forward => \A g \in {"CG", "AG"} : ToRename(g) => g \in op.groups
    /\ op.ss \in {"VS", "CG", "AG"} => req.tag
    /\ op.ss \in {"CG", "AG"} => ~ToRename("VS")
    /\ op.ss = "AG" => ~ToRename("CG")
    /\ op.ss = "Done" /\ ~op.err /\ ~req.cancel => \A o \in R!Object : ~ToRename(o)

(* On the way back, in the opposite order, no object before the next step  *)
(* has the new name any more, and an error is remembered in reverts.       *)
RevertAhead ==
    /\ op.ss \notin Forward
    /\ op.ss \in Back => req.tag /\ ~op.err
    /\ op.ss \in Back => \A g \in {"CG", "AG"} : name[g] = NewName => g \in op.groups
    /\ op.ss \in {"RevertCG", "RevertVS"} => Reverted("AG")
    /\ op.ss = "RevertVS" => Reverted("CG")
    /\ op.ss = "Done" => IF op.err THEN ~reverts ELSE \A o \in R!Object : Reverted(o)

(* The inductive invariant of RENAME.                                      *)
RenameInv ==
    /\ RenameTypes
    /\ NamesKnown
    /\ op.ss # "idle" => R!Pending
    /\ op.ss = "idle" => ~op.err
    /\ req.st = "RENAMING" => RenameAhead
    /\ req.st = "UNDO_RENAMING" => RevertAhead
    /\ req.st = "SUCCEEDED" => \A o \in R!Object : ~ToRename(o)
    /\ req.st \in {"FAILED", "CANCELED"} /\ reverts => \A o \in R!Object : Reverted(o)

(* A request that has just begun: nothing is named anew.                   *)
LEMMA RenameInit ==
    ASSUME R!NamesAssumption, R!Init
    PROVE  RenameInv
<1>1. PICK c \in R!GroupNames, a \in R!GroupNames :
          name = [o \in R!Object |-> CASE o = "VS" -> OldName [] o = "CG" -> c [] o = "AG" -> a]
  BY DEF R!Init
<1>2. name \in [R!Object -> R!GroupNames] /\ name["VS"] = OldName
  <2>1. /\ name = [o \in R!Object |-> name[o]] /\ name["VS"] = OldName
        /\ name["CG"] = c /\ name["AG"] = a
    <3> DEFINE val(o) == CASE o = "VS" -> OldName [] o = "CG" -> c [] o = "AG" -> a
    <3>1. val("VS") = OldName /\ val("CG") = c /\ val("AG") = a
      OBVIOUS
    <3>2. name = [o \in R!Object |-> val(o)]
      BY <1>1
    <3> HIDE DEF val
    <3> QED
      BY <3>1, <3>2 DEF R!Object
  <2>2. \A o \in R!Object : name[o] \in R!GroupNames
    BY <2>1 DEF R!Object, R!GroupNames
  <2> QED
    BY <2>1, <2>2
<1>3. RenameTypes
  BY <1>2 DEF R!Init, R!Idle, RenameTypes, Steps, R!Object
<1> QED
  BY <1>3, <1>2 DEF R!Init, R!Idle, RenameInv, NamesKnown, RenameAhead, Forward, Back,
       Swapped, R!Misnamed, Reverted, R!NamesAssumption

(* getInitialState: the groups are loaded by name and the first step is    *)
(* chosen by the tag and the names, in either direction.                   *)
LEMMA RenameGetInitial ==
    ASSUME R!NamesAssumption, RenameInv, R!getInitialState
    PROVE  RenameInv'
<1>1. NamesKnown /\ first \in [R!Object -> R!GroupNames] /\ op.ss = "idle" /\ ~op.err
  BY DEF R!getInitialState, RenameInv, RenameTypes
<1>2. ASSUME NEW g \in SUBSET {"CG", "AG"}, NEW ss \in Steps,
             op' = [op EXCEPT !.groups = g, !.ss = ss],
             req.st = "RENAMING" => RenameAhead',
             req.st = "UNDO_RENAMING" => RevertAhead', \A x \in g : first[x] = OldName \/ (Swapped /\ first[x] = NewName)
      PROVE  RenameInv'
  <2>1. op' \in [ss : {"idle"} \cup Steps, groups : SUBSET {"CG", "AG"}, err : BOOLEAN] /\ op'.ss = ss
        /\ op'.groups = g /\ op'.err = op.err
    BY <1>2 DEF RenameInv, RenameTypes
  <2>2. UNCHANGED <<name, first, req, reverts>> /\ R!Pending
    BY DEF R!getInitialState
  <2>3. ss # "idle"
    BY DEF Steps, Forward, Back
  <2> QED
    BY <1>1, <1>2, <2>1, <2>2, <2>3 DEF RenameInv, RenameTypes, NamesKnown, R!Pending, ToRename,
       Swapped, R!Misnamed, Reverted, R!NamesAssumption
<1>3. CASE req.st = "UNDO_RENAMING"
  <2> DEFINE g == R!Matching(NewName)
             ss == R!UndoState(g)
  <2>1. g = {x \in {"CG", "AG"} : name[x] = NewName}
    BY DEF R!Matching
  <2>2. op' = [op EXCEPT !.groups = g, !.ss = ss]
    BY <1>3 DEF R!getInitialState
  <2> HIDE DEF g
  <2>3. /\ ss \in {"Done"} \cup Back
        /\ ss \in Back => req.tag
        /\ ss = "RevertCG" => "AG" \notin g
        /\ ss = "RevertVS" => g = {}
        /\ ss = "Done" /\ req.tag => g = {} /\ name["VS"] # NewName
    BY <2>1 DEF R!UndoState, Back
  <2> HIDE DEF ss
  <2>4. ss = "Done" => \A o \in R!Object : Reverted(o)
    BY <1>1, <2>1, <2>3 DEF R!Object, NamesKnown,
       Swapped, R!Misnamed, Reverted, R!NamesAssumption
  <2>5. op'.ss = ss /\ op'.groups = g /\ ~op'.err /\ UNCHANGED <<name, reverts, req>>
    BY <1>1, <2>2 DEF R!getInitialState, RenameInv, RenameTypes
  <2>6. RevertAhead'
    BY <2>1, <2>3, <2>4, <2>5 DEF RevertAhead, Back, Forward, R!Object,
       Swapped, R!Misnamed, Reverted, R!NamesAssumption
  <2>7. ss \in Steps
    BY <2>3 DEF Steps
  <2>8. \A x \in g : first[x] = OldName \/ (Swapped /\ first[x] = NewName)
    BY <1>1, <1>3, <2>1 DEF NamesKnown, R!Object,
       Swapped, R!Misnamed, Reverted, R!NamesAssumption
  <2> QED
    BY <1>2, <1>3, <2>1, <2>2, <2>6, <2>7, <2>8
<1>4. CASE req.st = "RENAMING"
  <2> DEFINE g == R!Matching(OldName)
             ss == IF req.cancel THEN "Done" ELSE R!ForwardState(g)
  <2>1. g = {x \in {"CG", "AG"} : name[x] = OldName}
    BY DEF R!Matching
  <2>2. op' = [op EXCEPT !.groups = g, !.ss = ss]
    BY <1>4 DEF R!getInitialState
  <2> HIDE DEF g
  <2>3. /\ ss \in {"Done"} \cup Forward
        /\ ss \in {"VS", "CG", "AG"} => req.tag
        /\ ss \in {"CG", "AG"} => name["VS"] # OldName
        /\ ss = "AG" => "CG" \notin g
        /\ ss = "Done" /\ ~req.cancel => g = {} /\ name["VS"] # OldName
    BY <2>1 DEF R!ForwardState, Forward
  <2> HIDE DEF ss
  <2>4. op'.ss = ss /\ op'.groups = g /\ UNCHANGED <<name, req>>
    BY <2>2 DEF R!getInitialState, RenameInv, RenameTypes
  <2>5. RenameAhead'
    BY <2>1, <2>3, <2>4 DEF RenameAhead, ToRename, Back, Forward, R!Object,
       Swapped, R!Misnamed, Reverted, R!NamesAssumption
  <2>6. ss \in Steps
    BY <2>3 DEF Steps
  <2>7. \A x \in g : first[x] = OldName
    BY <1>1, <1>4, <2>1 DEF NamesKnown, R!Object, R!NamesAssumption,
       Swapped, R!Misnamed, Reverted
  <2> QED
    BY <1>2, <1>4, <2>1, <2>2, <2>5, <2>6, <2>7
<1> QED
  BY <1>3, <1>4 DEF R!getInitialState, R!Pending

(* saveInitialState: the tag is saved with the old name, before any        *)
(* update.                                                                 *)
LEMMA RenameSave ==
    ASSUME R!NamesAssumption, RenameInv, R!saveInitialState
    PROVE  RenameInv'
BY DEF R!saveInitialState, RenameInv, RenameTypes, NamesKnown, RenameAhead, RevertAhead,
     R!Following, Steps, Back, Forward, R!Object, R!Pending, ToRename,
       Swapped, R!Misnamed, Reverted, R!NamesAssumption

(* A cancellation, a crash of centrald, the end of the handler.            *)
LEMMA RenameOthers ==
    ASSUME R!NamesAssumption, RenameInv, R!Cancel \/ R!Crash \/ R!Finish \/ UNCHANGED R!vars
    PROVE  RenameInv'
<1>1. CASE R!Cancel
  BY <1>1 DEF R!Cancel, RenameInv, RenameTypes, NamesKnown, RenameAhead, RevertAhead,
       R!Following, Steps, Back, Forward, R!Object, R!Pending, ToRename,
       Swapped, R!Misnamed, Reverted, R!NamesAssumption
<1>2. CASE R!Crash
  BY <1>2 DEF R!Crash, R!Idle, RenameInv, RenameTypes, NamesKnown, RenameAhead, RevertAhead,
       R!Following, Steps, Back, Forward, R!Object, R!Pending, ToRename,
       Swapped, R!Misnamed, Reverted, R!NamesAssumption
<1>3. CASE R!Finish
  BY <1>3 DEF R!Finish, R!Idle, RenameInv, RenameTypes, NamesKnown, RenameAhead, RevertAhead,
       R!Following, Steps, Back, Forward, R!Object, R!Pending, ToRename,
       Swapped, R!Misnamed, Reverted, R!NamesAssumption
<1>4. CASE UNCHANGED R!vars
  BY <1>4 DEF R!vars, RenameInv, RenameTypes, NamesKnown, RenameAhead, RevertAhead,
       R!Following, Steps, Back, Forward, R!Object, R!Pending, ToRename,
       Swapped, R!Misnamed, Reverted, R!NamesAssumption
<1> QED
  BY <1>1, <1>2, <1>3, <1>4

(* What a call of RENAME may do to its object o on the way to the name to: *)
(* the update is made and answered, or it fails, made or not.              *)
Renames(o, to, next) ==
    LET wanted == (o = "VS" \/ o \in op.groups) /\ ~req.plan /\ name[o] # to IN
    \/ /\ name' = [name EXCEPT ![o] = IF wanted THEN to ELSE @]
       /\ op' = [op EXCEPT !.ss = next] /\ UNCHANGED reverts
    \/ /\ name' \in {name, [name EXCEPT ![o] = to]} /\ wanted
       /\ op' = [op EXCEPT !.ss = "Done", !.err = TRUE]
       /\ reverts' = (reverts /\ to = NewName)

(* What comes of it: the next step with the object named, or the error.    *)
Renamed(o, to, next) ==
    /\ \/ /\ op'.ss = next /\ (op'.err <=> op.err)
          /\ (o = "VS" \/ o \in op.groups) /\ ~req.plan => name'[o] = to
       \/ op'.ss = "Done" /\ op'.err /\ (to = OldName => ~reverts')
    /\ op'.groups = op.groups
    /\ \A x \in R!Object : name'[x] = name[x] \/ (x = o /\ name'[x] = to)

(* A call that renames its object there or back leaves the names known.    *)
LEMMA RenameStep ==
    ASSUME R!NamesAssumption, RenameInv, NEW o \in R!Object,
           NEW to \in {OldName, NewName}, NEW next \in Steps,
           R!Pending, op.ss # "idle", Renames(o, to, next), UNCHANGED <<first, req>>,
           req.tag, Swapped <=> to = OldName
    PROVE  RenameTypes' /\ NamesKnown' /\ op'.ss # "idle" /\ Renamed(o, to, next)
<1>1. o = "VS" \/ o \in op.groups => first[o] = OldName \/ (Swapped /\ first[o] = NewName /\ o # "VS")
  BY DEF RenameInv, RenameTypes, NamesKnown, R!NamesAssumption,
       Swapped, R!Misnamed, Reverted
<1>2. name' \in [R!Object -> R!GroupNames \cup {NewName}]
  BY DEF Renames, RenameInv, RenameTypes, R!GroupNames
<1>3. op' \in [ss : {"idle"} \cup Steps, groups : SUBSET {"CG", "AG"}, err : BOOLEAN]
      /\ op'.ss \in Steps /\ op'.groups = op.groups
  BY DEF Renames, RenameInv, RenameTypes, Steps
<1>4. reverts' \in BOOLEAN
  <2>1. reverts \in BOOLEAN
    BY DEF RenameInv, RenameTypes
  <2>2. reverts' = reverts \/ reverts' = (reverts /\ to = NewName)
    BY DEF Renames
  <2> QED
    BY <2>1, <2>2
<1>5. RenameTypes'
  BY <1>2, <1>3, <1>4 DEF RenameInv, RenameTypes
<1>6. \A x \in R!Object : name'[x] = name[x] \/ (x = o /\ name'[x] = to /\ (o = "VS" \/ o \in op.groups) /\ ~req.plan)
  BY DEF Renames, RenameInv, RenameTypes
<1>7. NamesKnown'
  <2>1. Swapped' <=> Swapped
    BY DEF Swapped
  <2>2. \A g \in op'.groups : first'[g] = OldName \/ (Swapped' /\ first'[g] = NewName)
    BY <1>3, <2>1 DEF RenameInv, NamesKnown,
       Swapped, R!Misnamed, Reverted, R!NamesAssumption
  <2>3. ASSUME NEW x \in R!Object, name'[x] = name[x]
        PROVE  \/ name'[x] = first'[x]
               \/ name'[x] = NewName /\ first'[x] = OldName /\ ~req'.plan /\ req'.tag
               \/ Swapped' /\ R!Misnamed(x)' /\ ~req'.plan /\ req'.tag
    BY <2>1, <2>3 DEF RenameInv, NamesKnown, R!Misnamed,
       Swapped, Reverted, R!NamesAssumption
  <2>4. ASSUME NEW x \in R!Object, x = o, name'[x] = to, o = "VS" \/ o \in op.groups, ~req.plan
        PROVE  \/ name'[x] = first'[x]
               \/ name'[x] = NewName /\ first'[x] = OldName /\ ~req'.plan /\ req'.tag
               \/ Swapped' /\ R!Misnamed(x)' /\ ~req'.plan /\ req'.tag
    BY <1>1, <2>1, <2>4 DEF R!Misnamed, R!NamesAssumption
  <2> QED
    BY <1>6, <2>2, <2>3, <2>4 DEF NamesKnown,
       Swapped, R!Misnamed, Reverted, R!NamesAssumption
<1>8. op'.ss # "idle"
  BY <1>3 DEF Steps, Forward, Back
<1>9. Renamed(o, to, next)
  <2>1. OldName # NewName
    BY DEF R!NamesAssumption
  <2>2. op \in [ss : {"idle"} \cup Steps, groups : SUBSET {"CG", "AG"}, err : BOOLEAN] /\ o \in DOMAIN name
    BY DEF RenameInv, RenameTypes
  <2>3. to = OldName /\ reverts' = (reverts /\ to = NewName) => ~reverts'
    BY <2>1
  <2> QED
    BY <1>6, <2>2, <2>3 DEF Renamed, Renames
<1> QED
  BY <1>5, <1>7, <1>8, <1>9

(* The calls of rename(): volume, CG, AG.                                  *)
LEMMA RenameForward ==
    ASSUME R!NamesAssumption, RenameInv, R!Rename, req.st = "RENAMING"
    PROVE  RenameInv'
<1>1. RenameAhead /\ R!Pending /\ RenameTypes
  BY DEF RenameInv, R!Pending
<1>2. UNCHANGED <<first, req>>
  BY DEF R!Rename
<1>3. op.ss \in {"VS", "CG", "AG"}
  BY <1>1 DEF RenameAhead, R!Rename, R!Following, Back,
       Swapped, R!Misnamed, Reverted, R!NamesAssumption
<1>4. req.tag
  BY <1>1, <1>3 DEF RenameAhead,
       Swapped, R!Misnamed, Reverted, R!NamesAssumption
<1>5. ASSUME NEW o \in {"VS", "CG", "AG"}, NEW next \in {"CG", "AG", "Done"}, op.ss = o,
             R!Following[o] = next
      PROVE  RenameTypes' /\ NamesKnown' /\ op'.ss # "idle" /\ Renamed(o, NewName, next)
  <2>1. Renames(o, NewName, next)
    <3>1. ~R!Reverting /\ R!Target[o] = o
      BY <1>5 DEF R!Reverting, R!Target
    <3>2. reverts = (reverts /\ NewName = NewName)
      BY <1>1 DEF RenameTypes
    <3> QED
      BY <1>5, <3>1, <3>2 DEF R!Rename, Renames
  <2>2. o \in R!Object /\ next \in Steps /\ op.ss # "idle"
    BY <1>5 DEF R!Object, Steps, Forward
  <2>3. Swapped <=> NewName = OldName
    BY DEF Swapped, R!NamesAssumption
  <2> QED
    BY <1>1, <1>2, <1>4, <2>1, <2>2, <2>3, RenameStep
<1>6. ASSUME RenameAhead', RenameTypes', NamesKnown', op'.ss # "idle"
      PROVE  RenameInv'
  BY <1>2, <1>6 DEF RenameInv, R!Pending
<1>7. CASE op.ss = "VS"
  <2>1. R!Following["VS"] = "CG"
    BY DEF R!Following
  <2>2. RenameTypes' /\ NamesKnown' /\ op'.ss # "idle" /\ Renamed("VS", NewName, "CG")
    BY <1>5, <1>7, <2>1
  <2>3. RenameAhead'
    BY <1>1, <1>2, <1>4, <1>7, <2>2 DEF RenameAhead, Renamed, Forward, Back, ToRename,
         R!Object, R!GroupNames,
       Swapped, R!Misnamed, Reverted, R!NamesAssumption
  <2> QED
    BY <1>6, <2>2, <2>3
<1>8. CASE op.ss = "CG"
  <2>1. R!Following["CG"] = "AG"
    BY DEF R!Following
  <2>2. RenameTypes' /\ NamesKnown' /\ op'.ss # "idle" /\ Renamed("CG", NewName, "AG")
    BY <1>5, <1>8, <2>1
  <2>3. RenameAhead'
    BY <1>1, <1>2, <1>4, <1>8, <2>2 DEF RenameAhead, Renamed, Forward, Back, ToRename,
         R!Object, R!GroupNames,
       Swapped, R!Misnamed, Reverted, R!NamesAssumption
  <2> QED
    BY <1>6, <2>2, <2>3
<1>9. CASE op.ss = "AG"
  <2>1. R!Following["AG"] = "Done"
    BY DEF R!Following
  <2>2. RenameTypes' /\ NamesKnown' /\ op'.ss # "idle" /\ Renamed("AG", NewName, "Done")
    BY <1>5, <1>9, <2>1
  <2>3. RenameAhead'
    BY <1>1, <1>2, <1>4, <1>9, <2>2 DEF RenameAhead, Renamed, Forward, Back, ToRename,
         R!Object, R!GroupNames,
       Swapped, R!Misnamed, Reverted, R!NamesAssumption
  <2> QED
    BY <1>6, <2>2, <2>3
<1> QED
  BY <1>3, <1>7, <1>8, <1>9

(* The calls of the undo: AG, CG, volume.                                  *)
LEMMA RenameBack ==
    ASSUME R!NamesAssumption, RenameInv, R!Rename, req.st = "UNDO_RENAMING"
    PROVE  RenameInv'
<1>1. RevertAhead /\ R!Pending /\ RenameTypes /\ NamesKnown
  BY DEF RenameInv, R!Pending
<1>2. UNCHANGED <<first, req>>
  BY DEF R!Rename
<1>3. op.ss \in Back
  BY <1>1 DEF RevertAhead, R!Rename, R!Following, Back, Forward,
       Swapped, R!Misnamed, Reverted, R!NamesAssumption
<1>4. req.tag
  BY <1>1, <1>3 DEF RevertAhead,
       Swapped, R!Misnamed, Reverted, R!NamesAssumption
<1>5. ASSUME NEW ss \in Back, NEW o \in R!Object, NEW next \in {"RevertCG", "RevertVS", "Done"}, op.ss = ss,
             R!Target[ss] = o, R!Following[ss] = next
      PROVE  RenameTypes' /\ NamesKnown' /\ op'.ss # "idle" /\ Renamed(o, OldName, next)
  <2>1. Renames(o, OldName, next)
    <3>1. R!Reverting
      BY <1>5 DEF R!Reverting, Back
    <3>2. OldName # NewName
      BY DEF R!NamesAssumption
    <3> QED
      BY <1>5, <3>1, <3>2 DEF R!Rename, Renames
  <2>2. next \in Steps /\ op.ss # "idle"
    BY <1>5 DEF Steps, Back
  <2>3. Swapped <=> OldName = OldName
    BY DEF Swapped
  <2> QED
    BY <1>1, <1>2, <1>4, <2>1, <2>2, <2>3, RenameStep
<1>6. ASSUME RevertAhead', RenameTypes', NamesKnown', op'.ss # "idle"
      PROVE  RenameInv'
  BY <1>2, <1>6 DEF RenameInv, R!Pending
<1>7. CASE op.ss = "RevertAG"
  <2>1. R!Following["RevertAG"] = "RevertCG" /\ R!Target["RevertAG"] = "AG"
    BY DEF R!Following, R!Target
  <2>2. RenameTypes' /\ NamesKnown' /\ op'.ss # "idle" /\ Renamed("AG", OldName, "RevertCG")
    BY <1>3, <1>5, <1>7, <2>1 DEF R!Object
  <2>3. RevertAhead'
    BY <1>1, <1>2, <1>4, <1>7, <2>2 DEF RevertAhead, Renamed, RenameTypes, NamesKnown, Forward,
         Back, R!Object, R!GroupNames,
       Swapped, R!Misnamed, Reverted, R!NamesAssumption
  <2> QED
    BY <1>6, <2>2, <2>3
<1>8. CASE op.ss = "RevertCG"
  <2>1. R!Following["RevertCG"] = "RevertVS" /\ R!Target["RevertCG"] = "CG"
    BY DEF R!Following, R!Target
  <2>2. RenameTypes' /\ NamesKnown' /\ op'.ss # "idle" /\ Renamed("CG", OldName, "RevertVS")
    BY <1>3, <1>5, <1>8, <2>1 DEF R!Object
  <2>3. RevertAhead'
    BY <1>1, <1>2, <1>4, <1>8, <2>2 DEF RevertAhead, Renamed, RenameTypes, NamesKnown, Forward,
         Back, R!Object, R!GroupNames,
       Swapped, R!Misnamed, Reverted, R!NamesAssumption
  <2> QED
    BY <1>6, <2>2, <2>3
<1>9. CASE op.ss = "RevertVS"
  <2>1. R!Following["RevertVS"] = "Done" /\ R!Target["RevertVS"] = "VS"
    BY DEF R!Following, R!Target
  <2>2. RenameTypes' /\ NamesKnown' /\ op'.ss # "idle" /\ Renamed("VS", OldName, "Done")
    BY <1>3, <1>5, <1>9, <2>1 DEF R!Object
  <2>3. RevertAhead'
    BY <1>1, <1>2, <1>4, <1>9, <2>2 DEF RevertAhead, Renamed, RenameTypes, NamesKnown, Forward,
         Back, R!Object, R!GroupNames,
       Swapped, R!Misnamed, Reverted, R!NamesAssumption
  <2> QED
    BY <1>6, <2>2, <2>3
<1> QED
  BY <1>3, <1>7, <1>8, <1>9 DEF Back

(* Either direction of the handler.                                        *)
LEMMA RenameRename ==
    ASSUME R!NamesAssumption, RenameInv, R!Rename
    PROVE  RenameInv'
<1>1. R!Pending
  BY DEF R!Rename, RenameInv, R!Following
<1> QED
  BY <1>1, RenameForward, RenameBack DEF R!Pending

(* A RENAME that succeeded has renamed the volume and the groups named as  *)
(* it was, and nothing else, and one that did not leaves every name as it  *)
(* was unless a call of its undo failed, but for groups that had the new   *)
(* name before (rename.go:143): for any names of the groups and any number *)
(* of failed calls and crashes of centrald.  The hypothesis is what the    *)
(* handler of the API checks (volume_series_request_handlers.go:754-763).  *)
THEOREM RenameCorrect ==
    ASSUME R!NamesAssumption
    PROVE  R!Spec => []R!RenameIsWhole
<1>1. RenameInv => R!RenameIsWhole
  BY DEF RenameInv, RenameTypes, NamesKnown, ToRename, R!RenameIsWhole, R!RenamedTogether,
       R!UndoneAsBefore,
       Swapped, R!Misnamed, Reverted, R!NamesAssumption
<1>2. RenameInv /\ [R!Next]_(R!vars) => RenameInv'
  BY RenameGetInitial, RenameSave, RenameRename, RenameOthers DEF R!Next, R!Handler
<1> QED
  BY <1>1, <1>2, RenameInit, PTL DEF R!Spec

------------------------------------------------------------------------------
(* The fields of the record of a loop.                                     *)
LoopFields == {"pc", "flagged", "seen", "due", "active", "held", "doneVer"}

(* The inductive invariant: an animator that dispatches or waits, while    *)
(* the last version it was notified of is newer than the one it fetched,   *)
(* has the flag set (its notification came after notifyReset).             *)
LoopInv ==
    /\ ver \in Nat
    /\ loop = [f \in LoopFields |-> loop[f]]
    /\ kind # "waiter" /\ loop.pc \in {"dispatch", "wait"} /\ loop.due > loop.seen => loop.flagged

(* A loop that has not started.                                            *)
LEMMA LoopInit == N!Init => LoopInv
BY DEF N!Init, N!Loop0, LoopInv, LoopFields

(* The steps of the loop: the flag is reset before RunBody fetches, and it *)
(* fetches the version of that moment.                                     *)
LEMMA LoopGoes ==
    ASSUME LoopInv, N!LoopStep \/ N!GiveUp \/ N!Done
    PROVE  LoopInv'
<1> USE DEF LoopInv, LoopFields, N!At, N!Goto, N!LoopOnly
<1>1. CASE N!Start
  BY <1>1 DEF N!Start
<1>2. CASE N!Watch
  BY <1>2 DEF N!Watch
<1>3. CASE N!notifyReset
  BY <1>3 DEF N!notifyReset
<1>4. CASE N!RunBody
  <2>1. loop' = [f \in LoopFields |-> loop'[f]] /\ loop'.due = 0 /\ loop'.seen = ver /\ ver' = ver
    BY <1>4 DEF N!RunBody
  <2>2. ~(0 > ver)
    OBVIOUS
  <2> QED
    BY <2>1, <2>2
<1>5. CASE N!DispatchRequests
  BY <1>5 DEF N!DispatchRequests
<1>6. CASE N!Awakened
  BY <1>6 DEF N!Awakened
<1>7. CASE N!NewInterval
  BY <1>7 DEF N!NewInterval
<1>8. CASE N!CtxDone
  BY <1>8 DEF N!CtxDone
<1>9. CASE N!Fetch
  BY <1>9 DEF N!Fetch
<1>10. CASE N!Check
  BY <1>10 DEF N!Check
<1>11. CASE N!GiveUp
  BY <1>11 DEF N!GiveUp
<1>12. CASE N!Done
  BY <1>12 DEF N!Done
<1> QED
  BY <1>1, <1>2, <1>3, <1>4, <1>5, <1>6, <1>7, <1>8, <1>9, <1>10, <1>11, <1>12 DEF N!LoopStep

(* CrudeNotify of the loop sets the flag.                                  *)
LEMMA LoopNotified ==
    ASSUME LoopInv, N!Deliver
    PROVE  LoopInv'
<1>1. ver' = ver /\ kind' = kind
  BY DEF N!Deliver
<1>2. loop' = loop \/ \E v : loop' = N!CrudeNotify(v)
  BY DEF N!Deliver
<1>3. ASSUME NEW v, loop' = N!CrudeNotify(v) PROVE LoopInv'
  BY <1>1, <1>3 DEF N!CrudeNotify, N!Notify, LoopInv, LoopFields
<1> QED
  BY <1>1, <1>2, <1>3 DEF LoopInv

(* Writes make the version grow and leave the loop alone.                  *)
LEMMA LoopWrites ==
    ASSUME LoopInv, N!Write \/ N!GoroutineUpdates
    PROVE  LoopInv'
BY DEF LoopInv, LoopFields, N!Write, N!GoroutineUpdates

(* The upstream watcher, the monitor and the termination leave it alone.   *)
LEMMA LoopKept ==
    ASSUME LoopInv, N!Upstream \/ N!UpRestart \/ N!Monitor \/ N!Break
                    \/ N!TerminateAllWatchers \/ N!AllTerminated \/ UNCHANGED N!vars
    PROVE  LoopInv'
<1>1. UNCHANGED <<ver, kind, loop>>
  BY DEF N!Upstream, N!CollectorMiddleware, N!Send, N!UpTerminates, N!UpQuits, N!UpRestart,
         N!Monitor, N!WatcherCreate, N!Dial, N!ConnOpen, N!ReadJSON, N!Backoff, N!Break,
         N!TerminateAllWatchers, N!AllTerminated, N!vars
<1> QED
  BY <1>1 DEF LoopInv

(* A notification of something newer than what an animator has fetched     *)
(* never finds it going to sleep with the flag clear: for any number of    *)
(* versions, connections and faults, with any of the kinds of loop.        *)
THEOREM WakeupCorrect == N!Spec => []N!NoLostWakeup
<1>1. LoopInv => N!NoLostWakeup
  BY DEF LoopInv, N!NoLostWakeup, N!NotifiedIsFlagged
<1>2. LoopInv /\ [N!Next]_(N!vars) => LoopInv'
  BY LoopGoes, LoopNotified, LoopWrites, LoopKept DEF N!Next
<1> QED
  BY <1>1, <1>2, LoopInit, PTL DEF N!Spec

------------------------------------------------------------------------------
(* The plugins of the clouds (CspVolume).                                  *)
CONSTANTS Clouds, Vol, MaxDev, MaxGoals, None

VARIABLES
    cloud, disk, labels, prints, goal, view, call, attachingNodeDevices,
    nvme, devCache, looked, goals

P == INSTANCE CspVolume WITH kind <- cloud, Kinds <- Clouds

(* The fields of a call and of a volume, and what else the steps need of   *)
(* the types.                                                              *)
CallFields == {"pc", "seen", "dev", "labels", "print"}
DiskFields == {"there", "att", "dev"}

CloudTypes ==
    /\ DOMAIN call = Vol /\ DOMAIN disk = Vol /\ DOMAIN goal = Vol
    /\ DOMAIN view = Vol /\ DOMAIN labels = Vol /\ DOMAIN looked = Vol
    /\ prints \in [Vol -> Nat] /\ faults \in Nat
    /\ \A v \in Vol : DOMAIN call[v] = CallFields /\ DOMAIN disk[v] = DiskFields

(* What a call knows.  A volume somebody wants attached, detached or       *)
(* deleted is in doubt until the answer; the tags a call of GCE is going   *)
(* to write are those of the volume if the fingerprint is; on AWS a volume *)
(* that the instance did not show is not attached, and nobody else can     *)
(* attach it before this call does.                                        *)
CallIsTrue(v) ==
    /\ goal[v] = "none" => call[v].pc = "idle"
    /\ goal[v] \in {"attach", "detach", "delete"} => view[v] = "unsure"
    /\ cloud = "GCE" /\ goal[v] = "untag" /\ call[v].pc = "call" =>
          /\ call[v].print \in Nat /\ call[v].print <= prints[v]
          /\ call[v].print = prints[v] => call[v].labels = labels[v]
    /\ cloud = "AWS" /\ goal[v] = "attach" /\ call[v].pc = "path"
          /\ (\A m \in call[v].seen : m[2] # v) => disk[v].att = "detached"
    /\ cloud = "AWS" /\ goal[v] = "attach" /\ call[v].pc = "call" => disk[v].att = "detached"

(* The inductive invariant of the plugins.                                 *)
CallInv == CloudTypes /\ \A v \in Vol : CallIsTrue(v)

(* Nothing is called in the beginning.                                     *)
LEMMA CallInit == P!Init => CallInv
  BY DEF P!Init, P!Idle, CallInv, CloudTypes, CallIsTrue, CallFields, DiskFields

(* A step of one volume.                                                   *)
OneStep(u) ==
    \/ \E g \in {"attach", "detach", "delete", "untag"} : P!Start(u, g)
    \/ P!Call(u) \/ P!CallFails(u) \/ P!Cloud(u) \/ P!UserLabels(u)
    \/ P!findLocalNVMeDeviceByID(u)

(* How a call goes on or ends, common to all plugins.                      *)
USE DEF P!Ok, P!Err, P!Goto, P!Refused, P!Att, P!At, P!Release, P!Fault, P!NoFault,
        P!Idle, P!cloudVars, P!agentVars

(* What the calls of the volume operations, and those of the tags, leave.  *)
VolumeCalls(u) ==
    /\ P!VolumeCall(u)
    /\ UNCHANGED <<faults, cloud, labels, prints, nvme, devCache, looked, goals>>
TagCalls(u) == P!TagCall(u) /\ UNCHANGED <<faults, cloud, disk, nvme, devCache, looked, goals>>

(* Types: a request is launched.                                           *)
LEMMA StartTypes ==
    ASSUME CloudTypes, NEW u \in Vol, NEW g \in {"attach", "detach", "delete", "untag"},
           P!Start(u, g)
    PROVE  CloudTypes'
BY DEF P!Start, CloudTypes

(* Types: a call begins or is given up.                                    *)
LEMMA BeginTypes ==
    ASSUME CloudTypes, NEW u \in Vol, P!Begin(u) \/ P!CallFails(u)
    PROVE  CloudTypes'
BY DEF P!Begin, P!CallFails, CloudTypes, CallFields

(* Types: the cloud, its user and agentd.                                  *)
LEMMA OutsideTypes ==
    ASSUME CloudTypes, NEW u \in Vol,
           P!Cloud(u) \/ P!UserLabels(u) \/ P!findLocalNVMeDeviceByID(u)
    PROVE  CloudTypes'
<1>1. CASE P!Cloud(u)
  BY <1>1 DEF P!Cloud, CloudTypes, DiskFields
<1>2. CASE P!UserLabels(u)
  BY <1>2 DEF P!UserLabels, CloudTypes
<1>3. CASE P!findLocalNVMeDeviceByID(u)
  BY <1>3 DEF P!findLocalNVMeDeviceByID, P!Found, CloudTypes
<1> QED
  BY <1>1, <1>2, <1>3

(* Types: the removal of a tag.                                            *)
LEMMA TagTypes == ASSUME CloudTypes, NEW u \in Vol, TagCalls(u) PROVE CloudTypes'
BY DEF TagCalls, P!TagCall, P!intSetLabels, P!VolumeTagsDelete, CloudTypes, CallFields

(* Types: the volume operations.                                           *)
LEMMA CallTypes ==
    ASSUME CloudTypes, NEW u \in Vol, VolumeCalls(u)
    PROVE  CloudTypes'
<1> USE DEF VolumeCalls, CloudTypes, CallFields, DiskFields
<1>1. CASE P!awsEC2InstanceFetch(u)
  BY <1>1 DEF P!awsEC2InstanceFetch
<1>2. CASE P!awsEC2VolumeDevicePath(u)
  BY <1>2 DEF P!awsEC2VolumeDevicePath
<1>3. CASE P!awsEC2VolumeAttach(u)
  BY <1>3 DEF P!awsEC2VolumeAttach
<1>4. CASE P!awsEC2VolumeWaitForAttachmentState(u)
  BY <1>4 DEF P!awsEC2VolumeWaitForAttachmentState
<1>5. CASE P!awsEC2VolumeDetach(u)
  BY <1>5 DEF P!awsEC2VolumeDetach
<1>6. CASE P!awsEC2VolumeDelete(u)
  BY <1>6 DEF P!awsEC2VolumeDelete
<1>7. CASE P!azVolumeAttach(u)
  BY <1>7 DEF P!azVolumeAttach, P!CreateOrUpdate
<1>8. CASE P!azVolumeDetach(u)
  BY <1>8 DEF P!azVolumeDetach, P!CreateOrUpdate
<1>9. CASE P!azVolumeDelete(u)
  BY <1>9 DEF P!azVolumeDelete
<1>10. CASE P!gceVolumeAttach(u)
  BY <1>10 DEF P!gceVolumeAttach
<1>11. CASE P!gceVolumeDetach(u)
  BY <1>11 DEF P!gceVolumeDetach
<1>12. CASE P!gceVolumeDelete(u)
  BY <1>12 DEF P!gceVolumeDelete
<1> QED
  BY <1>1, <1>2, <1>3, <1>4, <1>5, <1>6, <1>7, <1>8, <1>9, <1>10, <1>11, <1>12
     DEF P!VolumeCall

(* A step of one volume leaves the others alone, except on Azure.          *)
LEMMA OthersKept ==
    ASSUME CloudTypes, NEW u \in Vol, OneStep(u), NEW v \in Vol, v # u
    PROVE /\ call'[v] = call[v] /\ goal'[v] = goal[v] /\ view'[v] = view[v]
          /\ labels'[v] = labels[v] /\ prints'[v] = prints[v]
          /\ cloud' = cloud /\ (cloud # "Azure" => disk'[v] = disk[v])
<1> USE DEF CloudTypes, VolumeCalls, TagCalls
<1>1. CASE VolumeCalls(u)
  <2>1. CASE P!azVolumeAttach(u)
    BY <1>1, <2>1 DEF P!azVolumeAttach
  <2>2. CASE P!azVolumeDetach(u)
    BY <1>1, <2>2 DEF P!azVolumeDetach
  <2>3. CASE P!azVolumeDelete(u)
    BY <1>1, <2>3 DEF P!azVolumeDelete
  <2>4. CASE P!awsEC2InstanceFetch(u) \/ P!awsEC2VolumeDevicePath(u)
    BY <1>1, <2>4 DEF P!awsEC2InstanceFetch, P!awsEC2VolumeDevicePath
  <2>5. CASE P!awsEC2VolumeAttach(u) \/ P!awsEC2VolumeWaitForAttachmentState(u)
    BY <1>1, <2>5 DEF P!awsEC2VolumeAttach, P!awsEC2VolumeWaitForAttachmentState
  <2>6. CASE P!awsEC2VolumeDetach(u)
    BY <1>1, <2>6 DEF P!awsEC2VolumeDetach
  <2>7. CASE P!awsEC2VolumeDelete(u)
    BY <1>1, <2>7 DEF P!awsEC2VolumeDelete
  <2>8. CASE P!gceVolumeAttach(u)
    BY <1>1, <2>8 DEF P!gceVolumeAttach
  <2>9. CASE P!gceVolumeDetach(u)
    BY <1>1, <2>9 DEF P!gceVolumeDetach
  <2>10. CASE P!gceVolumeDelete(u)
    BY <1>1, <2>10 DEF P!gceVolumeDelete
  <2> QED
    BY <1>1, <2>1, <2>2, <2>3, <2>4, <2>5, <2>6, <2>7, <2>8, <2>9, <2>10 DEF P!VolumeCall
<1>2. CASE TagCalls(u)
  BY <1>2 DEF P!TagCall, P!intSetLabels, P!VolumeTagsDelete
<1>3. CASE P!Begin(u) \/ P!CallFails(u)
  BY <1>3 DEF P!Begin, P!CallFails
<1>4. CASE P!Cloud(u)
  BY <1>4 DEF P!Cloud
<1>5. CASE P!UserLabels(u) \/ P!findLocalNVMeDeviceByID(u)
  BY <1>5 DEF P!UserLabels, P!findLocalNVMeDeviceByID
<1>6. CASE \E g \in {"attach", "detach", "delete", "untag"} : P!Start(u, g)
  BY <1>6 DEF P!Start
<1> QED
  BY <1>1, <1>2, <1>3, <1>4, <1>5, <1>6 DEF OneStep, P!Call

(* What a step promises of its volume: on AWS no failure is due to its     *)
(* being attached already, and an answer is true.                          *)
Mine(v) ==
    P!Fails(v, "attach") /\ faults' = faults /\ cloud = "AWS" => disk[v].att # "attached"
Answers(v) ==
    cloud # "Azure" =>
          /\ P!Succeeds(v, "attach") => disk'[v].att = "attached"
          /\ P!Succeeds(v, "detach") => disk'[v].att = "detached"
          /\ P!Succeeds(v, "delete") => ~disk'[v].there
          /\ goal[v] = "untag" /\ "user" \in labels[v] => "user" \in labels'[v]

(* The instance is fetched: a volume that it does not show is not attached.*)
LEMMA FetchStep ==
    ASSUME CloudTypes, NEW u \in Vol, CallIsTrue(u), P!awsEC2InstanceFetch(u)
    PROVE  /\ cloud = "AWS" /\ goal[u] = "attach" /\ UNCHANGED <<disk, goal, view>>
           /\ call'[u].pc = "path"
           /\ (\A m \in call'[u].seen : m[2] # u) => disk[u].att = "detached"
<1>1. /\ cloud = "AWS" /\ goal[u] = "attach" /\ UNCHANGED <<disk, goal, view>>
      /\ call'[u].pc = "path" /\ call'[u].seen = P!Mapped
  BY DEF P!awsEC2InstanceFetch, CloudTypes, CallFields
<1>2. ASSUME disk[u].att # "detached" PROVE \E m \in P!Mapped : m[2] = u
  <2>1. <<disk[u].dev, u>> \in P!Mapped
    BY <1>2 DEF P!Mapped
  <2> QED
    BY <2>1
<1> QED
  BY <1>1, <1>2

(* A name is taken only for a volume that is not attached.                 *)
LEMMA PathStep ==
    ASSUME CloudTypes, NEW u \in Vol, CallIsTrue(u), P!awsEC2VolumeDevicePath(u)
    PROVE  /\ cloud = "AWS" /\ goal[u] = "attach" /\ call[u].pc = "path" /\ UNCHANGED disk
           /\ \/ call'[u].pc = "wait" /\ UNCHANGED <<goal, view>>
              \/ disk[u].att = "detached" /\ call'[u].pc = "call" /\ UNCHANGED <<goal, view>>
              \/ disk[u].att = "detached" /\ P!Err(u)
<1> DEFINE mine == {m \in call[u].seen : m[2] = u}
<1>1. cloud = "AWS" /\ goal[u] = "attach" /\ call[u].pc = "path" /\ UNCHANGED disk
  BY DEF P!awsEC2VolumeDevicePath
<1>2. mine = {} => disk[u].att = "detached"
  <2>1. mine = {} => \A m \in call[u].seen : m[2] # u
    OBVIOUS
  <2> QED
    BY <2>1, <1>1 DEF CallIsTrue
<1> HIDE DEF mine
<1>3. \/ P!Goto(u, "wait")
      \/ mine = {} /\ call'[u].pc = "call" /\ UNCHANGED <<goal, view>>
      \/ mine = {} /\ P!Err(u)
  <2>1. CASE mine # {} /\ P!Goto(u, "wait")
    BY <2>1
  <2>2. ASSUME NEW d, mine = {},
               call' = [call EXCEPT ![u].pc = "call", ![u].dev = d, ![u].print = 1],
               UNCHANGED <<goal, view>>
        PROVE  mine = {} /\ call'[u].pc = "call" /\ UNCHANGED <<goal, view>>
    BY <2>2 DEF CloudTypes, CallFields
  <2> HIDE DEF P!Err, P!Goto, P!Ok, P!Refused
  <2> QED
    BY <2>1, <2>2 DEF P!awsEC2VolumeDevicePath, mine
<1> QED
  BY <1>1, <1>2, <1>3 DEF CloudTypes, CallFields

(* The calls of the volume operations.                                     *)
LEMMA VolumeStep ==
    ASSUME CloudTypes, NEW u \in Vol, CallIsTrue(u),
           VolumeCalls(u)
    PROVE  CallIsTrue(u)' /\ Mine(u) /\ Answers(u)
<1> USE DEF CloudTypes, CallIsTrue, CallFields, DiskFields, Mine, Answers, P!Succeeds, P!Fails,
            VolumeCalls, TagCalls
<1>1. CASE P!awsEC2InstanceFetch(u)
  BY <1>1, FetchStep
<1>2. CASE P!awsEC2VolumeDevicePath(u)
  <2>1. CASE P!Err(u) /\ disk[u].att = "detached" /\ UNCHANGED disk
    BY <2>1
  <2> QED
    BY <1>2, <2>1, PathStep
<1>3. CASE P!awsEC2VolumeAttach(u)
  BY <1>3 DEF P!awsEC2VolumeAttach
<1>4. CASE P!awsEC2VolumeWaitForAttachmentState(u)
  BY <1>4 DEF P!awsEC2VolumeWaitForAttachmentState
<1>5. CASE P!awsEC2VolumeDetach(u)
  BY <1>5 DEF P!awsEC2VolumeDetach
<1>6. CASE P!awsEC2VolumeDelete(u)
  BY <1>6 DEF P!awsEC2VolumeDelete
<1>7. CASE P!azVolumeAttach(u)
  BY <1>7 DEF P!azVolumeAttach
<1>8. CASE P!azVolumeDetach(u)
  BY <1>8 DEF P!azVolumeDetach
<1>9. CASE P!azVolumeDelete(u)
  BY <1>9 DEF P!azVolumeDelete
<1>10. CASE P!gceVolumeAttach(u)
  BY <1>10 DEF P!gceVolumeAttach
<1>11. CASE P!gceVolumeDetach(u)
  BY <1>11 DEF P!gceVolumeDetach
<1>12. CASE P!gceVolumeDelete(u)
  BY <1>12 DEF P!gceVolumeDelete
<1> QED
  BY <1>1, <1>2, <1>3, <1>4, <1>5, <1>6, <1>7, <1>8, <1>9, <1>10, <1>11, <1>12
     DEF P!VolumeCall

(* What else happens to a volume.                                          *)
LEMMA OtherSteps ==
    ASSUME CloudTypes, NEW u \in Vol, CallIsTrue(u), OneStep(u),
           ~VolumeCalls(u)
    PROVE  CallIsTrue(u)' /\ Mine(u) /\ Answers(u)
<1> USE DEF CloudTypes, CallIsTrue, CallFields, DiskFields, Mine, Answers, P!Succeeds, P!Fails,
            VolumeCalls, TagCalls
<1>1. CASE P!Begin(u)
  BY <1>1 DEF P!Begin
<1>2. CASE P!intSetLabels(u) /\ UNCHANGED <<faults, cloud, disk, nvme, devCache, looked, goals>>
  BY <1>2 DEF P!intSetLabels
<1>3. CASE P!VolumeTagsDelete(u) /\ UNCHANGED <<faults, cloud, disk, nvme, devCache, looked, goals>>
  BY <1>3 DEF P!VolumeTagsDelete
<1>4. CASE P!CallFails(u)
  BY <1>4 DEF P!CallFails
<1>5. CASE P!Cloud(u)
  BY <1>5 DEF P!Cloud
<1>6. CASE P!UserLabels(u)
  BY <1>6 DEF P!UserLabels
<1>7. CASE P!findLocalNVMeDeviceByID(u)
  BY <1>7 DEF P!findLocalNVMeDeviceByID
<1>8. CASE \E g \in {"attach", "detach", "delete", "untag"} : P!Start(u, g)
  BY <1>8 DEF P!Start
<1> QED
  BY <1>1, <1>2, <1>3, <1>4, <1>5, <1>6, <1>7, <1>8 DEF OneStep, P!Call, P!TagCall

(* Types: every step.                                                      *)
LEMMA AllTypes == ASSUME CallInv, [P!Next]_(P!vars) PROVE CloudTypes'
<1>1. CloudTypes
  BY DEF CallInv
<1>2. ASSUME NEW u \in Vol, OneStep(u) PROVE CloudTypes'
  BY <1>1, <1>2, StartTypes, BeginTypes, OutsideTypes, TagTypes, CallTypes
     DEF OneStep, P!Call, VolumeCalls, TagCalls
<1>3. CASE P!Restart
  BY <1>1, <1>3 DEF P!Restart, CloudTypes, CallFields
<1>4. CASE UNCHANGED P!vars
  BY <1>1, <1>4 DEF P!vars, CloudTypes
<1> QED
  BY <1>2, <1>3, <1>4 DEF P!Next, OneStep

(* Every step, for every volume.                                           *)
LEMMA WordKept ==
    ASSUME CallInv, [P!Next]_(P!vars)
    PROVE  /\ \A v \in Vol : CallIsTrue(v)'
           /\ P!Next => \A v \in Vol : Mine(v) /\ Answers(v)
<1>1. CloudTypes /\ \A v \in Vol : CallIsTrue(v)
  BY DEF CallInv
<1>2. ASSUME NEW u \in Vol, OneStep(u), NEW v \in Vol
      PROVE  CallIsTrue(v)' /\ Mine(v) /\ Answers(v)
  <2>1. CASE v = u
    BY <1>1, <1>2, <2>1, VolumeStep, OtherSteps
  <2>2. CASE v # u
    <3>1. /\ call'[v] = call[v] /\ goal'[v] = goal[v] /\ view'[v] = view[v]
          /\ labels'[v] = labels[v] /\ prints'[v] = prints[v]
          /\ cloud' = cloud /\ (cloud # "Azure" => disk'[v] = disk[v])
      BY <1>1, <1>2, <2>2, OthersKept
    <3>2. CallIsTrue(v)'
      BY <1>1, <3>1 DEF CallIsTrue
    <3> QED
      BY <3>1, <3>2 DEF Mine, Answers, P!Succeeds, P!Fails
  <2> QED
    BY <2>1, <2>2
<1>3. CASE P!Restart
  <2>1. /\ \A v \in Vol : call'[v].pc = "idle"
        /\ UNCHANGED <<goal, view, labels, disk>> /\ faults' # faults
    BY <1>1, <1>3 DEF P!Restart, CloudTypes
  <2> QED
    BY <1>1, <2>1 DEF CallIsTrue, Mine, Answers, P!Succeeds, P!Fails
<1>4. CASE UNCHANGED P!vars
  <2>1. UNCHANGED <<cloud, disk, labels, prints, goal, view, call, faults>>
    BY <1>4 DEF P!vars
  <2> QED
    BY <1>1, <2>1 DEF CallIsTrue, Mine, Answers, P!Succeeds, P!Fails
<1> QED
  BY <1>2, <1>3, <1>4 DEF P!Next, OneStep

(* agentd looks in its cache, in the cache with the new names added, and   *)

(* in what the kernel shows: the last always has a volume that is there.   *)
LEMMA LookedUp ==
    ASSUME CloudTypes, None \notin P!Name, NEW v \in Vol, P!findLocalNVMeDeviceByID(v),
           P!Names(nvme, v) # {}
    PROVE  looked'[v] # None
<1>1. ASSUME NEW cache, P!Found(v, cache), P!Names(cache, v) # {}
      PROVE  looked'[v] # None
  <2>1. looked'[v] = CHOOSE d \in P!Names(cache, v) : TRUE
    BY <1>1 DEF P!Found, CloudTypes
  <2>2. looked'[v] \in P!Names(cache, v)
    BY <1>1, <2>1
  <2> QED
    BY <2>2 DEF P!Names
<1> DEFINE filled == P!loadLocalDevices(devCache, FALSE)
           reloaded == P!loadLocalDevices(filled, TRUE)
<1>2. P!Names(reloaded, v) # {}
  <2>1. PICK d \in P!Name : nvme[d] = v
    BY DEF P!Names
  <2>2. reloaded[d] = v
    BY <2>1 DEF P!loadLocalDevices
  <2> QED
    BY <2>1, <2>2 DEF P!Names
<1> HIDE DEF filled
<1>3. P!Found(v, IF P!Names(devCache, v) # {} THEN devCache
                 ELSE IF P!Names(filled, v) # {} THEN filled ELSE reloaded)
  BY DEF P!findLocalNVMeDeviceByID, filled
<1> HIDE DEF reloaded
<1> QED
  BY <1>1, <1>2, <1>3

(* What the StorageRequest handlers and agentd rely on: an operation of a  *)
(* plugin that succeeds has been done, an attach fails only for another    *)
(* reason than that the volume is attached already (AWS), a tag is removed *)
(* alone, and the device of an attached volume is found; for any volumes,  *)
(* device names, operations and number of faults.  A device name is not    *)
(* the value that stands for none.                                         *)
THEOREM PluginsCorrect ==
    ASSUME None \notin P!Name
    PROVE  P!Spec => P!PluginKeepsItsWord
<1>1. CallInv /\ [P!Next]_(P!vars) => CallInv'
  BY AllTypes, WordKept DEF CallInv
<1>2. CallInv /\ [P!Next]_(P!vars)
      => [P!AnswerIsTrue /\ P!AttachRepeats /\ P!AttachedIsFound]_(P!vars)
  <2> SUFFICES ASSUME CallInv, P!Next
               PROVE  P!AnswerIsTrue /\ P!AttachRepeats /\ P!AttachedIsFound
    OBVIOUS
  <2>1. \A v \in Vol : Mine(v) /\ Answers(v)
    BY WordKept
  <2>2. P!AnswerIsTrue /\ P!AttachRepeats
    BY <2>1 DEF P!AnswerIsTrue, P!AttachRepeats, Mine, Answers
  <2>3. P!AttachedIsFound
    BY LookedUp DEF CallInv, P!AttachedIsFound
  <2> QED
    BY <2>2, <2>3
<1> QED
  BY <1>1, <1>2, CallInit, PTL DEF P!Spec, P!PluginKeepsItsWord

=============================================================================
