----------------------------- MODULE ApiTables ------------------------------
(***************************************************************************)
(* What the handlers of src/pkg/centrald/handlers do for each object type, *)
(* as the tables module ApiObjects takes for constants.                    *)
(*                                                                         *)
(*   XFields      the references a stored X keeps (mongods/x.go)           *)
(*   XListParams  the stored fields each query parameter matches           *)
(*   xCreate, xUpdate, xDelete   the handlers (handlers/x_handlers.go)     *)
(*                                                                         *)
(* A field that refers to one object or to several (a list, the keys of a  *)
(* map) is treated alike: it refers to the slot's object or it does not    *)
(* (it is then empty, or refers to objects that are not modelled).         *)
(***************************************************************************)
EXTENDS Naturals

(***************************************************************************)
(* A create handler: the lock it takes, the references it fetches under    *)
(* the lock, and those it stores as they come.                             *)
(***************************************************************************)
Create(lock, sets, blind) == [lock |-> lock, sets |-> sets, blind |-> blind]

(***************************************************************************)
(* An update handler: whether it fetches the object before the lock, the   *)
(* references it fetches under the lock (delta: only those not there yet), *)
(* those it fetches without a lock, those it stores as they come, those it *)
(* can remove, and whether it sets or clears the end of the object's life  *)
(* (final: an object that has ended keeps its state).                      *)
(***************************************************************************)
Update == [fetchFirst |-> FALSE, sets |-> {}, delta |-> {}, unlocked |-> {},
           blind |-> {}, drops |-> {}, ends |-> {}, final |-> FALSE]

(***************************************************************************)
(* A delete handler: the objects it counts, whether the copy it fetched    *)
(* must have ended, which references of that copy must be gone (clear) or  *)
(* lead to an object (needs), the types not counted once the copy has      *)
(* ended, and the references it removes from other objects first.          *)
(***************************************************************************)
Delete == [counts |-> {}, needsDone |-> FALSE, clear |-> {}, needs |-> {},
           exempt |-> {}, cascade |-> {}]
Count(of, by) == [of |-> of, by |-> by]

-----------------------------------------------------------------------------
(* Accounts.  A tenant is the account that owns domains, clusters and      *)
(* pools; `account' is a subordinate of it that owns volumes.              *)

TenantFields == <<>>
AccountFields ==
    [tenantAccountId |-> "tenant", userRoles |-> "user",
     protectionDomains |-> "pd", protectionStores |-> "domain",
     catalogDomain |-> "domain", catalogProtectionDomain |-> "pd"]
AccountListParams ==
    [TenantAccountID |-> {"tenantAccountId"}, UserID |-> {"userRoles"},
     CspDomainID |-> {"protectionStores", "catalogDomain"}]

accountCreate == Create("W", {"tenantAccountId", "userRoles"}, {})
tenantUpdate == Update
accountUpdate ==
    [Update EXCEPT !.sets = {"userRoles", "catalogDomain", "catalogProtectionDomain"}
                            \cup {"protectionDomains", "protectionStores"},
                   !.drops = {"userRoles", "catalogDomain", "catalogProtectionDomain",
                              "protectionDomains", "protectionStores"}]

UserFields == <<>>
userCreate == Create("R", {}, {})
userUpdate == Update
userDelete == [Delete EXCEPT !.counts = {Count("account", AccountListParams.UserID)}]

-----------------------------------------------------------------------------
(* Service plans: loaded when the data store is initialized.               *)

ServicePlanFields == [accounts |-> "account"]
servicePlanUpdate ==
    [Update EXCEPT !.fetchFirst = TRUE, !.sets = {"accounts"}, !.delta = {"accounts"},
                   !.drops = {"accounts"}]

-----------------------------------------------------------------------------
(* Cloud service domains and their credentials.                            *)

CspCredentialFields == [accountId |-> "tenant"]
cspCredentialCreate == Create("R", {"accountId"}, {})
cspCredentialUpdate == [Update EXCEPT !.fetchFirst = TRUE]

CspDomainFields ==
    [accountId |-> "tenant", authorizedAccounts |-> "account",
     cspCredentialId |-> "credential"]
CspDomainListParams ==
    [AccountID |-> {"accountId"}, AuthorizedAccountID |-> {"authorizedAccounts"},
     CspCredentialID |-> {"cspCredentialId"}]

cspCredentialDelete ==
    [Delete EXCEPT !.counts = {Count("domain", CspDomainListParams.CspCredentialID)}]

cspDomainCreate ==
    Create("R", {"accountId", "cspCredentialId", "authorizedAccounts"}, {})
cspDomainUpdate ==
    [Update EXCEPT !.fetchFirst = TRUE, !.sets = {"authorizedAccounts"},
                   !.delta = {"authorizedAccounts"}, !.drops = {"authorizedAccounts"},
                   !.unlocked = {"cspCredentialId"}]

-----------------------------------------------------------------------------
(* Clusters and nodes.                                                     *)

ClusterFields == [cspDomainId |-> "domain", authorizedAccounts |-> "account"]
ClusterListParams ==
    [CspDomainID |-> {"cspDomainId"}, AuthorizedAccountID |-> {"authorizedAccounts"}]
clusterCreate == Create("R", {"cspDomainId", "authorizedAccounts"}, {})
clusterUpdate ==
    [Update EXCEPT !.sets = {"authorizedAccounts"}, !.delta = {"authorizedAccounts"},
                   !.drops = {"authorizedAccounts"}]

cspDomainDelete ==
    [Delete EXCEPT !.counts = {Count("account", AccountListParams.CspDomainID),
                               Count("cluster", ClusterListParams.CspDomainID)}]

NodeFields == [clusterId |-> "cluster"]
NodeListParams == [ClusterID |-> {"clusterId"}]
nodeCreate == Create("R", {"clusterId"}, {})
nodeUpdate == Update

-----------------------------------------------------------------------------
(* Pools, storage and storage requests.                                    *)

PoolFields ==
    [cspDomainId |-> "domain", clusterId |-> "cluster", accountId |-> "tenant",
     authorizedAccountId |-> "account", accessibilityScopeObjId |-> "node",
     servicePlanReservations |-> "spa"]
PoolListParams ==
    [AccessibilityScopeObjID |-> {"accessibilityScopeObjId"},
     ServicePlanAllocationID |-> {"servicePlanReservations"}]
poolCreate ==
    Create("R", {"cspDomainId", "clusterId", "authorizedAccountId", "accessibilityScopeObjId"}, {"accountId"})
\* The domain is the one of the pool's cluster.
poolDomain == [via |-> "clusterId", f |-> "cspDomainId"]
poolUpdate == [Update EXCEPT !.blind = {"servicePlanReservations"},
                             !.drops = {"servicePlanReservations"}]

StorageFields == [poolId |-> "pool", attachedNodeId |-> "node"]
StorageListParams == [PoolID |-> {"poolId"}, AttachedNodeID |-> {"attachedNodeId"}]
storageCreate == Create("R", {"poolId", "attachedNodeId"}, {})
storageUpdate == [Update EXCEPT !.sets = {"attachedNodeId"}, !.drops = {"attachedNodeId"}]

StorageRequestFields ==
    [poolId |-> "pool", storageId |-> "storage", nodeId |-> "node",
     clusterId |-> "cluster", volumeSeriesRequestClaims |-> "vsr"]
StorageRequestListParams ==
    [PoolID |-> {"poolId"}, StorageID |-> {"storageId"}, NodeID |-> {"nodeId"},
     ClusterID |-> {"clusterId"}, VolumeSeriesRequestID |-> {"volumeSeriesRequestClaims"}]
storageRequestCreate ==
    Create("W", {"poolId", "storageId"}, {"nodeId", "clusterId", "volumeSeriesRequestClaims"})
storageRequestUpdate ==
    [Update EXCEPT !.sets = {"storageId", "nodeId", "volumeSeriesRequestClaims"},
                   !.drops = {"storageId", "nodeId", "volumeSeriesRequestClaims"},
                   !.ends = {"set", "clear"}, !.final = TRUE]

-----------------------------------------------------------------------------
(* Service plan allocations, groups and protection domains.                *)

ServicePlanAllocationFields ==
    [accountId |-> "tenant", authorizedAccountId |-> "account",
     clusterId |-> "cluster", servicePlanId |-> "plan",
     storageReservations |-> "pool"]
ServicePlanAllocationListParams ==
    [ClusterID |-> {"clusterId"}, PoolID |-> {"storageReservations"}]
servicePlanAllocationCreate ==
    Create("R", {"accountId", "authorizedAccountId", "clusterId", "servicePlanId", "storageReservations"}, {})
servicePlanAllocationUpdate ==
    [Update EXCEPT !.sets = {"storageReservations"}, !.drops = {"storageReservations"},
                   !.ends = {"set", "clear"}]

ApplicationGroupFields == [accountId |-> "account"]
\* The owner comes from the caller's authentication.
applicationGroupCreate == Create("R", {}, {"accountId"})
applicationGroupUpdate == [Update EXCEPT !.fetchFirst = TRUE]

ConsistencyGroupFields == [accountId |-> "account", applicationGroupIds |-> "ag"]
ConsistencyGroupListParams == [ApplicationGroupID |-> {"applicationGroupIds"}]
consistencyGroupCreate == Create("R", {"applicationGroupIds"}, {"accountId"})
consistencyGroupUpdate ==
    [Update EXCEPT !.sets = {"applicationGroupIds"}, !.delta = {"applicationGroupIds"},
                   !.drops = {"applicationGroupIds"}]

applicationGroupDelete ==
    [Delete EXCEPT !.counts = {Count("cg", ConsistencyGroupListParams.ApplicationGroupID)}]

ProtectionDomainFields == [accountId |-> "account"]
protectionDomainCreate == Create("R", {"accountId"}, {})
protectionDomainUpdate == Update

-----------------------------------------------------------------------------
(* Volumes, their requests and their snapshots.                            *)

VolumeSeriesFields ==
    [accountId |-> "account", servicePlanId |-> "plan", consistencyGroupId |-> "cg",
     servicePlanAllocationId |-> "spa", boundClusterId |-> "cluster",
     configuredNodeId |-> "node", mounts |-> "node", storageParcels |-> "storage",
     capacityAllocations |-> "pool"]
VolumeSeriesListParams ==
    [AccountID |-> {"accountId"}, ServicePlanID |-> {"servicePlanId"},
     ConsistencyGroupID |-> {"consistencyGroupId"},
     ServicePlanAllocationID |-> {"servicePlanAllocationId"},
     BoundClusterID |-> {"boundClusterId"}, ConfiguredNodeID |-> {"configuredNodeId"},
     MountedNodeID |-> {"mounts"}, StorageID |-> {"storageParcels"},
     PoolID |-> {"capacityAllocations"}]
volumeSeriesCreate ==
    Create("R", {"accountId", "servicePlanId", "consistencyGroupId"}, {})
\* The owner is found among the accounts of the volume's service plan.
volumeSeriesOwner == [via |-> "servicePlanId", f |-> "accounts"]
volumeSeriesUpdate ==
    [Update EXCEPT
        !.sets = {"servicePlanId", "consistencyGroupId", "boundClusterId", "mounts",
                  "configuredNodeId", "storageParcels", "capacityAllocations"},
        !.delta = {"servicePlanId", "consistencyGroupId", "boundClusterId", "mounts"},
        !.blind = {"servicePlanAllocationId"},
        !.drops = {"consistencyGroupId", "boundClusterId", "configuredNodeId", "mounts",
                   "storageParcels", "capacityAllocations", "servicePlanAllocationId"},
        !.ends = {"set", "clear"}]
\* Ended: the volume is in the state DELETING.
volumeSeriesDelete ==
    [Delete EXCEPT !.needsDone = TRUE, !.clear = {"mounts", "storageParcels"}]

\* nodeId of a request other than NODE_DELETE, which is not counted.
VolumeSeriesRequestFields ==
    [accountId |-> "account", clusterId |-> "cluster", nodeId |-> "node",
     volumeSeriesId |-> "vs", consistencyGroupId |-> "cg", snapshotId |-> "snap",
     protectionDomainId |-> "pd", servicePlanId |-> "plan",
     servicePlanAllocationId |-> "spa", capacityReservationResult |-> "pool",
     storagePlanPool |-> "pool", storagePlan |-> "storage"]
VolumeSeriesRequestListParams ==
    [AccountID |-> {"accountId"}, ClusterID |-> {"clusterId"}, NodeID |-> {"nodeId"},
     SnapshotID |-> {"snapshotId"}, ProtectionDomainID |-> {"protectionDomainId"},
     ServicePlanID |-> {"servicePlanId"},
     ServicePlanAllocationID |-> {"servicePlanAllocationId"},
     StorageID |-> {"storagePlan"},
     PoolID |-> {"capacityReservationResult", "storagePlanPool"}]
\* The handler fetches what the operation needs; what it does not need is
\* stored as it comes.
volumeSeriesRequestCreate ==
    Create("W", {"nodeId"}, {"accountId", "clusterId", "volumeSeriesId", "consistencyGroupId",
            "snapshotId", "protectionDomainId", "servicePlanId"})
volumeSeriesRequestUpdate ==
    [Update EXCEPT
        !.sets = {"volumeSeriesId", "nodeId", "consistencyGroupId",
                  "servicePlanAllocationId", "capacityReservationResult",
                  "storagePlanPool", "storagePlan"},
        !.delta = {"volumeSeriesId", "nodeId", "consistencyGroupId"},
        !.drops = {"servicePlanAllocationId", "capacityReservationResult",
                   "storagePlanPool", "storagePlan"},
        !.ends = {"set", "clear"}, !.final = TRUE]
volumeSeriesRequestDelete ==
    [Delete EXCEPT
        !.needsDone = TRUE,
        !.counts = {Count("sr", StorageRequestListParams.VolumeSeriesRequestID)}]

SnapshotFields ==
    [volumeSeriesId |-> "vs", protectionDomainId |-> "pd", consistencyGroupId |-> "cg",
     locations |-> "domain"]
SnapshotListParams ==
    [ConsistencyGroupID |-> {"consistencyGroupId"},
     ProtectionDomainID |-> {"protectionDomainId"}, CspDomainID |-> {"locations"},
     VolumeSeriesID |-> {"volumeSeriesId"}]
snapshotCreate ==
    Create("R", {"volumeSeriesId", "protectionDomainId", "locations", "consistencyGroupId"}, {})
snapshotUpdate == [Update EXCEPT !.sets = {"locations"}, !.drops = {"locations"}]
snapshotDelete ==
    [Delete EXCEPT
        !.needs = {"volumeSeriesId"},
        !.counts = {Count("vsr", VolumeSeriesRequestListParams.SnapshotID)}]

-----------------------------------------------------------------------------
(* The delete handlers that count objects of several types.                *)

accountDelete ==
    [Delete EXCEPT
        !.counts = {Count("vs", VolumeSeriesListParams.AccountID),
                    Count("vsr", VolumeSeriesRequestListParams.AccountID),
                    Count("domain", CspDomainListParams.AccountID),
                    Count("account", AccountListParams.TenantAccountID)},
        !.cascade = {<<"plan", "accounts">>}]

servicePlanDelete ==
    [Delete EXCEPT
        !.counts = {Count("vs", VolumeSeriesListParams.ServicePlanID),
                    Count("vsr", VolumeSeriesRequestListParams.ServicePlanID)}]

clusterDelete ==
    [Delete EXCEPT
        !.counts = {Count("sr", StorageRequestListParams.ClusterID),
                    Count("vs", VolumeSeriesListParams.BoundClusterID),
                    Count("node", NodeListParams.ClusterID),
                    Count("vsr", VolumeSeriesRequestListParams.ClusterID),
                    Count("spa", ServicePlanAllocationListParams.ClusterID)}]

nodeDelete ==
    [Delete EXCEPT
        !.counts = {Count("sr", StorageRequestListParams.NodeID),
                    Count("vs", VolumeSeriesListParams.ConfiguredNodeID),
                    Count("storage", StorageListParams.AttachedNodeID),
                    Count("pool", PoolListParams.AccessibilityScopeObjID),
                    Count("vsr", VolumeSeriesRequestListParams.NodeID)}]

poolDelete ==
    [Delete EXCEPT
        !.counts = {Count("sr", StorageRequestListParams.PoolID),
                    Count("storage", StorageListParams.PoolID),
                    Count("vs", VolumeSeriesListParams.PoolID),
                    Count("vsr", VolumeSeriesRequestListParams.PoolID),
                    Count("spa", ServicePlanAllocationListParams.PoolID)}]

storageDelete ==
    [Delete EXCEPT
        !.counts = {Count("vs", VolumeSeriesListParams.StorageID),
                    Count("vsr", VolumeSeriesRequestListParams.StorageID)}]

\* The requests whose claims the fetched copy names must have terminated.
storageRequestDelete == [Delete EXCEPT !.needsDone = TRUE]

\* Ended: the object has the tag of the request that deletes it.
servicePlanAllocationDelete ==
    [Delete EXCEPT
        !.counts = {Count("vs", VolumeSeriesListParams.ServicePlanAllocationID),
                    Count("pool", PoolListParams.ServicePlanAllocationID),
                    Count("vsr", VolumeSeriesRequestListParams.ServicePlanAllocationID)},
        !.exempt = {"vsr"}]

consistencyGroupDelete ==
    [Delete EXCEPT
        !.counts = {Count("vs", VolumeSeriesListParams.ConsistencyGroupID),
                    Count("snap", SnapshotListParams.ConsistencyGroupID)}]

protectionDomainDelete ==
    [Delete EXCEPT
        !.counts = {Count("account", {"protectionDomains"}),
                    Count("vsr", VolumeSeriesRequestListParams.ProtectionDomainID),
                    Count("snap", SnapshotListParams.ProtectionDomainID)}]

-----------------------------------------------------------------------------
(* The tables.                                                             *)

ApiRequest == {"sr", "vsr"}

ApiFields ==
    [tenant |-> TenantFields, account |-> AccountFields, user |-> UserFields,
     plan |-> ServicePlanFields, credential |-> CspCredentialFields,
     domain |-> CspDomainFields, cluster |-> ClusterFields, node |-> NodeFields,
     pool |-> PoolFields, storage |-> StorageFields, sr |-> StorageRequestFields,
     spa |-> ServicePlanAllocationFields, ag |-> ApplicationGroupFields,
     cg |-> ConsistencyGroupFields, pd |-> ProtectionDomainFields,
     vs |-> VolumeSeriesFields, vsr |-> VolumeSeriesRequestFields,
     snap |-> SnapshotFields]

ApiSlot == DOMAIN ApiFields

ApiCreateOf ==
    [tenant |-> Create("W", {}, {}), account |-> accountCreate,
     user |-> userCreate, credential |-> cspCredentialCreate,
     domain |-> cspDomainCreate, cluster |-> clusterCreate, node |-> nodeCreate,
     pool |-> poolCreate, storage |-> storageCreate, sr |-> storageRequestCreate,
     spa |-> servicePlanAllocationCreate, ag |-> applicationGroupCreate,
     cg |-> consistencyGroupCreate, pd |-> protectionDomainCreate,
     vs |-> volumeSeriesCreate, vsr |-> volumeSeriesRequestCreate,
     snap |-> snapshotCreate]

ApiUpdateOf ==
    [tenant |-> tenantUpdate, account |-> accountUpdate, user |-> userUpdate,
     plan |-> servicePlanUpdate, credential |-> cspCredentialUpdate,
     domain |-> cspDomainUpdate, cluster |-> clusterUpdate, node |-> nodeUpdate,
     pool |-> poolUpdate, storage |-> storageUpdate, sr |-> storageRequestUpdate,
     spa |-> servicePlanAllocationUpdate, ag |-> applicationGroupUpdate,
     cg |-> consistencyGroupUpdate, pd |-> protectionDomainUpdate,
     vs |-> volumeSeriesUpdate, vsr |-> volumeSeriesRequestUpdate,
     snap |-> snapshotUpdate]

ApiDeleteOf ==
    [tenant |-> accountDelete, account |-> accountDelete, user |-> userDelete,
     plan |-> servicePlanDelete, credential |-> cspCredentialDelete,
     domain |-> cspDomainDelete, cluster |-> clusterDelete, node |-> nodeDelete,
     pool |-> poolDelete, storage |-> storageDelete, sr |-> storageRequestDelete,
     spa |-> servicePlanAllocationDelete, ag |-> applicationGroupDelete,
     cg |-> consistencyGroupDelete, pd |-> protectionDomainDelete,
     vs |-> volumeSeriesDelete, vsr |-> volumeSeriesRequestDelete,
     snap |-> snapshotDelete]

ApiCopied ==
    [p \in {<<"vs", "accountId">>, <<"pool", "cspDomainId">>} |->
        IF p[1] = "vs" THEN volumeSeriesOwner ELSE poolDomain]

\* The references that are fetched under the lock whenever they are set, and
\* that the delete handler of their target counts or removes.
ApiProtected ==
    ({"account"} \X {"tenantAccountId", "userRoles", "protectionDomains",
                     "protectionStores", "catalogDomain"}) \cup
    ({"plan"} \X {"accounts"}) \cup
    ({"domain"} \X {"accountId"}) \cup
    ({"cluster"} \X {"cspDomainId"}) \cup
    ({"node"} \X {"clusterId"}) \cup
    ({"pool"} \X {"accessibilityScopeObjId"}) \cup
    ({"storage"} \X {"poolId", "attachedNodeId"}) \cup
    ({"sr"} \X {"poolId"}) \cup
    ({"spa"} \X {"clusterId", "storageReservations"}) \cup
    ({"cg"} \X {"applicationGroupIds"}) \cup
    ({"vs"} \X {"accountId", "servicePlanId", "consistencyGroupId", "boundClusterId",
                "configuredNodeId", "storageParcels", "capacityAllocations"}) \cup
    ({"vsr"} \X {"nodeId", "capacityReservationResult", "storagePlanPool",
                 "storagePlan"}) \cup
    ({"snap"} \X {"protectionDomainId", "consistencyGroupId"})
=============================================================================
