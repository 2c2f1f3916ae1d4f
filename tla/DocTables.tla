----------------------------- MODULE DocTables -----------------------------
(***************************************************************************)
(* The documents centrald keeps in mongo: for each collection its fields   *)
(* with the way each is stored, its unique keys and the operations its     *)
(* handler offers                                                          *)
(* (pkg/centrald/mongods, one file per type; the nested types are those of *)
(* objects.go with their conversions in converters.go).                    *)
(***************************************************************************)

(***************************************************************************)
(* A field is a scalar; a scalar that is never shown empty; a list; a map  *)
(* with string keys; a struct; or a policy, a struct that says with its    *)
(* own Inherited flag whether it is there at all.                          *)
(***************************************************************************)
Scalar == [k |-> "scalar"]
Default == [k |-> "default"]
List == [k |-> "list"]
Map == [k |-> "map"]
Struct(f) == [k |-> "struct", f |-> f]
Policy(f) == [k |-> "policy", f |-> f]

---------------------------------------------------------------------------
(* The nested types. *)

Messages == List
Tags == List
ObjIDs == List
StringValues == Map
AuthRoles == Map
Slos == Map
Identity == Struct([AccountID |-> Scalar, TenantAccountID |-> Scalar, UserID |-> Scalar])
Service ==
    Struct([HeartbeatPeriodSecs |-> Scalar, HeartbeatTime |-> Scalar, State |-> Default, Messages |-> List,
            ServiceAttributes |-> Map, ServiceType |-> Scalar, ServiceIP |-> Scalar, ServiceLocator |-> Scalar,
            ServiceVersion |-> Scalar])
IoProfile == Struct([IoPattern |-> Scalar, ReadWriteMix |-> Scalar])
ProvisioningUnit == Struct([IOPS |-> Scalar, Throughput |-> Scalar])
MinMaxSize == Struct([MinSizeBytes |-> Scalar, MaxSizeBytes |-> Scalar])
StorageTypeReservations == Map
CapacityPlan == Struct([StorageTypeReservations |-> Map])
CapacityResult == Struct([CurrentReservations |-> Map, DesiredReservations |-> Map])
LocalStorage == Map
Accessibility == Struct([AccessibilityScope |-> Scalar, AccessibilityScopeObjID |-> Scalar])
StoragePlan ==
    Struct([StorageLayout |-> Scalar, LayoutAlgorithm |-> Scalar, PlacementHints |-> Map, StorageElements |-> List])
StorageState ==
    Struct([AttachedNodeDevice |-> Scalar, AttachedNodeID |-> Scalar, AttachmentState |-> Default,
            DeviceState |-> Default, MediaState |-> Default, Messages |-> List, ProvisionedState |-> Default])
CacheAllocations == Map
CapacityAllocations == Map
StorageParcels == Map
Mounts == List
Progress ==
    Struct([OffsetBytes |-> Scalar, PercentComplete |-> Scalar, Timestamp |-> Scalar, TotalBytes |-> Scalar,
            TransferredBytes |-> Scalar])
SnapshotLocations == Map
SnapshotData ==
    Struct([ConsistencyGroupID |-> Scalar, DeleteAfterTime |-> Scalar, Locations |-> List, PitIdentifier |-> Scalar,
            ProtectionDomainID |-> Scalar, SizeBytes |-> Scalar, SnapIdentifier |-> Scalar, SnapTime |-> Scalar,
            VolumeSeriesID |-> Scalar])
CatalogPolicy == Policy([CspDomainID |-> Scalar, ProtectionDomainID |-> Scalar])
SnapshotPolicy ==
    Policy([DeleteLast |-> Scalar, DeleteVolumeWithLast |-> Scalar, DisableSnapshotCreation |-> Scalar,
            NoDelete |-> Scalar, RetentionDurationSeconds |-> Scalar, VolumeDataRetentionOnDelete |-> Scalar])
Lifecycle ==
    Struct([EstimatedSizeBytes |-> Scalar, FinalSnapshotNeeded |-> Scalar, GenUUID |-> Scalar, WriteIOCount |-> Scalar,
            LastSnapTime |-> Scalar, LastUploadTime |-> Scalar, LastUploadSizeBytes |-> Scalar,
            LastUploadTransferRateBPS |-> Scalar, NextSnapshotTime |-> Scalar, SizeEstimateRatio |-> Scalar,
            LayoutAlgorithm |-> Scalar])
SyncPeers == Map
VsrClaim == Struct([Claims |-> Map, RemainingBytes |-> Scalar])
VsrPolicy == Policy([NoDelete |-> Scalar, RetentionDurationSeconds |-> Scalar])
UsagePolicy ==
    Policy([AccountSecretScope |-> Scalar, ConsistencyGroupName |-> Scalar, VolumeDataRetentionOnDelete |-> Scalar])
StorageCosts == Map
CreateSpec == Struct([AccountID |-> Scalar, Name |-> Scalar, SystemTags |-> List, ClusterDescriptor |-> Map])

---------------------------------------------------------------------------
(* The collections. *)

AccountDoc ==
    [Name |-> Scalar, Description |-> Scalar, TenantAccountID |-> Scalar, Disabled |-> Scalar, AccountRoles |-> ObjIDs,
     UserRoles |-> AuthRoles, Secrets |-> Map, ProtectionDomains |-> Map, SnapshotCatalogPolicy |-> CatalogPolicy,
     SnapshotManagementPolicy |-> SnapshotPolicy, VsrManagementPolicy |-> VsrPolicy, Messages |-> Messages, Tags |-> Tags]
AccountKeys == {{"TenantAccountID", "Name"}}

ApplicationGroupDoc ==
    [Name |-> Scalar, Description |-> Scalar, AccountID |-> Scalar, TenantAccountID |-> Scalar, Tags |-> Tags, SystemTags |-> Tags]
ApplicationGroupKeys == {{"AccountID", "Name"}}

ClusterDoc ==
    [Name |-> Scalar, Description |-> Scalar, Tags |-> Tags, ClusterAttributes |-> StringValues, ClusterVersion |-> Scalar,
     Service |-> Service, ClusterIdentifier |-> Scalar, ClusterType |-> Scalar, CspDomainID |-> Scalar, AccountID |-> Scalar,
     AuthorizedAccounts |-> ObjIDs, ClusterUsagePolicy |-> UsagePolicy, State |-> Scalar, Messages |-> Messages]
ClusterKeys == {{"CspDomainID", "Name"}}

ConsistencyGroupDoc ==
    [Name |-> Scalar, Description |-> Scalar, AccountID |-> Scalar, TenantAccountID |-> Scalar, ApplicationGroupIds |-> ObjIDs,
     SnapshotManagementPolicy |-> SnapshotPolicy, Tags |-> Tags, SystemTags |-> Tags]
ConsistencyGroupKeys == {{"AccountID", "Name"}}

CspCredentialDoc ==
    [AccountID |-> Scalar, CspDomainType |-> Scalar, Name |-> Scalar, Description |-> Scalar,
     CredentialAttributes |-> StringValues, Tags |-> Tags]
CspCredentialKeys == {{"AccountID", "Name"}}

CspDomainDoc ==
    [CspDomainType |-> Scalar, AccountID |-> Scalar, Name |-> Scalar, Description |-> Scalar, ManagementHost |-> Scalar,
     Tags |-> Tags, CspDomainAttributes |-> StringValues, AuthorizedAccounts |-> ObjIDs, ClusterUsagePolicy |-> UsagePolicy,
     CspCredentialID |-> Scalar, StorageCosts |-> StorageCosts]
CspDomainKeys == {{"AccountID", "Name"}}

NodeDoc ==
    [AccountID |-> Scalar, ClusterID |-> Scalar, Name |-> Scalar, Description |-> Scalar, LocalStorage |-> LocalStorage,
     AvailableCacheBytes |-> Scalar, CacheUnitSizeBytes |-> Scalar, TotalCacheBytes |-> Scalar, NodeIdentifier |-> Scalar,
     NodeAttributes |-> StringValues, Service |-> Service, State |-> Scalar, Tags |-> Tags]
NodeKeys == {{"ClusterID", "Name"}, {"ClusterID", "NodeIdentifier"}}

PoolDoc ==
    [SystemTags |-> Tags, AccountID |-> Scalar, AuthorizedAccountID |-> Scalar, ClusterID |-> Scalar, CspDomainID |-> Scalar,
     CspStorageType |-> Scalar, StorageAccessibility |-> Accessibility, ServicePlanReservations |-> StorageTypeReservations]
PoolKeys == {}

ProtectionDomainDoc ==
    [AccountID |-> Scalar, EncryptionAlgorithm |-> Scalar, EncryptionPassphrase |-> Scalar, Name |-> Scalar,
     Description |-> Scalar, SystemTags |-> Tags, Tags |-> Tags]
ProtectionDomainKeys == {{"AccountID", "Name"}}

ServicePlanDoc ==
    [Name |-> Scalar, Description |-> Scalar, Tags |-> Tags, SourceServicePlanID |-> Scalar, State |-> Scalar,
     IoProfile |-> IoProfile, ProvisioningUnit |-> ProvisioningUnit, VolumeSeriesMinMaxSize |-> MinMaxSize,
     Accounts |-> ObjIDs, Slos |-> Slos]
ServicePlanKeys == {{"Name"}}

ServicePlanAllocationDoc ==
    [CspDomainID |-> Scalar, ReservableCapacityBytes |-> Scalar, AccountID |-> Scalar, AuthorizedAccountID |-> Scalar,
     ClusterID |-> Scalar, ServicePlanID |-> Scalar, Messages |-> Messages, ProvisioningHints |-> StringValues,
     ReservationState |-> Default, StorageFormula |-> Scalar, StorageReservations |-> StorageTypeReservations,
     SystemTags |-> Tags, Tags |-> Tags, TotalCapacityBytes |-> Scalar, ClusterDescriptor |-> StringValues,
     ChargedCostPerGiB |-> Scalar]
ServicePlanAllocationKeys == {{"AuthorizedAccountID", "ServicePlanID", "ClusterID"}}

SnapshotDoc ==
    [AccountID |-> Scalar, ConsistencyGroupID |-> Scalar, PitIdentifier |-> Scalar, SizeBytes |-> Scalar,
     SnapIdentifier |-> Scalar, SnapTime |-> Scalar, TenantAccountID |-> Scalar, VolumeSeriesID |-> Scalar,
     DeleteAfterTime |-> Scalar, Locations |-> SnapshotLocations, Messages |-> Messages, SystemTags |-> Tags, Tags |-> Tags,
     ProtectionDomainID |-> Scalar]
SnapshotKeys == {{"VolumeSeriesID", "SnapIdentifier"}}

StorageDoc ==
    [AccountID |-> Scalar, TenantAccountID |-> Scalar, CspDomainID |-> Scalar, CspStorageType |-> Scalar,
     StorageAccessibility |-> Accessibility, StorageIdentifier |-> Scalar, PoolID |-> Scalar, ClusterID |-> Scalar,
     SizeBytes |-> Scalar, AvailableBytes |-> Scalar, ParcelSizeBytes |-> Scalar, TotalParcelCount |-> Scalar,
     ShareableStorage |-> Scalar, StorageState |-> StorageState, SystemTags |-> Tags]
StorageKeys == {}

StorageRequestDoc ==
    [RequestedOperations |-> List, CspStorageType |-> Scalar, NodeID |-> Scalar, ReattachNodeID |-> Scalar,
     AccountID |-> Scalar, TenantAccountID |-> Scalar, CspDomainID |-> Scalar, ClusterID |-> Scalar, MinSizeBytes |-> Scalar,
     CompleteByTime |-> Scalar, StorageID |-> Scalar, StorageRequestState |-> Scalar, PoolID |-> Scalar,
     ParcelSizeBytes |-> Scalar, ShareableStorage |-> Scalar, RequestMessages |-> Messages, SystemTags |-> Tags,
     VolumeSeriesRequestClaims |-> VsrClaim, Terminated |-> Scalar]
StorageRequestKeys == {}

UserDoc == [AuthIdentifier |-> Scalar, Disabled |-> Scalar, Password |-> Scalar, Profile |-> StringValues]
UserKeys == {{"AuthIdentifier"}}

VolumeSeriesDoc ==
    [AccountID |-> Scalar, TenantAccountID |-> Scalar, Name |-> Scalar, Description |-> Scalar, SizeBytes |-> Scalar,
     SpaAdditionalBytes |-> Scalar, ConsistencyGroupID |-> Scalar, ServicePlanID |-> Scalar,
     LifecycleManagementData |-> Lifecycle, Tags |-> Tags, SystemTags |-> Tags, ClusterDescriptor |-> StringValues,
     BoundClusterID |-> Scalar, BoundCspDomainID |-> Scalar, ConfiguredNodeID |-> Scalar, RootStorageID |-> Scalar,
     NuvoVolumeIdentifier |-> Scalar, RootParcelUUID |-> Scalar, ServicePlanAllocationID |-> Scalar,
     VolumeSeriesState |-> Scalar, Messages |-> Messages, CacheAllocations |-> CacheAllocations,
     CapacityAllocations |-> CapacityAllocations, StorageParcels |-> StorageParcels, Mounts |-> Mounts]
VolumeSeriesKeys == {{"AccountID", "Name"}}

VolumeSeriesRequestDoc ==
    [Creator |-> Identity, RequestedOperations |-> List, CancelRequested |-> Scalar, PlanOnly |-> Scalar,
     ApplicationGroupIds |-> ObjIDs, ClusterID |-> Scalar, ConsistencyGroupID |-> Scalar, NodeID |-> Scalar,
     MountedNodeDevice |-> Scalar, VolumeSeriesID |-> Scalar, ServicePlanAllocationID |-> Scalar, SnapIdentifier |-> Scalar,
     SyncCoordinatorID |-> Scalar, SyncPeers |-> SyncPeers, CompleteByTime |-> Scalar,
     ServicePlanAllocationCreateSpec |-> CreateSpec, VolumeSeriesCreateSpec |-> CreateSpec, Snapshot |-> SnapshotData,
     SnapshotID |-> Scalar, Progress |-> Progress, LifecycleManagementData |-> Lifecycle, StorageFormula |-> Scalar,
     CapacityReservationPlan |-> CapacityPlan, CapacityReservationResult |-> CapacityResult, StoragePlan |-> StoragePlan,
     VolumeSeriesRequestState |-> Scalar, RequestMessages |-> Messages, SystemTags |-> Tags, FsType |-> Scalar,
     DriverType |-> Scalar, TargetPath |-> Scalar, ReadOnly |-> Scalar, ProtectionDomainID |-> Scalar, Terminated |-> Scalar]
VolumeSeriesRequestKeys == {}

Docs ==
    [Account |-> AccountDoc, ApplicationGroup |-> ApplicationGroupDoc, Cluster |-> ClusterDoc,
     ConsistencyGroup |-> ConsistencyGroupDoc, CspCredential |-> CspCredentialDoc, CspDomain |-> CspDomainDoc,
     Node |-> NodeDoc, Pool |-> PoolDoc, ProtectionDomain |-> ProtectionDomainDoc, ServicePlan |-> ServicePlanDoc,
     ServicePlanAllocation |-> ServicePlanAllocationDoc, Snapshot |-> SnapshotDoc, Storage |-> StorageDoc,
     StorageRequest |-> StorageRequestDoc, User |-> UserDoc, VolumeSeries |-> VolumeSeriesDoc,
     VolumeSeriesRequest |-> VolumeSeriesRequestDoc]

Keys ==
    [Account |-> AccountKeys, ApplicationGroup |-> ApplicationGroupKeys, Cluster |-> ClusterKeys,
     ConsistencyGroup |-> ConsistencyGroupKeys, CspCredential |-> CspCredentialKeys, CspDomain |-> CspDomainKeys,
     Node |-> NodeKeys, Pool |-> PoolKeys, ProtectionDomain |-> ProtectionDomainKeys, ServicePlan |-> ServicePlanKeys,
     ServicePlanAllocation |-> ServicePlanAllocationKeys, Snapshot |-> SnapshotKeys, Storage |-> StorageKeys,
     StorageRequest |-> StorageRequestKeys, User |-> UserKeys, VolumeSeries |-> VolumeSeriesKeys,
     VolumeSeriesRequest |-> VolumeSeriesRequestKeys]

(***************************************************************************)
(* The operations of the handler of each collection.  Some do more than    *)
(* convert and store: "Terminated" keeps a field in step with the state of *)
(* a request, "Cache" keeps a copy of every object seen, "Builtin" and     *)
(* "Guarded" protect the objects centrald needs for itself (StoreStart).   *)
(***************************************************************************)
Crud == {"Create", "Delete", "Fetch", "List", "Update"}

AccountOps == Crud \cup {"Count", "Builtin", "Guarded"}
ApplicationGroupOps == Crud \cup {"Count"}
ClusterOps == Crud \cup {"Count", "Cache"}
ConsistencyGroupOps == Crud \cup {"Count"}
CspCredentialOps == Crud \cup {"Count"}
CspDomainOps == Crud \cup {"Count"}
NodeOps == Crud \cup {"Count", "UpdateMultiple"}
PoolOps == Crud \cup {"Count"}
ProtectionDomainOps == Crud \cup {"Count"}
ServicePlanOps == (Crud \ {"Create"}) \cup {"Count", "Populate", "Clone", "Publish", "Retire", "RemoveAccount"}
ServicePlanAllocationOps == Crud \cup {"Count"}
SnapshotOps == Crud \cup {"Count"}
StorageOps == Crud \cup {"Count", "Aggregate"}
StorageRequestOps == Crud \cup {"Count", "Terminated"}
UserOps == Crud \cup {"Builtin", "Guarded"}
VolumeSeriesOps == Crud \cup {"Count", "Aggregate", "NewID"}
VolumeSeriesRequestOps == Crud \cup {"Count", "Terminated", "Cancel"}

Ops ==
    [Account |-> AccountOps, ApplicationGroup |-> ApplicationGroupOps, Cluster |-> ClusterOps,
     ConsistencyGroup |-> ConsistencyGroupOps, CspCredential |-> CspCredentialOps, CspDomain |-> CspDomainOps,
     Node |-> NodeOps, Pool |-> PoolOps, ProtectionDomain |-> ProtectionDomainOps, ServicePlan |-> ServicePlanOps,
     ServicePlanAllocation |-> ServicePlanAllocationOps, Snapshot |-> SnapshotOps, Storage |-> StorageOps,
     StorageRequest |-> StorageRequestOps, User |-> UserOps, VolumeSeries |-> VolumeSeriesOps,
     VolumeSeriesRequest |-> VolumeSeriesRequestOps]

StateField == [VolumeSeriesRequest |-> "VolumeSeriesRequestState", StorageRequest |-> "StorageRequestState",
               ServicePlan |-> "State", Node |-> "State"]
=============================================================================
