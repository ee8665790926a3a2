------------------------------ MODULE ReadPlans ------------------------------
(***************************************************************************)
(* What the commands that only read do.  A "read" must succeed; a "try" is   *)
(* passed over in silence when it fails; a "peek" that fails is told.  A      *)
(* browser makes one round: pick, look, and out.                             *)
(***************************************************************************)
EXTENDS PlanSteps

SingleRead == <<"bound", "read">>

-----------------------------------------------------------------------------
(* Instances.  Their volumes are a try.                                      *)

\* Details are read on the command's own context.
VmListBrowsed == <<"menu", "unbound", "peek", "try">>
VmListPlan(inv) == SingleRead \o When(inv.extra, VmListBrowsed)
VmDescribePlan(inv) == PickUnbounded(inv) \o SingleRead \o <<"try">>
VmAvailabilityPlan(inv) == SingleRead \o <<"read">>
\* The instance must be known, running, with an address, and ssh installed.
SshPlan(inv) == SingleRead \o TypeMissing(inv) \o <<"check">>

-----------------------------------------------------------------------------
(* Volumes, keys, scripts, and the catalogue.                                *)

VolumeListPlan(inv) == SingleRead
VolumeDescribePlan(inv) == PickUnbounded(inv) \o SingleRead
VolumeTrashPlan(inv) == SingleRead \o When(inv.extra, <<"menu">>)
KeyListPlan(inv) == SingleRead
ScriptListPlan(inv) == SingleRead
ImagesPlan(inv) == SingleRead
InstanceTypesPlan(inv) == SingleRead
LocationsPlan(inv) == SingleRead
AvailabilityCheck == <<"read">>
AvailabilityPlan(inv) ==
    <<"bound">> \o IF inv.extra THEN AvailabilityCheck ELSE <<"read">>
BalancePlan(inv) == SingleRead

-----------------------------------------------------------------------------
(* Figures made of several reads.                                            *)

\* Instances, volumes and the balance, at the same time.
StatusPlan(inv) == <<"bound", "read", "read", "read">>
EstimateVolumes == <<"read", "check">>
EstimatePlan(inv) ==
    SingleRead \o <<"check">> \o When(inv.extra, EstimateVolumes)
\* The price of a volume that cannot be read is left out of the total.
RunningCostPlan(inv) == SingleRead \o <<"read", "try">>
\* Without an answer of the service the sign-in is skipped.
DoctorReach == <<"bound", "peekFor">>
DoctorSignIn == <<"bound", "peek">>
DoctorPlan(inv) == DoctorReach \o DoctorSignIn \o <<"bound", "peek">>

-----------------------------------------------------------------------------
(* Serverless deployments.  The status is a try.                             *)

ContainerDescribe == <<"bound", "read", "try", "peek">>
PickContainer(inv) == NeedsTarget(inv) \o PickBounded(inv)
ContainerDescribePlan(inv) == PickContainer(inv) \o ContainerDescribe
ContainerListBrowsed == <<"menu">> \o ContainerDescribe
ContainerListPlan(inv) ==
    SingleRead \o IF inv.extra THEN ContainerListBrowsed ELSE <<"try">>
ContainerReplicasPlan(inv) == PickContainer(inv) \o SingleRead
BatchjobListPlan(inv) == SingleRead
PickBatchjob(inv) == NeedsTarget(inv) \o PickBounded(inv)
BatchjobDescribePlan(inv) == PickBatchjob(inv) \o SingleRead \o <<"try">>

-----------------------------------------------------------------------------
(* Registry and object storage.                                              *)

\* The images of a repository are read on the command's own context.
RegistryBrowsed == <<"menu", "unbound", "peek", "menu">>
RegistryLsPlan(inv) == <<"check">> \o SingleRead \o When(inv.extra, RegistryBrowsed)
RegistryTagsPlan(inv) ==
    <<"check">> \o SingleRead \o <<"read">> \o When(inv.extra, <<"menu">>)

StorageBuckets == SingleRead
StorageObjects == SingleRead
StorageBrowser == <<"read", "menu", "read">>
StorageLsPlan(inv) ==
    CASE inv.given = "all" -> StorageObjects
      [] inv.given = "none" /\ ~ inv.agent -> StorageBrowser
      [] OTHER -> StorageBuckets
\* The uploads, and the parts of each.
UploadSizes == <<"read">>
LsUploadsPlan(inv) ==
    NeedsTarget(inv) \o PickBounded(inv) \o SingleRead \o UploadSizes
        \o When(inv.extra, <<"menu">>)

-----------------------------------------------------------------------------
(* Tools of the MCP server.                                                  *)

McpAvailabilityPlan(inv) == <<"check">> \o SingleRead \o <<"read">>
McpListVmsPlan(inv) == <<"check">> \o SingleRead
McpDescribeVmPlan(inv) == <<"check">> \o SingleRead
McpListVolumesPlan(inv) == SingleRead
McpTrashPlan(inv) == SingleRead
McpListKeysPlan(inv) == SingleRead
\* By id; when that fails, by name in the listing.
McpResolveInstance == <<"bound", "peek", "read">>
McpSshCommandPlan(inv) == <<"check">> \o McpResolveInstance \o <<"check">>
McpBalancePlan(inv) == SingleRead
McpVolumeRates == <<"read", "check">>
McpEstimatePlan(inv) ==
    <<"check">> \o SingleRead \o <<"check">> \o When(inv.extra, McpVolumeRates)
\* As for "cost running", but out of time is an error.
McpRunningCostPlan(inv) == SingleRead \o <<"read", "try", "inTime">>
McpLocationsPlan(inv) == SingleRead
McpTypesPlan(inv) == <<"check">> \o SingleRead
McpStockPlan(inv) == <<"check">> \o SingleRead
McpImagesPlan(inv) == <<"check">> \o SingleRead

-----------------------------------------------------------------------------

ReadPlan(inv) ==
    CASE inv.cmd = "vm list" -> VmListPlan(inv)
      [] inv.cmd = "vm describe" -> VmDescribePlan(inv)
      [] inv.cmd = "vm availability" -> VmAvailabilityPlan(inv)
      [] inv.cmd = "ssh" -> SshPlan(inv)
      [] inv.cmd = "volume list" -> VolumeListPlan(inv)
      [] inv.cmd = "volume describe" -> VolumeDescribePlan(inv)
      [] inv.cmd = "volume trash" -> VolumeTrashPlan(inv)
      [] inv.cmd = "key list" -> KeyListPlan(inv)
      [] inv.cmd = "script list" -> ScriptListPlan(inv)
      [] inv.cmd = "images" -> ImagesPlan(inv)
      [] inv.cmd = "instance-types" -> InstanceTypesPlan(inv)
      [] inv.cmd = "locations" -> LocationsPlan(inv)
      [] inv.cmd = "availability" -> AvailabilityPlan(inv)
      [] inv.cmd = "balance" -> BalancePlan(inv)
      [] inv.cmd = "status" -> StatusPlan(inv)
      [] inv.cmd = "cost estimate" -> EstimatePlan(inv)
      [] inv.cmd = "cost running" -> RunningCostPlan(inv)
      [] inv.cmd = "doctor" -> DoctorPlan(inv)
      [] inv.cmd = "container list" -> ContainerListPlan(inv)
      [] inv.cmd = "container describe" -> ContainerDescribePlan(inv)
      [] inv.cmd = "container replicas" -> ContainerReplicasPlan(inv)
      [] inv.cmd = "batchjob list" -> BatchjobListPlan(inv)
      [] inv.cmd = "batchjob describe" -> BatchjobDescribePlan(inv)
      [] inv.cmd = "registry ls" -> RegistryLsPlan(inv)
      [] inv.cmd = "registry tags" -> RegistryTagsPlan(inv)
      [] inv.cmd = "ls" -> StorageLsPlan(inv)
      [] inv.cmd = "ls-uploads" -> LsUploadsPlan(inv)
      [] inv.cmd = "vm_availability" -> McpAvailabilityPlan(inv)
      [] inv.cmd = "list_vms" -> McpListVmsPlan(inv)
      [] inv.cmd = "describe_vm" -> McpDescribeVmPlan(inv)
      [] inv.cmd = "list_volumes" -> McpListVolumesPlan(inv)
      [] inv.cmd = "list_volumes_in_trash" -> McpTrashPlan(inv)
      [] inv.cmd = "list_ssh_keys" -> McpListKeysPlan(inv)
      [] inv.cmd = "get_ssh_command" -> McpSshCommandPlan(inv)
      [] inv.cmd = "get_balance" -> McpBalancePlan(inv)
      [] inv.cmd = "estimate_cost" -> McpEstimatePlan(inv)
      [] inv.cmd = "get_running_costs" -> McpRunningCostPlan(inv)
      [] inv.cmd = "list_locations" -> McpLocationsPlan(inv)
      [] inv.cmd = "list_instance_types" -> McpTypesPlan(inv)
      [] inv.cmd = "check_availability" -> McpStockPlan(inv)
      [] inv.cmd = "list_images" -> McpImagesPlan(inv)

=============================================================================
