---------------------------- MODULE CommandPlans ----------------------------
(***************************************************************************)
(* What each command that takes something away does, in which order, as a  *)
(* function of its flags; and the plans of all commands.                     *)
(***************************************************************************)
EXTENDS ReadPlans, CreatePlans

-----------------------------------------------------------------------------
(* Instances: shutdown, force shutdown and hibernate; delete.  At a terminal *)
(* they ask even with --yes.                                                 *)

VmActionOne(inv) ==
    <<"bound", "fetch", "unbound">> \o When(inv.cmd = "vm action", <<"menu">>)
        \o Refuse(inv) \o AskTerminal(inv) \o <<"bound", "act">> \o Await(inv)

VmBatchAction(inv) == AskTerminal(inv) \o <<"bound", "batch">>

VmDeleteAgent(inv) == Refuse(inv) \o <<"flagVolumes", "bound", "act">>
VmDeleteFlow == <<"tryFor", "askVolumes", "ask", "bound", "act">>
VmDeleteOne(inv) ==
    <<"bound", "fetch", "unbound">> \o
        IF inv.agent THEN VmDeleteAgent(inv) ELSE VmDeleteFlow

\* With --with-volumes the question about the volumes is not asked.
ConfirmBatchDelete(inv) ==
    <<IF inv.agent \/ inv.extra THEN "flagVolumes" ELSE "askVolumes">> \o AskTerminal(inv)
VmBatchDelete(inv) == ConfirmBatchDelete(inv) \o <<"bound", "batch">>

VmOne(inv) == IF inv.cmd = "vm delete" THEN VmDeleteOne(inv) ELSE VmActionOne(inv)
VmMany(inv) == IF inv.cmd = "vm delete" THEN VmBatchDelete(inv) ELSE VmBatchAction(inv)

VmPlan(inv) ==
    NeedsTarget(inv) \o
    CASE inv.given = "one" -> VmOne(inv)
      [] inv.given = "all" -> Refuse(inv) \o <<"list">> \o VmMany(inv)
      [] inv.cmd = "vm action" -> <<"list", "pickOne">> \o VmOne(inv)
      [] OTHER -> <<"list", "pickSome">>

-----------------------------------------------------------------------------
(* Volumes.  They are read on the command's own context, which has no end.   *)

VolumeDeleteOne(inv) == <<"fetch">> \o AskUnlessYes(inv) \o <<"bound", "act">>
VolumeDeleteMany(inv) == AskUnlessYes(inv) \o <<"each">>

VolumeDeletePlan(inv) ==
    CASE inv.given = "one" -> Refuse(inv) \o VolumeDeleteOne(inv)
      [] inv.given = "all" -> Refuse(inv) \o <<"list">> \o VolumeDeleteMany(inv)
      [] OTHER -> <<"list", "pickSome">>

\* The action picked is to detach, and may be waited for, or to delete.
VolumeActionPlan(inv) ==
    PickUnbounded(inv) \o <<"fetch", "menu", "ask", "bound", "act">> \o Await(inv)

-----------------------------------------------------------------------------
(* SSH keys and startup scripts; serverless deployments.                     *)

PickKey(inv) == PickBounded(inv)
KeyDeletePlan(inv) ==
    Refuse(inv) \o PickKey(inv) \o AskUnlessYes(inv) \o <<"bound", "act">>
PickScript(inv) == PickBounded(inv)
ScriptDeletePlan(inv) ==
    Refuse(inv) \o PickScript(inv) \o AskUnlessYes(inv) \o <<"bound", "act">>

ContainerDeletePlan(inv) ==
    PickContainer(inv) \o Refuse(inv) \o AskUnlessYes(inv) \o <<"bound", "act">>
\* Restart and purge-queue.
ContainerActionPlan(inv) ==
    PickContainer(inv) \o Refuse(inv) \o AskUnlessYes(inv) \o <<"bound", "act">>
BatchjobDeletePlan(inv) ==
    PickBatchjob(inv) \o Refuse(inv) \o AskUnlessYes(inv) \o <<"bound", "act">>
BatchjobActionPlan(inv) ==
    PickBatchjob(inv) \o Refuse(inv) \o AskUnlessYes(inv) \o <<"bound", "act">>

\* The scaling is read and changed by the questions; a look that fails while it
\* waits is not the end.
ScaleLoad == <<"bound", "fetch", "unbound">>
ScaleApply == <<"bound", "act">>
ScaleWait(inv) == Await(inv)
ScalePlan(inv) ==
    NeedsTarget(inv) \o Refuse(inv) \o PickBounded(inv)
        \o ScaleLoad \o AskUnlessYes(inv) \o ScaleApply \o ScaleWait(inv)

-----------------------------------------------------------------------------
(* Objects, buckets and uploads.                                            *)

RemovedKeys(inv) == When(inv.given = "all", <<"scan">>)
ConfirmRemoval(inv) == When(~ inv.yes /\ ~ inv.agent, <<"ask">>)
ExecuteRemoval(inv) == IF inv.given = "all" THEN <<"chunks">> ELSE <<"act">>
RemovePlan(inv) ==
    <<"bound">> \o When(~ inv.extra, Refuse(inv)) \o RemovedKeys(inv)
        \o When(~ inv.extra, ConfirmRemoval(inv) \o <<"bound">> \o ExecuteRemoval(inv))

\* One round of the browser; with an agent there is none.
RemoveBrowsePlan(inv) == NeedsTarget(inv) \o <<"list", "pickSome">>

ConfirmBucket(inv) == When(~ inv.yes /\ ~ inv.agent, <<"askAll">>)
EmptyBucket(inv) == When(inv.extra, <<"scan", "empty">>)
RemoveBucketPlan(inv) ==
    <<"bound">> \o Refuse(inv) \o ConfirmBucket(inv)
        \o <<"bound">> \o EmptyBucket(inv) \o <<"remove">>

AbortUploadsPlan(inv) ==
    <<"bound">> \o Refuse(inv) \o <<"list">> \o ConfirmRemoval(inv) \o <<"bound", "eachOrStop">>

-----------------------------------------------------------------------------
(* Repositories and images of the registry.                                  *)

RepositoryDeletePlan(inv) ==
    <<"bound", "peek">> \o Refuse(inv) \o ConfirmBucket(inv) \o <<"bound", "wipe">>
ImageDeletePlan(inv) ==
    <<"bound", "peek">> \o Refuse(inv) \o ConfirmRemoval(inv) \o <<"bound", "act">>

\* One round of the menu of a repository; with an agent there is none.
RegistryImagesPlan(inv) == NeedsTarget(inv) \o <<"list", "pickSome">>

-----------------------------------------------------------------------------

RemovalPlan(inv) ==
    CASE inv.cmd \in {"vm action", "vm shutdown", "vm delete"} -> VmPlan(inv)
      [] inv.cmd = "volume delete" -> VolumeDeletePlan(inv)
      [] inv.cmd = "volume action" -> VolumeActionPlan(inv)
      [] inv.cmd = "key delete" -> KeyDeletePlan(inv)
      [] inv.cmd = "script delete" -> ScriptDeletePlan(inv)
      [] inv.cmd = "container delete" -> ContainerDeletePlan(inv)
      [] inv.cmd = "container action" -> ContainerActionPlan(inv)
      [] inv.cmd = "batchjob delete" -> BatchjobDeletePlan(inv)
      [] inv.cmd = "batchjob action" -> BatchjobActionPlan(inv)
      [] inv.cmd = "container scale" -> ScalePlan(inv)
      [] inv.cmd = "rm" -> RemovePlan(inv)
      [] inv.cmd = "rm browser" -> RemoveBrowsePlan(inv)
      [] inv.cmd = "rb" -> RemoveBucketPlan(inv)
      [] inv.cmd = "abort-uploads" -> AbortUploadsPlan(inv)
      [] inv.cmd = "registry repository" -> RepositoryDeletePlan(inv)
      [] inv.cmd = "registry image" -> ImageDeletePlan(inv)
      [] inv.cmd = "registry images" -> RegistryImagesPlan(inv)
      [] inv.cmd = "vm_action" -> McpVmActionPlan(inv)

Removals ==
    {"vm action", "vm shutdown", "vm delete", "volume delete", "volume action",
     "key delete", "script delete", "container delete", "container action",
     "batchjob delete", "batchjob action", "container scale", "rm", "rm browser",
     "rb", "abort-uploads", "registry repository", "registry image",
     "registry images", "vm_action"}

Plan(inv) ==
    CASE inv.cmd \in Removals -> RemovalPlan(inv)
      [] inv.cmd \in Creations -> CreatePlan(inv)
      [] OTHER -> ReadPlan(inv)

\* What is left to do once the user has picked some of what was listed.
PickedPlan(inv, many) ==
    CASE inv.cmd \in {"vm shutdown", "vm delete"} ->
            IF many THEN VmMany(inv) ELSE VmOne(inv)
      [] inv.cmd = "volume delete" ->
            IF many THEN VolumeDeleteMany(inv) ELSE VolumeDeleteOne(inv)
      [] inv.cmd = "rm browser" -> <<"ask">> \o IF many THEN <<"chunks">> ELSE <<"act">>
      [] inv.cmd = "registry images" -> <<"ask", "eachUnbound">>

\* What the flags and arguments of the commands allow.
Tools ==
    {"create_vm", "create_volume", "add_ssh_key", "vm_action", "vm_availability",
     "list_vms", "describe_vm", "list_volumes", "list_volumes_in_trash",
     "list_ssh_keys", "get_ssh_command", "get_balance", "estimate_cost",
     "get_running_costs", "list_locations", "list_instance_types",
     "check_availability", "list_images"}
Pickable ==
    {"vm action", "volume action", "key delete", "script delete", "container delete",
     "container action", "batchjob delete", "batchjob action", "container scale",
     "vm describe", "volume describe", "container describe", "container replicas",
     "batchjob describe", "ls-uploads"}
Typed == (Creations \ {"create_volume", "add_ssh_key", "copy wizard"}) \cup {"ssh", "ls"}
Confirmable ==
    {"volume create", "container create", "batchjob create", "create_vm", "create_volume"}
Browsable ==
    {"vm list", "volume trash", "container list", "registry ls", "registry tags", "ls-uploads"}
\* --from a template, a script from a file, one type at one location, volumes in
\* an estimate.
Extended ==
    Browsable \cup {"vm create", "script add", "availability", "cost estimate",
                    "estimate_cost"}
Awaited == {"vm create", "volume create", "create_vm"}

Given(cmd) ==
    CASE cmd \in {"vm shutdown", "vm delete", "volume delete"} -> {"one", "all", "none"}
      [] cmd \in Pickable -> {"one", "none"}
      [] cmd = "rm" -> {"one", "all"}
      [] cmd \in {"registry image", "vm_action"} -> {"one"}
      [] cmd \in {"rb", "abort-uploads", "registry repository"} -> {"all"}
      [] cmd \in {"rm browser", "registry images"} -> {"none"}
      [] cmd \in Typed -> {"all", "none"}
      [] OTHER -> {"all"}

Invocations(cmds) ==
    {inv \in [cmd : cmds, agent : BOOLEAN, yes : BOOLEAN, given : {"one", "all", "none"},
              extra : BOOLEAN, wait : BOOLEAN] :
        /\ inv.given \in Given(inv.cmd)
        /\ inv.cmd \in {"vm action", "copy wizard", "upload wizard"} => ~ inv.agent
        /\ inv.cmd \in Tools => inv.agent
        /\ inv.yes => inv.cmd \in (Removals \ {"volume action"}) \cup Confirmable
        /\ inv.extra => inv.cmd \in {"vm delete", "rm", "rb"} \cup Extended
        /\ inv.extra /\ inv.cmd \in Browsable => ~ inv.agent
        /\ inv.wait => inv.cmd \in {"vm shutdown", "vm action", "volume action",
                                    "container scale", "vm_action"} \cup Awaited}

=============================================================================
