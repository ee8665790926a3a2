----------------------------- MODULE CreatePlans -----------------------------
(***************************************************************************)
(* What the commands that create something do, and the tools of the MCP     *)
(* server that change something.  The wizards, which end in a "menu" here,   *)
(* are in CliWizards.                                                        *)
(***************************************************************************)
EXTENDS PlanSteps

-----------------------------------------------------------------------------
(* Instances.  With --from the names of a template are looked up; what is    *)
(* not found is told and left out.                                           *)

TemplateNames == <<"bound", "peek", "peek", "peek", "unbound">>
ApplyTemplate(inv) == <<"check">> \o TypeMissing(inv) \o TemplateNames
CreateInputs(inv) == When(inv.extra, ApplyTemplate(inv)) \o TypeMissing(inv)
\* After the wait the volumes of the instance are read, on the command's own
\* context, for the card.
VmCreatePlan(inv) ==
    NeedsTarget(inv) \o CreateInputs(inv) \o <<"check", "bound", "create", "unbound">>
        \o Await(inv) \o When(inv.wait /\ ~ inv.agent, <<"try">>)

-----------------------------------------------------------------------------
(* Volumes: the types are read, and the locations for the question, on the   *)
(* command's own context.                                                    *)

PromptLocation == <<"read", "menu">>
PromptVolume == <<"menu", "menu">> \o PromptLocation
VolumeCreatePlan(inv) ==
    Refuse(inv) \o <<"read", "check">> \o When(inv.given = "none", PromptVolume)
        \o When(~ inv.yes, <<"askAll">>) \o <<"bound", "create", "unbound">> \o Await(inv)

-----------------------------------------------------------------------------
(* Keys, scripts, deployments, buckets.                                      *)

KeyAddPlan(inv) ==
    When(inv.given = "none", <<"menu", "menu">>) \o <<"check", "bound", "create">>
ScriptFromFile == <<"menu", "check">>
ScriptContent(inv) == <<"menu">> \o IF inv.extra THEN ScriptFromFile ELSE <<"menu">>
ScriptAddPlan(inv) ==
    TypeMissing(inv) \o (IF inv.given = "none" THEN ScriptContent(inv) ELSE <<"check">>)
        \o <<"bound", "create">>
ContainerCreatePlan(inv) ==
    NeedsTarget(inv) \o TypeMissing(inv) \o <<"check">>
        \o When(~ inv.agent /\ ~ inv.yes, <<"askAll">>) \o <<"bound", "create">>
BatchjobCreatePlan(inv) ==
    NeedsTarget(inv) \o TypeMissing(inv) \o <<"check">>
        \o When(~ inv.agent /\ ~ inv.yes, <<"askAll">>) \o <<"bound", "create">>
BucketName(inv) == NeedsTarget(inv) \o TypeMissing(inv)
MakeBucketPlan(inv) == BucketName(inv) \o <<"check", "bound", "create">>

-----------------------------------------------------------------------------
(* The wizards of "registry copy" and "cp", on the command's own context: at   *)
(* each stage Esc goes back to the one before it, Ctrl+C out.  What is copied   *)
(* or uploaded is "created" (RegistryCopy, ObjectTrees).                        *)

CopySource == <<"stage">>
CopyAccess == <<"stage">>
CopyScope == <<"stage">>
CopyDestination == <<"stage">>
ConfirmCopy == <<"confirm", "create">>
CopyWizardPlan(inv) ==
    <<"check">> \o CopySource \o CopyAccess \o CopyScope \o CopyDestination \o ConfirmCopy

\* A source that was given is no stage.
UploadSource(inv) == IF inv.given = "all" THEN <<"check">> ELSE <<"stage">>
UploadBucket == <<"read", "stage">>
UploadFolder == <<"read", "stage">>
ConfirmUpload == <<"confirm", "create">>
UploadWizardPlan(inv) ==
    UploadSource(inv) \o UploadBucket \o UploadFolder \o ConfirmUpload

-----------------------------------------------------------------------------
(* Tools.  Arguments are checked, then the confirmation, then the service is  *)
(* called, all of it within one bound.                                        *)

FindLocation == <<"read">>
ResolveKeys == <<"read">>
\* Without keys all keys of the account are taken, if they can be read.  A wait
\* that fails is told in the result.
McpCreateVmPlan(inv) ==
    <<"check">> \o Refuse(inv) \o <<"bound">>
        \o (IF inv.given = "none" THEN FindLocation \o <<"try">> ELSE ResolveKeys)
        \o <<"create">> \o When(inv.wait, <<"waitTold">>)
McpCreateVolumePlan(inv) == <<"check">> \o Refuse(inv) \o <<"bound", "create">>
McpAddKeyPlan(inv) == <<"bound", "check", "create">>
\* Shutdown, force shutdown, hibernate and delete.
McpVmActionPlan(inv) ==
    <<"check">> \o Refuse(inv) \o <<"bound", "act">> \o Await(inv)

-----------------------------------------------------------------------------

Creations ==
    {"vm create", "volume create", "key add", "script add", "container create",
     "batchjob create", "mb", "copy wizard", "upload wizard", "create_vm", "create_volume", "add_ssh_key"}

CreatePlan(inv) ==
    CASE inv.cmd = "vm create" -> VmCreatePlan(inv)
      [] inv.cmd = "volume create" -> VolumeCreatePlan(inv)
      [] inv.cmd = "key add" -> KeyAddPlan(inv)
      [] inv.cmd = "script add" -> ScriptAddPlan(inv)
      [] inv.cmd = "container create" -> ContainerCreatePlan(inv)
      [] inv.cmd = "batchjob create" -> BatchjobCreatePlan(inv)
      [] inv.cmd = "mb" -> MakeBucketPlan(inv)
      [] inv.cmd = "copy wizard" -> CopyWizardPlan(inv)
      [] inv.cmd = "upload wizard" -> UploadWizardPlan(inv)
      [] inv.cmd = "create_vm" -> McpCreateVmPlan(inv)
      [] inv.cmd = "create_volume" -> McpCreateVolumePlan(inv)
      [] inv.cmd = "add_ssh_key" -> McpAddKeyPlan(inv)

=============================================================================
