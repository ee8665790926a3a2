----------------------------- MODULE CliWizards -----------------------------
(* Every wizard of the command line: the engine run on the flow of one of the  *)
(* commands, with the options its flags preset.                                *)
EXTENDS WizardEngine, VmCreateFlow, ConfigureFlows, ServerlessFlows

IsVm(f) == f \in VmFlows
IsConfigure(f) == f \in ConfigureFlowNames

CliStarts == VmStarts \cup ConfigureStarts \cup ServerlessStarts

CliSteps(f) == CASE IsVm(f) -> VmSteps(f)
                 [] IsConfigure(f) -> ConfigureSteps(f)
                 [] OTHER -> ServerlessSteps(f)

CliRequired(f, s) ==
  s \notin (CASE IsVm(f) -> VmOptional(f)
              [] IsConfigure(f) -> ConfigureOptional
              [] OTHER -> ServerlessOptional(f))

CliDependsOn(f, s) == CASE IsVm(f) -> VmDependsOn(s)
                        [] IsConfigure(f) -> ConfigureDependsOn(s)
                        [] OTHER -> ServerlessDependsOn(f, s)

CliHasLoader(f, s) == s \in (CASE IsVm(f) -> VmListed
                               [] IsConfigure(f) -> ConfigureListed(f)
                               [] OTHER -> ServerlessListed(f))

CliTyped(f, s) == CASE IsVm(f) -> VmTyped(s)
                    [] IsConfigure(f) -> ConfigureTyped(s)
                    [] OTHER -> ServerlessTyped(f, s)

CliShouldSkip(f, s, c) == CASE IsVm(f) -> VmShouldSkip(s, c)
                            [] IsConfigure(f) -> ConfigureShouldSkip(s, c)
                            [] OTHER -> ServerlessShouldSkip(f, s, c)

CliIsSet(f, s, a) == CASE IsVm(f) -> VmIsSet(s, a)
                       [] IsConfigure(f) -> ConfigureIsSet(s, a)
                       [] OTHER -> ServerlessIsSet(f, s, a)

CliPresetValue(f, s, a) == CASE IsVm(f) -> a[s]
                             [] IsConfigure(f) -> a[s]
                             [] OTHER -> ServerlessPreset(s, a)

CliDefault(f, s, c, a) == CASE IsVm(f) -> VmDefault(s, a)
                            [] IsConfigure(f) -> ConfigureDefault(s, c, a)
                            [] OTHER -> ServerlessDefault(f, s, a)

CliValid(f, s, v) == CASE IsVm(f) -> VmValid(s, v)
                       [] IsConfigure(f) -> ConfigureValid(s, v)
                       [] OTHER -> ServerlessValid(v)

CliSetter(f, s, a, v) == CASE IsVm(f) -> VmSetter(s, a, v)
                           [] IsConfigure(f) -> ConfigureSetter(s, a, v)
                           [] OTHER -> ServerlessSetter(f, s, a, v)

CliResetter(f, s, a) == CASE IsVm(f) -> VmResetter(s, a)
                          [] IsConfigure(f) -> ConfigureResetter(s, a)
                          [] OTHER -> ServerlessResetter(f, s, a)

CliLoads(f, s, c, a) == CASE IsVm(f) -> VmLoads(f, s, c, a)
                          [] IsConfigure(f) -> ConfigureLoads(s, c, a)
                          [] OTHER -> ServerlessLoads(f, s, c, a)

-----------------------------------------------------------------------------
(* When a wizard ends well, what its command will do with the options is what *)
(* the answers in force say, whatever was answered before and taken back (what  *)
(* of a registry's credential is left out, ConfigureResultMatches tells).      *)
ResultMatchesAnswers ==
  pc = "done" =>
    CASE IsVm(flow) -> VmResultMatches(flow, collected, app)
      [] IsConfigure(flow) -> ConfigureResultMatches(flow, collected, app)
      [] OTHER -> ServerlessResultMatches(flow, collected, app)

(* "1. explicit --endpoint flag -> as-is" (registry/configure.go:369): a typed   *)
(* credential is saved with the host that the flag named, of which the wizard  *)
(* never asks.                                                                 *)
EndpointFlagKept ==
  pc = "done" /\ flow = "registry-configure" => EndpointOutlives(collected, app)

(* A machine asked for on a type and a location the wizard itself offered is  *)
(* one the availability of its billing lists.                                  *)
VmAvailable ==
  pc = "done" /\ flow = "vm-create" =>
    LET settled(s) == \E i \in Positions : Name(i) = s /\ state[i] = "completed"
    IN  settled("instance-type") /\ settled("location") =>
          /\ app["location"] \in AvailableAt(collected["billing-type"],
                                              app["instance-type"])
          /\ KindOf(app["instance-type"]) = app["kind"]

(* Going back, by the user or for want of choices, forgets no flag: a step    *)
(* taken from one stays so, and the Resetters of the steps around it leave its *)
(* option alone (engine.go:720).                                               *)
FlagsOutliveBack ==
  [][GoBack \/ AutoRewind =>
       \A i \in Positions : state[i] = "fixed" =>
         state'[i] = "fixed" /\ app'[Name(i)] = app[Name(i)]]_vars

(* A user who stops going back comes to an end: no rewinding for want of      *)
(* choices goes on forever (engine.go:70).                                     *)
RewindsEnd == []<><<GoBack>>_vars \/ <>(pc \in Ended)

=============================================================================
