---------------------------- MODULE VmCreateFlow ----------------------------
(* The flows of "vm create" and of the template wizard (cmd/vm/wizard.go).     *)
(* The options bound to a flow are a function from the step that owns an       *)
(* option to its value; "-given" options are set by flags or a template and    *)
(* by no step.  "avail" is apiCache: the billing the availability was fetched  *)
(* for.  The types, locations and images stand for what the API lists.         *)
EXTENDS Sequences, FiniteSets

VmFlows == {"vm-create", "vm-template"}

VmSteps(f) ==
  <<"billing-type", "contract", "kind", "instance-type", "location", "image",
    "os-volume-size", "storage", "ssh-keys", "startup-script">>
  \o (IF f = "vm-create" THEN <<"hostname", "description", "confirm-deploy">>
      ELSE <<"hostname-pattern", "template-description">>)

VmOptions ==
  {"billing-type", "billing-given", "contract", "kind", "instance-type",
   "location", "location-given", "image", "os-volume-size", "storage",
   "ssh-keys", "startup-script", "hostname", "description",
   "hostname-pattern", "template-description", "avail"}

VmUnset(s) == CASE s = "billing-type" -> "on-demand"
                [] s = "location" -> "fin-01"
                [] OTHER -> ""

VmNoFlags == [o \in VmOptions |-> VmUnset(o)]

Pattern == "{random}-{location}"
HostnameAt(loc) == IF loc = "fin-01" THEN "host-fin-01" ELSE "host-fin-02"

-----------------------------------------------------------------------------
(* What the API answers.                                                      *)
VmTypes == {"gpu.1", "gpu.2", "cpu.1"}
KindOf(t) == IF t = "cpu.1" THEN "cpu" ELSE "gpu"

AvailableAt(billing, t) ==
  CASE billing = "spot"      -> IF t = "gpu.1" THEN {"fin-02"} ELSE {}
    [] billing = "on-demand" -> CASE t = "gpu.1" -> {"fin-01", "fin-02"}
                                  [] t = "gpu.2" -> {"fin-02"}
                                  [] t = "cpu.1" -> {"fin-01"}

ImagesFor(t) == IF t = "cpu.1" THEN {"ubuntu"} ELSE {"ubuntu", "cuda"}

(* fetchAvailability: the cache serves one billing.                           *)
FetchOnce(a, billing) ==                        \* serves whatever it holds
  IF a["avail"] # "" THEN a ELSE [a EXCEPT !["avail"] = billing]

FetchAvailability(a, billing) ==
  IF a["avail"] = billing THEN a ELSE [a EXCEPT !["avail"] = billing]

-----------------------------------------------------------------------------
VmOptional(f) == {"os-volume-size", "storage", "ssh-keys", "startup-script",
                  "description", "hostname-pattern", "template-description"}
                 \cup (IF f = "vm-template" THEN {"location"} ELSE {})

VmDependsOn(s) == CASE s = "contract" -> {"billing-type"}
                    [] s = "instance-type" -> {"kind", "billing-type"}
                    [] s = "location" -> {"instance-type", "billing-type"}
                    [] s = "image" -> {"instance-type"}
                    [] s = "hostname" -> {"location"}
                    [] s = "description" -> {"hostname"}
                    [] OTHER -> {}

VmListed == {"billing-type", "contract", "kind", "instance-type", "location",
             "image", "storage", "ssh-keys", "startup-script"}

VmTyped(s) == CASE s = "os-volume-size" -> {"", "100", "no number"}
                [] s = "hostname" -> {"", "vm-1"}
                [] s = "confirm-deploy" -> {"yes", "no"}
                [] OTHER -> {"", "text"}

VmShouldSkip(s, c) == s = "contract" /\ c["billing-type"] = "spot"

(* The loaders of these three write the option themselves: no Setter, no      *)
(* Resetter (wizard.go:613, 693, 753).                                        *)
VmLoaderOwned == {"storage", "ssh-keys", "startup-script"}

VmIsSet(s, a) ==
  CASE s = "billing-type" -> a["billing-given"] = "yes" \/ a[s] = "spot"
    [] s = "contract" -> a[s] # "" /\ a["billing-type"] # "spot"
    [] s = "location" -> a["location-given"] = "yes" \/ a[s] \notin {"", "fin-01"}
    [] s = "confirm-deploy" -> FALSE
    [] OTHER -> a[s] # ""

VmPreset(s, a) == a[s]

VmDefault(s, a) ==
  CASE s = "os-volume-size" -> IF a[s] = "" THEN "50" ELSE a[s]
    [] s = "location" -> a[s]
    [] s = "hostname-pattern" -> Pattern
    [] s = "description" -> IF a["image"] = "" /\ a["instance-type"] = ""
                            THEN "" ELSE "image-type"
    [] OTHER -> "nil"

VmValid(s, v) == ~(s = "os-volume-size" /\ v = "no number")

(* A hostname made from a template's pattern follows the location.            *)
LocationSetter(a, v) ==
  CASE v = "decide later" -> [a EXCEPT !["location"] = ""]
    [] v = "" -> a
    [] OTHER -> [a EXCEPT !["location"] = v,
                          !["hostname"] = IF a["hostname-pattern"] = Pattern /\ @ # ""
                                          THEN HostnameAt(v) ELSE @]

VmSetter(s, a, v) ==
  CASE s = "location" -> LocationSetter(a, v)
    [] s \in VmLoaderOwned -> a
    [] s = "confirm-deploy" -> IF v = "no" THEN [a EXCEPT !["hostname"] = ""] ELSE a
    [] OTHER -> [a EXCEPT ![s] = v]

VmResetter(s, a) ==
  IF s \in VmLoaderOwned \cup {"confirm-deploy"} THEN a
  ELSE [a EXCEPT ![s] = VmUnset(s)]

-----------------------------------------------------------------------------
Listing(choices, a) == [choices |-> choices, app |-> a]
Failing(a) == [choices |-> {"load error"}, app |-> a]

(* An empty list is an error of these two loaders, not a list.                *)
ListingSome(choices, a) == IF choices = {} THEN Failing(a) ELSE Listing(choices, a)

InstanceTypeLoads(f, c, a) ==
  LET fetched == FetchAvailability(a, c["billing-type"])
      offered == {t \in VmTypes : KindOf(t) = c["kind"]}
      available == {t \in offered : AvailableAt(fetched["avail"], t) # {}}
  IN  IF f = "vm-template" THEN {ListingSome(offered, a), Failing(a)}
      ELSE {ListingSome(available, fetched), Failing(a)}

LocationLoads(f, c, a) ==
  LET fetched == FetchAvailability(a, c["billing-type"])
  IN  IF f = "vm-template"
      THEN {Listing({"decide later", "fin-01", "fin-02"}, a), Failing(a)}
      ELSE {ListingSome(AvailableAt(fetched["avail"], c["instance-type"]), fetched),
            Failing(a)}

ContractLoads(a) ==                 \* without an answer pay-as-you-go is left
  {Listing({"pay_as_go"}, a), Listing({"pay_as_go", "long_term"}, a)}

ImageLoads(c, a) ==
  {Listing(ImagesFor(c["instance-type"]), a), Listing({}, a), Failing(a)}

(* The sub-flows of a loader end in a value for the option, no choices, and   *)
(* an engine that skips the step; a cancelled sub-prompt ends the wizard.     *)
ChosenInside(s, values, a) ==
  {Listing({}, [a EXCEPT ![s] = v]) : v \in values} \cup {Failing(a)}
StorageLoads(a) == ChosenInside("storage", {"", "chosen"}, a)
SSHKeyLoads(a) == ChosenInside("ssh-keys", {"keys"}, a)
StartupScriptLoads(a) == ChosenInside("startup-script", {"", "chosen"}, a)

VmLoads(f, s, c, a) ==
  CASE s = "billing-type" -> {Listing({"on-demand", "spot"}, a)}
    [] s = "contract" -> ContractLoads(a)
    [] s = "kind" -> {Listing({"gpu", "cpu"}, a)}
    [] s = "instance-type" -> InstanceTypeLoads(f, c, a)
    [] s = "location" -> LocationLoads(f, c, a)
    [] s = "image" -> ImageLoads(c, a)
    [] s = "storage" -> StorageLoads(a)
    [] s = "ssh-keys" -> SSHKeyLoads(a)
    [] s = "startup-script" -> StartupScriptLoads(a)

-----------------------------------------------------------------------------
(* applyTemplate and the flags: what a wizard may start with.                 *)
VmStarts ==
  [flow : {"vm-create"},
   app : {VmNoFlags,
          [VmNoFlags EXCEPT !["billing-type"] = "spot"],
          [VmNoFlags EXCEPT !["contract"] = "long_term"],
          [VmNoFlags EXCEPT !["kind"] = "cpu", !["location"] = "fin-02"],
          [VmNoFlags EXCEPT !["instance-type"] = "gpu.2", !["kind"] = "gpu",
                            !["billing-given"] = "yes",
                            !["hostname-pattern"] = Pattern,
                            !["hostname"] = HostnameAt("fin-01")]}]
  \cup [flow : {"vm-template"}, app : {VmNoFlags}]

(* What the answers in force ask of the option of a step.                     *)
VmMeaning(s, c) ==
  CASE s = "location" /\ c[s] = "decide later" -> ""
    [] s = "hostname" /\ c["confirm-deploy"] = "no" -> ""
    [] c[s] = "nil" -> VmUnset(s)
    [] OTHER -> c[s]

VmResultMatches(f, c, a) ==
  /\ \A s \in {VmSteps(f)[i] : i \in DOMAIN VmSteps(f)} :
       s \notin VmLoaderOwned \cup {"confirm-deploy"} => a[s] = VmMeaning(s, c)
  /\ f = "vm-create" /\ a["hostname-pattern"] = Pattern /\ a["hostname"] # ""
       => a["hostname"] = HostnameAt(a["location"])

=============================================================================
