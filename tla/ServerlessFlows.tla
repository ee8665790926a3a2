--------------------------- MODULE ServerlessFlows ---------------------------
(* The flows of "container create" (cmd/serverless/wizard.go), "batchjob       *)
(* create" (wizard_batchjob.go; most steps of both are in wizard_shared.go)    *)
(* and "container scale" (container_scale_wizard.go), where two steps may      *)
(* share one option: the preset and the custom queue load, the mode and the    *)
(* threshold of a utilization trigger.                                         *)
EXTENDS Sequences, FiniteSets

ServerlessFlowNames == {"container-create", "batchjob-create", "container-scale"}

ServerlessSteps(f) ==
  CASE f = "container-create" ->
         <<"name", "compute-type", "compute", "compute-size", "image",
           "registry-creds", "port", "healthcheck", "healthcheck-path",
           "env-vars", "min-replicas", "max-replicas", "concurrency",
           "queue-preset", "queue-load-custom", "cpu-util", "gpu-util",
           "scale-up-delay", "scale-down-delay", "request-ttl", "secret-mounts">>
    [] f = "batchjob-create" ->
         <<"name", "compute", "compute-size", "image", "registry-creds", "port",
           "env-vars", "max-replicas", "deadline", "request-ttl",
           "secret-mounts">>
    [] f = "container-scale" ->
         <<"settings", "min-replicas", "max-replicas", "concurrency",
           "queue-load", "queue-load-custom", "cpu-util", "cpu-util-threshold",
           "gpu-util", "gpu-util-threshold", "scale-up-delay",
           "scale-down-delay", "request-ttl">>

StepsOf(f) == {ServerlessSteps(f)[i] : i \in DOMAIN ServerlessSteps(f)}

(* The option a step of container scale writes.                               *)
ScaleOption(s) == CASE s = "queue-load-custom" -> "queue-load"
                    [] s = "cpu-util-threshold" -> "cpu-util"
                    [] s = "gpu-util-threshold" -> "gpu-util"
                    [] OTHER -> s

SharedSecond == {"queue-load-custom", "cpu-util-threshold", "gpu-util-threshold"}

ServerlessUnset(f, s) ==
  IF f = "container-scale" THEN ""                       \* a nil pointer
  ELSE CASE s = "compute-type" -> "on-demand"
         [] s = "port" -> "80"
         [] s = "healthcheck" -> "on"
         [] s = "healthcheck-path" -> "/health"
         [] s = "min-replicas" -> "0"
         [] s = "max-replicas" -> "3"
         [] s = "concurrency" -> "1"
         [] s = "queue-preset" -> "balanced"
         [] s \in {"scale-up-delay", "scale-down-delay", "request-ttl"} -> "5m"
         [] OTHER -> ""

ServerlessNoFlags(f) == [s \in StepsOf(f) |-> ServerlessUnset(f, s)]

ServerlessOptional(f) ==
  IF f = "container-scale"
  THEN StepsOf(f) \ {"settings", "queue-load", "cpu-util", "gpu-util"}
  ELSE {"registry-creds", "healthcheck-path", "env-vars", "min-replicas",
        "cpu-util", "gpu-util", "scale-up-delay", "scale-down-delay",
        "request-ttl", "secret-mounts"}

ServerlessDependsOn(f, s) ==
  CASE s = "healthcheck-path" -> {"healthcheck"}
    [] s = "queue-load-custom" /\ f = "container-create" -> {"queue-preset"}
    [] f = "container-scale" /\ s # "settings" ->
         {"settings"} \cup (IF s \in SharedSecond THEN {ScaleOption(s)} ELSE {})
    [] OTHER -> {}

ServerlessListed(f) ==
  IF f = "container-scale" THEN {"settings", "queue-load", "cpu-util", "gpu-util"}
  ELSE {"compute-type", "compute", "registry-creds", "healthcheck", "env-vars",
        "queue-preset", "secret-mounts"}

ServerlessTyped(f, s) ==
  CASE s \in {"queue-load-custom", "cpu-util-threshold"} -> {"70", "9999"}
    [] s = "cpu-util" -> {"", "off", "60"}
    [] s = "healthcheck-path" -> {"", "/ready"}
    [] s = "name" -> {"", "app"}
    [] OTHER -> {"8"}

(* The answers of "settings": which settings to change.                       *)
Picked(v) == CASE v = "queue" -> {"queue-load"}
               [] v = "cpu" -> {"cpu-util", "max-replicas"}
               [] v = "all" -> StepsOf("container-scale") \ {"settings"}
               [] OTHER -> {}

ServerlessShouldSkip(f, s, c) ==
  CASE s = "healthcheck-path" -> c["healthcheck"] = "off"
    [] s = "queue-load-custom" /\ f = "container-create" ->
         c["queue-preset"] # "custom"
    [] f = "container-scale" /\ s # "settings" ->
         \/ ScaleOption(s) \notin Picked(c["settings"])
         \/ s = "queue-load-custom" /\ c["queue-load"] # "custom"
         \/ s \in {"cpu-util-threshold", "gpu-util-threshold"}
            /\ c[ScaleOption(s)] # "on"
    [] OTHER -> FALSE

ServerlessIsSet(f, s, a) ==
  /\ f # "container-scale"
  /\ s \in {"name", "compute", "compute-size", "image", "registry-creds",
            "env-vars", "queue-load-custom", "deadline", "secret-mounts"}
  /\ a[s] # ""

ServerlessPreset(s, a) == IF s \in {"env-vars", "secret-mounts"} THEN "" ELSE a[s]

ServerlessDefault(f, s, a) ==
  CASE s \in {"env-vars", "secret-mounts"} -> "nil"
    [] s = "registry-creds" -> IF a[s] = "" THEN "public" ELSE a[s]
    [] f = "container-scale" -> IF s \in SharedSecond THEN "80" ELSE "current"
    [] OTHER -> a[s]

ServerlessValid(v) == v # "9999"

LoaderOwned == {"env-vars", "secret-mounts"}

ScaleSetter(s, a, v) ==
  CASE s = "settings" -> a
    [] s = "queue-load" /\ v = "custom" -> a      \* resolveQueueLoad rejects it
    [] s \in {"cpu-util", "gpu-util"} ->
         [a EXCEPT ![s] = IF v = "off" THEN "0" ELSE ""]
    [] OTHER -> [a EXCEPT ![ScaleOption(s)] = v]

(* The second step of a shared option leaves clearing it to the first.        *)
ScaleResetter(s, a) ==
  IF s \in SharedSecond \cup {"settings"} THEN a ELSE [a EXCEPT ![s] = ""]

ServerlessSetter(f, s, a, v) ==
  CASE f = "container-scale" -> ScaleSetter(s, a, v)
    [] s \in LoaderOwned -> a
    [] s = "registry-creds" /\ v = "public" -> [a EXCEPT ![s] = ""]
    [] s \in {"cpu-util", "gpu-util"} /\ v = "off" -> [a EXCEPT ![s] = ""]
    [] OTHER -> [a EXCEPT ![s] = v]

ServerlessResetter(f, s, a) ==
  CASE f = "container-scale" -> ScaleResetter(s, a)
    [] s \in LoaderOwned -> a
    [] OTHER -> [a EXCEPT ![s] = ServerlessUnset(f, s)]

ListingOnly(choices, a) == {[choices |-> choices, app |-> a]}
LoadFails(a) == {[choices |-> {"load error"}, app |-> a]}

ContainerLoads(s, a) ==
  CASE s = "compute-type" -> ListingOnly({"on-demand", "spot"}, a)
    [] s = "healthcheck" -> ListingOnly({"on", "off"}, a)
    [] s = "queue-preset" -> ListingOnly({"balanced", "instant", "custom"}, a)

(* What the API lists; without an answer an image is public.                  *)
ListedLoads(s, a) ==
  CASE s = "compute" -> ListingOnly({"H100"}, a) \cup LoadFails(a)
    [] s = "registry-creds" -> ListingOnly({"public"}, a)
                               \cup ListingOnly({"public", "mine"}, a)

(* A cancelled sub-prompt of these adds nothing.                              *)
InsideLoads(s, a) ==
  {[choices |-> {}, app |-> [a EXCEPT ![s] = v]] : v \in {"", "added"}}
  \cup LoadFails(a)

ScaleLoads(s, a) ==
  CASE s = "settings" -> ListingOnly({"queue", "cpu", "all"}, a)
    [] s = "queue-load" -> ListingOnly({"balanced", "custom"}, a)
    [] s \in {"cpu-util", "gpu-util"} -> ListingOnly({"off", "on"}, a)

ServerlessLoads(f, s, c, a) ==
  CASE f = "container-scale" -> ScaleLoads(s, a)
    [] s \in LoaderOwned -> InsideLoads(s, a)
    [] s \in {"compute", "registry-creds"} -> ListedLoads(s, a)
    [] OTHER -> ContainerLoads(s, a)

ContainerStarts ==
  LET none == ServerlessNoFlags("container-create")
  IN  [flow : {"container-create"},
       app : {[none EXCEPT !["image"] = "i", !["compute"] = "H100"],
              [none EXCEPT !["name"] = "app", !["queue-load-custom"] = "9",
                           !["healthcheck"] = "off"]}]
BatchjobStarts ==
  LET none == ServerlessNoFlags("batchjob-create")
  IN  [flow : {"batchjob-create"},
       app : {none, [none EXCEPT !["deadline"] = "1h", !["env-vars"] = "added"]}]
ScaleStarts ==
  [flow : {"container-scale"}, app : {ServerlessNoFlags("container-scale")}]
ServerlessStarts == ContainerStarts \cup BatchjobStarts \cup ScaleStarts

-----------------------------------------------------------------------------
(* resolveQueueLoad: a threshold outranks the preset.                         *)
QueueLoad(a) == IF a["queue-load-custom"] # "" THEN a["queue-load-custom"]
                ELSE a["queue-preset"]

ScaleMeans(o, c) ==
  CASE o \notin Picked(c["settings"]) -> ""
    [] o = "queue-load" /\ c[o] = "custom" -> c["queue-load-custom"]
    [] o \in {"cpu-util", "gpu-util"} ->
         IF c[o] = "off" THEN "0"
         ELSE c[IF o = "cpu-util" THEN "cpu-util-threshold"
                ELSE "gpu-util-threshold"]
    [] OTHER -> c[o]

ServerlessMeans(f, s, c) ==
  CASE c[s] = "nil" -> ServerlessUnset(f, s)
    [] c[s] \in {"off", "public"} /\ s \in {"cpu-util", "gpu-util", "registry-creds"} -> ""
    [] OTHER -> c[s]

ServerlessResultMatches(f, c, a) ==
  IF f = "container-scale"
  THEN \A o \in StepsOf(f) \ (SharedSecond \cup {"settings"}) :
         a[o] = ScaleMeans(o, c)
  ELSE /\ \A s \in StepsOf(f) \ LoaderOwned : a[s] = ServerlessMeans(f, s, c)
       /\ f = "container-create" =>
            QueueLoad(a) = IF c["queue-preset"] = "custom"
                           THEN c["queue-load-custom"] ELSE c["queue-preset"]

=============================================================================
