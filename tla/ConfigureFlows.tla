--------------------------- MODULE ConfigureFlows ---------------------------
(* The flows that store credentials or settings: registry configure           *)
(* (cmd/registry/wizard.go), object-storage configure                          *)
(* (cmd/objectstorage/wizard.go), auth login (cmd/auth/wizard.go) and the      *)
(* theme picker (cmd/settings/theme.go); and the flow of "object-storage mv"   *)
(* (cmd/objectstorage/move_wizard.go).                                         *)
EXTENDS FiniteSets

ConfigureSteps(f) ==
  CASE f = "registry-configure" ->
         <<"profile", "new-profile-name", "input-mode", "paste", "username",
           "secret", "expires-in", "docker-config">>
    [] f = "s3-configure" ->
         <<"profile", "new-profile-name", "access-key", "secret-key",
           "endpoint", "region">>
    [] f = "auth-login" -> <<"profile", "base-url", "client-id", "client-secret">>
    [] f = "theme" -> <<"theme">>
    [] f = "s3-move" ->
         <<"source-bucket", "source-object", "dest-bucket", "new-dest-bucket",
           "dest-key">>

ConfigureFlowNames ==
  {"registry-configure", "s3-configure", "auth-login", "theme", "s3-move"}

(* The options of a flow: new-profile-name writes the option of profile, and  *)
(* input-mode binds none.  The registry's endpoint belongs to a flag, whose   *)
(* value "endpoint-given" keeps.                                              *)
ConfigureOptions(f) ==
  LET steps == {ConfigureSteps(f)[i] : i \in DOMAIN ConfigureSteps(f)}
  IN  (steps \ {"new-profile-name", "input-mode"})
      \cup (IF f = "registry-configure" THEN {"endpoint", "endpoint-given"} ELSE {})

ConfigureUnset(s) == CASE s = "profile" -> "default"
                       [] s = "base-url" -> "https://api"
                       [] s = "region" -> "eu-north-3"
                       [] s = "expires-in" -> "30"
                       [] s = "docker-config" -> "no"
                       [] OTHER -> ""

ConfigureNoFlags(f) == [o \in ConfigureOptions(f) |-> ConfigureUnset(o)]

ConfigureOptional == {"docker-config", "theme", "dest-key"}

ConfigureDependsOn(s) ==
  CASE s = "new-profile-name" -> {"profile"}
    [] s \in {"paste", "username", "secret"} -> {"input-mode"}
    [] s = "source-object" -> {"source-bucket"}
    [] s = "new-dest-bucket" -> {"dest-bucket"}
    [] s = "dest-key" -> {"source-object"}
    [] OTHER -> {}

ConfigureListed(f) ==
  CASE f \in {"registry-configure", "s3-configure"} -> {"profile", "input-mode"}
    [] f = "auth-login" -> {}
    [] OTHER -> {"theme", "source-bucket", "source-object", "dest-bucket"}

LoginCommand == "docker login -u pasted"

ConfigureTyped(s) ==
  CASE s = "profile" -> {"default", "work"}
    [] s = "paste" -> {"", LoginCommand, "no login"}
    [] s = "username" -> {"typed", "no project"}
    [] s = "endpoint" -> {"https://e", "e"}
    [] s = "base-url" -> {"https://api", "https://staging"}
    [] s = "expires-in" -> {"30", "7"}
    [] s = "docker-config" -> {"yes", "no"}
    [] s = "dest-key" -> {"", "moved"}
    [] OTHER -> {"", "text"}

ConfigureShouldSkip(s, c) ==
  CASE s = "new-profile-name" -> c["profile"] # "new"
    [] s = "paste" -> c["input-mode"] = "manual"
    [] s \in {"username", "secret"} -> c["input-mode"] # "manual"
    [] s = "new-dest-bucket" -> c["dest-bucket"] # "new"
    [] OTHER -> FALSE

ConfigureIsSet(s, a) ==
  /\ s \notin {"new-profile-name", "input-mode", "username", "secret",
               "dest-bucket", "new-dest-bucket", "dest-key"}
  /\ a[s] # "" /\ a[s] # ConfigureUnset(s)

ConfigureDefault(s, c, a) ==
  CASE s = "docker-config" -> "yes"
    [] s = "theme" -> "dark"
    [] s = "dest-key" -> IF c["source-object"] \notin {"nil", ""}
                         THEN c["source-object"] ELSE a["source-object"]
    [] OTHER -> "nil"

ConfigureValid(s, v) ==
  CASE s = "paste" -> v = LoginCommand          \* parseDockerLogin
    [] s = "username" -> v = "typed"            \* projectIDFromUsername
    [] s = "endpoint" -> v = "https://e"
    [] OTHER -> TRUE

(* A login command also gives the name and the host.                          *)
PasteSetter(a, v) ==
  [a EXCEPT !["paste"] = v, !["username"] = "pasted", !["endpoint"] = "pasted host"]

PasteResetter(a) ==
  [a EXCEPT !["paste"] = "", !["username"] = "", !["endpoint"] = ""]

ConfigureSetter(s, a, v) ==
  CASE s = "paste" -> PasteSetter(a, v)
    [] s = "input-mode" -> a
    [] s = "new-profile-name" -> [a EXCEPT !["profile"] = v]
    [] s \in {"profile", "dest-bucket"} /\ v = "new" -> a
    [] OTHER -> [a EXCEPT ![s] = v]

ConfigureResetter(s, a) ==
  CASE s = "paste" -> PasteResetter(a)
    [] s \in {"input-mode", "username", "secret", "new-profile-name", "theme"} -> a
    [] OTHER -> [a EXCEPT ![s] = ConfigureUnset(s)]

Buckets == {"b1", "b2"}
ObjectsIn(b) == IF b = "b1" THEN {"k1", "k2"} ELSE {"k1"}

LoadsOne(choices, a) == {[choices |-> choices, app |-> a]}
LoadOrFails(choices, a) == LoadsOne(choices, a) \cup LoadsOne({"load error"}, a)

(* The profiles of the credentials file; without one the default is listed.   *)
ProfileLoads(a) == LoadsOne({"default", "work", "new"}, a)

(* bucketChoices, objectChoices: of the bucket picked, or given.              *)
MoveLoads(s, c, a) ==
  CASE s = "source-bucket" -> LoadOrFails(Buckets, a) \cup LoadsOne({}, a)
    [] s = "source-object" ->
         LoadOrFails(ObjectsIn(IF c["source-bucket"] \notin {"nil", ""}
                               THEN c["source-bucket"] ELSE a["source-bucket"]), a)
    [] s = "dest-bucket" -> LoadOrFails(Buckets \cup {"new"}, a)

ConfigureLoads(s, c, a) ==
  CASE s = "profile" -> ProfileLoads(a)
    [] s = "input-mode" -> LoadsOne({"paste", "manual"}, a)
    [] s = "theme" -> LoadsOne({"dark", "light"}, a)
    [] OTHER -> MoveLoads(s, c, a)

RegistryConfigureStarts ==
  LET none == ConfigureNoFlags("registry-configure")
  IN  [flow : {"registry-configure"},
       app : {none, [none EXCEPT !["profile"] = "work"],
              [none EXCEPT !["endpoint"] = "flag host",
                           !["endpoint-given"] = "flag host",
                           !["expires-in"] = "7"]}]
S3ConfigureStarts ==
  LET none == ConfigureNoFlags("s3-configure")
  IN  [flow : {"s3-configure"},
       app : {none, [none EXCEPT !["access-key"] = "flag", !["region"] = "other"]}]
LoginStarts ==
  LET none == ConfigureNoFlags("auth-login")
  IN  [flow : {"auth-login"}, app : {none, [none EXCEPT !["client-id"] = "flag"]}]
MoveStarts ==
  LET none == ConfigureNoFlags("s3-move")
  IN  [flow : {"s3-move"},
       app : {none, [none EXCEPT !["source-bucket"] = "b1"],
              [none EXCEPT !["source-bucket"] = "b2", !["source-object"] = "k1"]}]
ConfigureStarts ==
  RegistryConfigureStarts \cup S3ConfigureStarts \cup LoginStarts \cup MoveStarts
  \cup [flow : {"theme"}, app : {ConfigureNoFlags("theme")}]

-----------------------------------------------------------------------------
(* resolveRegistryInputs: a pasted command outranks a typed name and secret;  *)
(* the host is the command's, the option's, or the default.                   *)
RegistryLogin(a) ==
  CASE a["paste"] # "" -> [user |-> "pasted", host |-> "pasted host"]
    [] a["paste"] = "" /\ a["username"] # "" /\ a["secret"] # "" ->
         [user |-> a["username"],
          host |-> IF a["endpoint"] # "" THEN a["endpoint"] ELSE "saved or vccr.io"]
    [] OTHER -> [user |-> "", host |-> ""]

(* finalizeMove: a new bucket outranks a picked one, an empty key means the   *)
(* source's.                                                                  *)
MoveTarget(a) ==
  [bucket |-> IF a["new-dest-bucket"] # "" THEN a["new-dest-bucket"]
              ELSE a["dest-bucket"],
   key |-> IF a["dest-key"] # "" THEN a["dest-key"] ELSE a["source-object"]]

ProfileMeans(c) == IF c["profile"] = "new" THEN c["new-profile-name"]
                   ELSE c["profile"]

(* The host that --endpoint named is the one the credential is saved with,    *)
(* unless a pasted command brought its own.                                   *)
EndpointOutlives(c, a) ==
  c["input-mode"] = "manual" /\ a["endpoint-given"] # "" =>
    RegistryLogin(a).host = a["endpoint-given"]

(* What the command does with the options is what the answers in force say.   *)
(* Of the registry's host it is only said that no command which was pasted     *)
(* and taken back left its own: the code keeps no --endpoint, EndpointOutlives. *)
ConfigureResultMatches(f, c, a) ==
  CASE f = "registry-configure" ->
         /\ a["profile"] = ProfileMeans(c)
         /\ RegistryLogin(a).user =
              IF c["input-mode"] = "paste" THEN "pasted" ELSE c["username"]
         /\ c["input-mode"] = "manual" => RegistryLogin(a).host # "pasted host"
         /\ \A s \in {"expires-in", "docker-config"} : a[s] = c[s]
    [] f = "s3-configure" ->
         /\ a["profile"] = ProfileMeans(c)
         /\ \A s \in {"access-key", "secret-key", "endpoint", "region"} :
              a[s] = c[s]
    [] f \in {"auth-login", "theme"} -> \A s \in DOMAIN c : a[s] = c[s]
    [] f = "s3-move" ->
         /\ a["source-bucket"] = c["source-bucket"]
         /\ a["source-object"] \in ObjectsIn(a["source-bucket"])
         /\ MoveTarget(a).bucket = (IF c["dest-bucket"] = "new"
                                    THEN c["new-dest-bucket"] ELSE c["dest-bucket"])
         /\ MoveTarget(a).key = c["dest-key"]

=============================================================================
