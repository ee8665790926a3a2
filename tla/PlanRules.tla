----------------------------- MODULE PlanRules -----------------------------
(***************************************************************************)
(* What the plans of the commands have in common, as far as the proofs     *)
(* about GuardedCommand go by it.  A rule is about the order of the steps  *)
(* in one plan; what comes of it is for the proofs.                        *)
(***************************************************************************)
EXTENDS CommandPlans, Naturals

StepNames ==
    {"refuse", "bound", "unbound", "list", "scan", "fetch", "read", "peek", "peekFor", "try", "tryFor", "inTime",
     "check", "create", "act", "batch", "each", "eachUnbound", "eachOrStop", "chunks", "empty", "remove",
     "wipe", "wait", "waitTold", "pickOne", "pickSome", "ask", "askAll", "askVolumes", "flagVolumes",
     "menu", "stage", "confirm"}

\* Steps that take away or create; that change what is in hand; that bear on what
\* the user agreed to.
Work == {"act", "batch", "each", "eachUnbound", "eachOrStop", "chunks", "empty", "wipe", "create"}
Retarget == {"list", "scan", "pickOne", "pickSome", "create"}
Questions == {"ask", "askAll", "confirm", "stage", "pickOne", "pickSome", "askVolumes", "flagVolumes"}

\* What costs money is created only with consent: a volume or, by a tool, an
\* instance; at a terminal also a deployment, and what a wizard copies.
CreatesOnConsent(inv) ==
    \/ inv.cmd \in {"volume create", "create_vm", "create_volume"}
    \/ ~ inv.agent /\ inv.cmd \in {"container create", "batchjob create",
                                  "copy wizard", "upload wizard"}
Guarded(inv, step) == step \in Work /\ (step = "create" => CreatesOnConsent(inv))

\* Step j clears step k: nobody gets past it; or the user says yes to all there is,
\* or to what is in hand, and it stays in hand.
Clears(inv, s, j, k) ==
    \/ s[j] = "refuse"
    \/ inv.agent /\ s[j] \in {"ask", "askAll", "menu", "pickOne", "pickSome"}
    \/ /\ ~ inv.agent /\ s[j] \in {"askAll", "confirm"}
       /\ \A i \in j + 1 .. k - 1 : s[i] # "ask"
    \/ /\ ~ inv.agent /\ s[j] = "ask" /\ s[k] \notin {"wipe", "create"}
       /\ \A i \in j + 1 .. k - 1 : s[i] \notin Retarget

AsksFirst(inv, s) ==
    \A k \in 1 .. Len(s) :
        Guarded(inv, s[k]) => inv.yes \/ \E j \in 1 .. k - 1 : Clears(inv, s, j, k)

\* The work is done once, at the end.
WorksLast(s) ==
    \A j \in 1 .. Len(s), k \in 1 .. Len(s) :
        j < k /\ s[j] \in Work => s[k] \notin Work \cup Retarget \cup Questions

\* A look that fails skips a question about volumes, or another look.
SkipsLook(s) ==
    \A j \in 1 .. Len(s) : s[j] \in {"peekFor", "tryFor"} =>
        /\ j + 1 <= Len(s)
        /\ \/ s[j + 1] = "askVolumes"
           \/ /\ s[j] = "peekFor" /\ s[j + 1] = "bound"
              /\ j + 2 <= Len(s) /\ s[j + 2] = "peek"

Orderly(inv, s) == s \in Seq(StepNames) /\ AsksFirst(inv, s) /\ WorksLast(s) /\ SkipsLook(s)

-----------------------------------------------------------------------------
(* What is printed in the end.                                              *)

\* Steps that name what they acted upon, and that wait for what is acted upon.
Sayers == {"act", "batch", "each", "eachUnbound", "eachOrStop", "chunks", "create"}
Waits == {"wait", "waitTold"}

\* Commands that account for each target: they name it, done or failed; of the
\* images picked in a repository's menu they name the failed and count the others
\* (registry/delete.go:625).  A bucket and a repository are named as a whole; a dry
\* run has nothing to say; rm at a terminal does not print the objects that could
\* not be deleted (rm.go:267).
AccountsForEach(inv) ==
    /\ inv.cmd \in (Removals \cup Creations) \ {"rb", "registry repository", "rm browser"}
    /\ inv.cmd = "rm" => inv.agent /\ ~ inv.extra

\* Runs on one target that wait; a batch does not (batch.go:33).
WaitsForOne(inv) ==
    inv.wait /\ ~ (inv.cmd \in {"vm shutdown", "vm delete"} /\ inv.given = "all")

\* Commands that leave out what they could not read and do not say so: volumes
\* of an instance, also from the question which of them to delete with it; the
\* status of a deployment, the price of a volume, the keys of the account.
FillsGaps ==
    {"vm list", "vm describe", "vm create", "vm delete", "cost running", "container list",
     "container describe", "batchjob describe", "create_vm", "get_running_costs"}

Has(s, S) == \E k \in 1 .. Len(s) : s[k] \in S

\* Whatever is left of a plan keeps to this: only a command that fills gaps has a
\* read it may pass over; a chunk that is refused is named; nothing but the last
\* step of get_running_costs ends it.
Candid(inv, s) ==
    /\ Has(s, {"try", "tryFor"}) => inv.cmd \in FillsGaps
    /\ Has(s, {"chunks"}) /\ AccountsForEach(inv) => inv.agent
    /\ inv.cmd = "get_running_costs" => ~ Has(s, {"list", "pickSome"})

\* A plan that says what it does, and waits if it is to; or a pick will tell.
Tells(inv, s) ==
    /\ Candid(inv, s)
    /\ AccountsForEach(inv) => Has(s, Sayers \cup {"pickSome"})
    /\ WaitsForOne(inv) => Has(s, Waits \cup {"pickSome"})
    /\ inv.cmd = "get_running_costs" => s # <<>> /\ s[Len(s)] = "inTime"
\* Of several that were picked none is waited for.
TellsOfMany(inv, s) ==
    /\ Candid(inv, s)
    /\ AccountsForEach(inv) => Has(s, Sayers)
    /\ WaitsForOne(inv) => ~ Has(s, Retarget)

-----------------------------------------------------------------------------
(* A run that nothing disturbs.                                             *)

\* Steps at which the user thinks; and calls, but those on a context of their own.
Thinking == {"pickOne", "pickSome", "ask", "askAll", "askVolumes", "menu"}
Calls == {"list", "scan", "fetch", "read", "peek", "peekFor", "try", "tryFor", "inTime", "create", "act",
          "batch",
          "eachOrStop", "chunks", "empty", "remove", "wipe"}

\* The deadline that runs at step m, when it is d now, did not run while the user
\* was thinking; or it has no end.
Timely(s, m, d) ==
    \/ d # "lapsed" /\ \A i \in 1 .. m - 1 : s[i] \notin Thinking
    \/ d = "none" /\ \A i \in 1 .. m - 1 : s[i] # "bound"
    \/ \E n \in 1 .. m - 1 : /\ s[n] \in {"bound", "unbound"}
                             /\ \A i \in n + 1 .. m - 1 : s[i] \notin Thinking
    \/ \E n \in 1 .. m - 1 : /\ s[n] = "unbound"
                             /\ \A i \in n + 1 .. m - 1 : s[i] # "bound"
CallsInTime(s, d) == \A m \in 1 .. Len(s) : s[m] \in Calls => Timely(s, m, d)

\* What the user agrees to is done later on, on what is in hand then; what he
\* agrees to as a whole is created, wiped out, or removed once it is empty.
Finishing == {"act", "batch", "each", "eachUnbound", "eachOrStop", "chunks"}
Follows(inv, s) ==
    \A k \in 1 .. Len(s) :
        /\ s[k] = "ask" => /\ \E j \in k + 1 .. Len(s) : s[j] \in Finishing
                           /\ \A j \in k + 1 .. Len(s) : s[j] \notin Retarget
        /\ s[k] \in {"askAll", "confirm"} =>
            inv.cmd \in Creations \/ \E j \in k + 1 .. Len(s) : s[j] \in {"wipe", "remove"}

\* A bucket is removed last, and what is found in it is taken out before that.
RemovesLast(inv, s) ==
    /\ inv.cmd = "rb" => ~ Has(s, {"pickOne", "pickSome", "create", "stage", "confirm"})
    /\ \A k \in 1 .. Len(s) :
        /\ s[k] = "remove" => inv.cmd = "rb" /\ k = Len(s)
        /\ s[k] = "scan" /\ inv.cmd = "rb" => \E j \in k + 1 .. Len(s) : s[j] = "empty"

\* Only an agent is refused; only a wizard has stages, at a terminal and without
\* deadlines; a pick that is followed by another plan comes before every deadline;
\* what is in hand is fetched before the work.
Plain(inv, s) ==
    /\ Has(s, {"refuse"}) => inv.agent
    /\ Has(s, Waits) => inv.wait
    /\ Has(s, {"stage", "confirm"}) => ~ inv.agent /\ inv.cmd \in Creations
    /\ Has(s, {"stage", "confirm", "pickSome"}) => ~ Has(s, {"bound", "wipe", "remove"})
    /\ \A j \in 1 .. Len(s), k \in 1 .. Len(s) : j < k /\ s[j] \in Work => s[k] # "fetch"

Steady(inv, s) == Follows(inv, s) /\ RemovesLast(inv, s) /\ Plain(inv, s)
\* A plan from its start.
StartsSteady(inv, s) == Steady(inv, s) /\ (~ inv.agent => CallsInTime(s, "none"))

-----------------------------------------------------------------------------

\* Where Esc at a stage may lead, and what is left to do after a pick.
GoesOnAt(s, k) == SubSeq(s, k, Len(s))
PlanOrderly(inv) ==
    /\ Orderly(inv, Plan(inv)) /\ Tells(inv, Plan(inv)) /\ StartsSteady(inv, Plan(inv))
    /\ inv.cmd = "rb" /\ inv.extra => Has(Plan(inv), {"scan"})
    /\ \A k \in 1 .. Len(Plan(inv)) :
        Plan(inv)[k] = "stage" =>
            \A from \in {k, k - 1} \ {0} :
                /\ Orderly(inv, GoesOnAt(Plan(inv), from))
                /\ Tells(inv, GoesOnAt(Plan(inv), from))
                /\ StartsSteady(inv, GoesOnAt(Plan(inv), from))
    /\ \A k \in 1 .. Len(Plan(inv)) :
        Plan(inv)[k] = "pickSome" /\ ~ inv.agent =>
            /\ Orderly(inv, PickedPlan(inv, TRUE)) /\ Orderly(inv, PickedPlan(inv, FALSE))
            /\ TellsOfMany(inv, PickedPlan(inv, TRUE)) /\ Tells(inv, PickedPlan(inv, FALSE))
            /\ StartsSteady(inv, PickedPlan(inv, TRUE)) /\ StartsSteady(inv, PickedPlan(inv, FALSE))
====
