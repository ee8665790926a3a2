--------------------------- MODULE GuardedCommand ---------------------------
(***************************************************************************)
(* One run of a command: it reads, creates or takes away instances, volumes, *)
(* keys, deployments, objects, uploads or images.  The command goes through  *)
(* the steps of its plan (CommandPlans); the user answers in time or not; the *)
(* service answers, fails before or after it has done the work, or stops     *)
(* answering for good; others add and remove the same things.  Getting a     *)
(* client, which needs credentials, is left out.                             *)
(*                                                                         *)
(* "deadline" is the context the next call is made with: without an end,     *)
(* live, or lapsed.  Only a context with an end saves the command from a     *)
(* service that stopped answering.                                           *)
(***************************************************************************)
EXTENDS PlanRules, FiniteSets

CONSTANTS
    Commands,     \* the commands that are run
    Items,        \* what there is to act upon, in the order of a listing
    MaxFaults,    \* bound: calls that fail, and input that is refused
    MaxOthers,    \* bound: items others add or remove
    MaxBacks      \* bound: times the user goes back

ASSUME CommandInputs ==
    /\ IsFiniteSet(Items) /\ Items \subseteq Nat /\ 1 \in Items
    /\ MaxFaults \in Nat /\ MaxOthers \in Nat /\ MaxBacks \in Nat
    /\ MaxOthers < Cardinality(Items)

\* What every plan of the commands keeps to.
ASSUME PlansAreOrderly == \A i \in Invocations(Commands) : PlanOrderly(i)

VARIABLES
    inv,        \* the invocation
    rest,       \* the steps that are left
    targets,    \* the items the command has in hand
    todo,       \* those of them a loop has not come to
    deadline,   \* "none", "live" or "lapsed"
    confirmed,  \* items the user said yes to
    doomed,     \* items whose volumes are to go with them, by answer or flag
    world,      \* items that are there, in a state the command is for
    removed,    \* items that are not there any more
    taken,      \* items a call of this command acted upon
    volumes,    \* items whose volumes went with them
    made,       \* items this command created
    unread,     \* something was passed over because it could not be read
    said,       \* per item what is printed: "none", "done" or "failed"
    settled,    \* the item acted upon: "pending", "reached" or "failed"
    exit,       \* "none", "ok", "told" (a result that tells of a failure),
                \* "canceled" or "error"
    wedged,     \* the service does not answer any more
    faults, others, backs

command == <<inv, rest, targets, todo, deadline, exit>>
consent == <<confirmed, doomed>>
service == <<world, removed, taken, volumes, made>>
counters == <<wedged, faults, others, backs>>
vars == <<command, consent, service, said, settled, unread, counters>>

Nothing == [i \in Items |-> "none"]

Init ==
    /\ inv \in Invocations(Commands)
    /\ rest = Plan(inv)
    /\ targets = IF inv.given = "one" THEN {1} ELSE {}
    /\ todo = targets
    /\ deadline = "none" /\ exit = "none"
    /\ confirmed = {} /\ doomed = {}
    /\ world \in SUBSET Items
    /\ inv.given = "one" => 1 \in world
    /\ inv.cmd \in Creations => world = {}
    /\ removed = {} /\ taken = {} /\ volumes = {} /\ made = {} /\ unread = FALSE
    /\ said = Nothing /\ settled = "pending"
    /\ wedged = FALSE /\ faults = 0 /\ others = 0 /\ backs = 0

At(s) == exit = "none" /\ rest # <<>> /\ Head(rest) = s
Go == rest' = Tail(rest) /\ UNCHANGED exit
Finish(code) == rest' = <<>> /\ exit' = code

\* The plan has come to its end: the result is printed.
Return ==
    /\ exit = "none" /\ rest = <<>>
    /\ exit' = "ok"
    /\ UNCHANGED <<inv, rest, targets, todo, deadline, consent, service, said, settled, unread, counters>>

\* NewConfirmationRequiredError, NewMissingFlagsError.
RefuseStep ==
    /\ At("refuse") /\ Finish("error")
    /\ UNCHANGED <<inv, targets, todo, deadline, consent, service, said, settled, unread, counters>>

\* context.WithTimeout on the command's context; or that context itself.  The
\* mistake derives the new one from the one in use, which may have run out.
BoundNested ==
    /\ At("bound") \/ At("unbound")
    /\ deadline' = CASE At("unbound") -> "none"
                     [] deadline = "lapsed" -> "lapsed"
                     [] OTHER -> "live"
    /\ Go
    /\ UNCHANGED <<inv, targets, todo, consent, service, said, settled, unread, counters>>
Bound ==
    /\ At("bound") \/ At("unbound")
    /\ deadline' = IF At("bound") THEN "live" ELSE "none"
    /\ Go
    /\ UNCHANGED <<inv, targets, todo, consent, service, said, settled, unread, counters>>

-----------------------------------------------------------------------------
(* Calls.  A volume of a batch is deleted on a context of its own.            *)

Ctx == CASE At("each") -> "live"
         [] At("eachUnbound") -> "none"
         [] OTHER -> deadline

Served == ~ wedged /\ Ctx # "lapsed"
\* The call fails: on arrival or by a fault; or the deadline comes.
Unserved ==
    \/ Ctx = "lapsed" /\ UNCHANGED <<faults, deadline>>
    \/ ~ wedged /\ Ctx # "lapsed" /\ faults < MaxFaults
       /\ faults' = faults + 1 /\ UNCHANGED deadline
    \/ wedged /\ Ctx = "live" /\ UNCHANGED faults
       /\ deadline' = IF At("each") THEN deadline ELSE "lapsed"
\* A call that failed under way may have done its work.
MayHaveDone(S) == IF Ctx = "lapsed" THEN {{}} ELSE SUBSET S

\* The items of S are acted upon; volumes named with them go too.
Take(S) ==
    /\ taken' = taken \cup (S \cap world)
    /\ volumes' = volumes \cup (S \cap world \cap doomed)
    /\ world' = world \ S
    /\ removed' = removed \cup (S \cap world)
    /\ UNCHANGED made

\* An S3 delete of an absent key succeeds; NoSuchUpload is taken for done.
GoneIsDone == inv.cmd \in {"rm", "rm browser", "abort-uploads"}

\* The listing that targets are taken from; "list" ends when it is empty.
List ==
    /\ At("list") \/ At("scan")
    /\ \/ /\ Served /\ UNCHANGED <<faults, deadline>>
          /\ targets' = world /\ todo' = world
          /\ IF At("list") /\ world = {} THEN Finish("ok") ELSE Go
       \/ Unserved /\ Finish("error") /\ UNCHANGED <<targets, todo>>
    /\ UNCHANGED <<inv, consent, service, said, settled, unread, wedged, others, backs>>

Fetch ==
    /\ At("fetch")
    /\ \/ /\ Served /\ UNCHANGED <<faults, deadline>>
          /\ IF targets \subseteq world THEN Go ELSE Finish("error")
       \/ Unserved /\ Finish("error")
    /\ UNCHANGED <<inv, targets, todo, consent, service, said, settled, unread, wedged, others, backs>>

\* A required read.
Read ==
    /\ At("read")
    /\ \/ Served /\ Go /\ UNCHANGED <<faults, deadline>>
       \/ Unserved /\ Finish("error")
    /\ UNCHANGED <<inv, targets, todo, consent, service, said, settled, unread, wedged, others, backs>>

\* A look that may fail; what depends on it is then skipped: the sign-in after the
\* service did not answer; or, of the volumes of an instance to be deleted
\* ("tryFor"), the question which of them go with it.  Nobody is told of a volume
\* that could not be read; the others are still asked about.
AfterLook ==
    CASE At("peek") -> Tail(rest)
      [] At("peekFor") /\ rest[2] = "bound" -> SubSeq(rest, 4, Len(rest))
      [] OTHER -> SubSeq(rest, 3, Len(rest))
Peek ==
    /\ At("peek") \/ At("peekFor") \/ At("tryFor")
    /\ \/ Served /\ Go /\ UNCHANGED <<faults, deadline, unread>>
       \/ /\ Unserved /\ rest' = AfterLook /\ UNCHANGED exit
          /\ unread' = IF At("tryFor") THEN TRUE ELSE unread
       \/ At("tryFor") /\ Unserved /\ Go /\ unread' = TRUE
    /\ UNCHANGED <<inv, targets, todo, consent, service, said, settled, wedged, others, backs>>

\* A look whose failure nobody is told of.
Try ==
    /\ At("try") /\ Go
    /\ \/ Served /\ UNCHANGED <<faults, deadline, unread>>
       \/ Unserved /\ unread' = TRUE
    /\ UNCHANGED <<inv, targets, todo, consent, service, said, settled, wedged, others, backs>>
InTime ==
    /\ At("inTime")
    /\ IF deadline = "lapsed" THEN Finish("error") ELSE Go
    /\ UNCHANGED <<inv, targets, todo, deadline, consent, service, said, settled, unread, counters>>

\* Flags, arguments and files: what is wrong with them counts as a fault.
Check ==
    /\ At("check")
    /\ \/ Go /\ UNCHANGED faults
       \/ faults < MaxFaults /\ faults' = faults + 1 /\ Finish("error")
    /\ UNCHANGED <<inv, targets, todo, deadline, consent, service, said, settled, unread, wedged, others, backs>>

\* What is new is in hand from then on.
Fresh == Items \ (world \cup removed)
Appear(S) == world' = world \cup S /\ made' = made \cup S
Create ==
    /\ At("create")
    /\ \E i \in Fresh :
        \/ /\ Served /\ UNCHANGED <<faults, deadline>>
           /\ Appear({i}) /\ Go
           /\ targets' = {i} /\ said' = [said EXCEPT ![i] = "done"]
        \/ /\ Unserved /\ Finish("error") /\ UNCHANGED <<targets, said>>
           /\ \E S \in MayHaveDone({i}) : Appear(S)
    /\ UNCHANGED <<inv, todo, consent, removed, taken, volumes, settled, unread, wedged, others, backs>>

\* One call for the one target.
Act ==
    /\ At("act")
    /\ \/ /\ Served /\ UNCHANGED <<faults, deadline>>
          /\ IF targets \subseteq world \/ GoneIsDone
             THEN /\ Take(targets) /\ Go
                  /\ said' = [i \in Items |-> IF i \in targets THEN "done" ELSE said[i]]
             ELSE Finish("error") /\ UNCHANGED <<service, said>>
       \/ /\ Unserved /\ Finish("error") /\ UNCHANGED said
          /\ \E S \in MayHaveDone(targets) : Take(S)
    /\ UNCHANGED <<inv, targets, todo, consent, settled, unread, wedged, others, backs>>

\* One call for all targets, with a result for each: some may be refused.  An
\* answer without results says that all were done.  The mistake takes any answer
\* for that.
BatchUnread ==
    /\ At("batch")
    /\ \/ \E S \in SUBSET (targets \cap world) :
            /\ Served /\ UNCHANGED deadline
            /\ IF S = targets \cap world THEN UNCHANGED faults
               ELSE faults < MaxFaults /\ faults' = faults + 1
            /\ Take(S) /\ Go
            /\ said' = [i \in Items |-> IF i \in targets THEN "done" ELSE said[i]]
       \/ /\ Unserved /\ Finish("error") /\ UNCHANGED said
          /\ \E S \in MayHaveDone(targets) : Take(S)
    /\ UNCHANGED <<inv, targets, todo, consent, settled, unread, wedged, others, backs>>
Batch ==
    /\ At("batch")
    /\ \/ \E S \in SUBSET (targets \cap world) :
            /\ Served /\ UNCHANGED deadline
            /\ IF S = targets \cap world THEN UNCHANGED faults
               ELSE faults < MaxFaults /\ faults' = faults + 1
            /\ Take(S) /\ Go
            /\ said' = [i \in Items |-> IF i \notin targets THEN said[i]
                                        ELSE IF i \in S THEN "done" ELSE "failed"]
       \/ /\ Unserved /\ Finish("error") /\ UNCHANGED said
          /\ \E S \in MayHaveDone(targets) : Take(S)
    /\ UNCHANGED <<inv, targets, todo, consent, settled, unread, wedged, others, backs>>

Foremost(t) == t \in todo /\ \A u \in todo : t <= u
Say(t, s) == said' = [said EXCEPT ![t] = s]

\* One call per target.  A failure is noted, and the next one is tried.  The
\* mistake tries the same one again.
EachAgain ==
    /\ At("each") \/ At("eachUnbound")
    /\ \/ todo = {} /\ Go /\ UNCHANGED <<todo, deadline, service, said, faults>>
       \/ \E t \in todo : Foremost(t) /\ UNCHANGED <<rest, exit>> /\
            \/ /\ Served /\ UNCHANGED <<faults, deadline>>
               /\ Take({t})
               /\ IF t \in world THEN Say(t, "done") /\ todo' = todo \ {t}
                  ELSE Say(t, "failed") /\ UNCHANGED todo
            \/ /\ Unserved /\ Say(t, "failed") /\ todo' = todo \ {t}
               /\ \E S \in MayHaveDone({t}) : Take(S)
    /\ UNCHANGED <<inv, targets, consent, settled, unread, wedged, others, backs>>
Each ==
    /\ At("each") \/ At("eachUnbound")
    /\ \/ todo = {} /\ Go /\ UNCHANGED <<todo, deadline, service, said, faults>>
       \/ \E t \in todo : Foremost(t) /\ UNCHANGED <<rest, exit>> /\
            \/ /\ Served /\ UNCHANGED <<faults, deadline>>
               /\ Take({t}) /\ todo' = todo \ {t}
               /\ Say(t, IF t \in world THEN "done" ELSE "failed")
            \/ /\ Unserved /\ Say(t, "failed") /\ todo' = todo \ {t}
               /\ \E S \in MayHaveDone({t}) : Take(S)
    /\ UNCHANGED <<inv, targets, consent, settled, unread, wedged, others, backs>>

\* The uploads of abort-uploads, and the chunks of a recursive rm or of rb
\* --force: the first call that fails ends the command, and what was done before
\* it is not printed.  A chunk here is one object.
StopAtFirst == {"eachOrStop", "chunks", "empty"}
InOrder ==
    /\ \E s \in StopAtFirst : At(s)
    /\ \/ todo = {} /\ Go /\ UNCHANGED <<todo, deadline, service, said, faults>>
       \/ \E t \in todo : Foremost(t) /\
            \/ /\ Served /\ UNCHANGED <<faults, deadline, rest, exit>>
               /\ Take({t}) /\ todo' = todo \ {t} /\ Say(t, "done")
            \/ /\ Unserved /\ Finish("error") /\ UNCHANGED todo
               /\ said' = Nothing
               /\ \E S \in MayHaveDone({t}) : Take(S)
    /\ UNCHANGED <<inv, targets, consent, settled, unread, wedged, others, backs>>

\* DeleteObjects answers that it could not delete an object: rb stops; rm goes
\* on, and only its structured output tells.
Refused ==
    /\ At("chunks") \/ At("empty")
    /\ ~ wedged /\ deadline # "lapsed" /\ faults < MaxFaults /\ faults' = faults + 1
    /\ \E t \in todo :
        /\ Foremost(t)
        /\ IF At("empty") THEN Finish("error") /\ said' = Nothing /\ UNCHANGED todo
           ELSE /\ todo' = todo \ {t} /\ UNCHANGED <<rest, exit>>
                /\ Say(t, IF inv.agent THEN "failed" ELSE "none")
    /\ UNCHANGED <<inv, targets, deadline, consent, service, settled, unread, wedged, others, backs>>

\* DeleteBucket, of an empty bucket only; and a repository with all it holds.
Container ==
    /\ At("remove") \/ At("wipe")
    /\ \/ /\ Served /\ UNCHANGED <<faults, deadline>>
          /\ IF At("wipe") THEN Take(Items) /\ Go
             ELSE (IF world = {} THEN Go ELSE Finish("error")) /\ UNCHANGED service
       \/ /\ Unserved /\ Finish("error")
          /\ IF At("wipe") THEN \E S \in MayHaveDone(Items) : Take(S) ELSE UNCHANGED service
    /\ UNCHANGED <<inv, targets, todo, consent, said, settled, unread, wedged, others, backs>>

\* Poll: one look after the other, within --wait-timeout, until the item is where
\* it should be.  A look that fails ends it; of a scale it does not.  A tool that
\* created an instance returns it all the same, with the error.
Wait ==
    /\ At("wait") \/ At("waitTold")
    /\ \/ settled = "reached" /\ ~ wedged /\ Go
       \/ At("wait") /\ Finish("error")
       \/ At("waitTold") /\ Finish("told")
    /\ UNCHANGED <<inv, targets, todo, deadline, consent, service, said, settled, unread, counters>>

-----------------------------------------------------------------------------
(* Questions.  An agent's prompter answers each with an error.  While the user *)
(* thinks, a live deadline may come.                                           *)

Thinks == deadline' \in {deadline, IF deadline = "live" THEN "lapsed" ELSE deadline}

Pick ==
    /\ At("pickOne") \/ At("pickSome")
    /\ Thinks
    /\ \/ /\ Finish(IF inv.agent THEN "error" ELSE "canceled")
          /\ UNCHANGED <<targets, todo>>
       \/ /\ ~ inv.agent /\ UNCHANGED exit
          /\ \E S \in SUBSET targets \ {{}} :
                /\ At("pickOne") => Cardinality(S) = 1
                /\ targets' = S /\ todo' = S
                /\ rest' = IF At("pickOne") THEN Tail(rest)
                           ELSE PickedPlan(inv, Cardinality(S) > 1)
    /\ UNCHANGED <<inv, consent, service, said, settled, unread, counters>>

\* Of a container the user is shown the name.  The mistake takes the
\* cancellation of the question for a yes.
AskNoCancel ==
    /\ At("ask") \/ At("askAll")
    /\ Thinks
    /\ \/ Finish(IF inv.agent THEN "error" ELSE "canceled") /\ UNCHANGED confirmed
       \/ ~ inv.agent /\ Go /\ UNCHANGED confirmed
       \/ /\ ~ inv.agent /\ Go
          /\ confirmed' = IF At("askAll") THEN Items ELSE targets
    /\ UNCHANGED <<inv, targets, todo, doomed, service, said, settled, unread, counters>>
Ask ==
    /\ At("ask") \/ At("askAll")
    /\ Thinks
    /\ \/ Finish(IF inv.agent THEN "error" ELSE "canceled") /\ UNCHANGED confirmed
       \/ /\ ~ inv.agent /\ Go
          /\ confirmed' = IF At("askAll") THEN Items ELSE targets
    /\ UNCHANGED <<inv, targets, todo, doomed, service, said, settled, unread, counters>>

\* Whether the volumes go too; and what to do at all (selectAction).
AskVolumes ==
    /\ At("askVolumes") /\ Thinks
    /\ \/ Finish("canceled") /\ UNCHANGED doomed
       \/ doomed' \in {{}, targets} /\ Go
    /\ UNCHANGED <<inv, targets, todo, confirmed, service, said, settled, unread, counters>>
FlagVolumes ==
    /\ At("flagVolumes") /\ Go
    /\ doomed' = IF inv.extra THEN targets ELSE {}
    /\ UNCHANGED <<inv, targets, todo, deadline, confirmed, service, said, settled, unread, counters>>
Menu ==
    /\ At("menu") /\ Thinks
    /\ Finish(IF inv.agent THEN "error" ELSE "canceled") \/ (~ inv.agent /\ Go)
    /\ UNCHANGED <<inv, targets, todo, consent, service, said, settled, unread, counters>>

\* A stage of a wizard.  Esc goes back to the stage before it, with what is read
\* for that; from the first one out.
Before == Len(Plan(inv)) - Len(rest)
StagesBefore == {k \in 1 .. Before : Plan(inv)[k] = "stage"}
Rewind(k) ==
    LET from == IF k > 1 /\ Plan(inv)[k - 1] = "read" THEN k - 1 ELSE k
    IN  rest' = SubSeq(Plan(inv), from, Len(Plan(inv)))
Esc ==
    IF StagesBefore = {} THEN Finish("canceled") /\ UNCHANGED backs
    ELSE /\ backs < MaxBacks /\ backs' = backs + 1 /\ UNCHANGED exit
         /\ \E k \in StagesBefore : (\A j \in StagesBefore : j <= k) /\ Rewind(k)
Stage ==
    /\ At("stage") \/ At("confirm")
    /\ \/ Esc /\ UNCHANGED confirmed
       \/ Finish("canceled") /\ UNCHANGED <<confirmed, backs>>
       \/ Go /\ UNCHANGED backs /\ confirmed' = IF At("confirm") THEN Items ELSE confirmed
    /\ UNCHANGED <<inv, targets, todo, deadline, doomed, service, said, settled, unread, wedged,
                   faults, others>>

-----------------------------------------------------------------------------
(* The rest of the world.                                                    *)

Others ==
    /\ others < MaxOthers /\ others' = others + 1
    /\ \E i \in Items :
        \/ i \in world /\ world' = world \ {i} /\ removed' = removed \cup {i}
        \/ i \notin world \cup removed /\ world' = world \cup {i} /\ UNCHANGED removed
    /\ UNCHANGED <<command, consent, taken, volumes, made, said, settled, unread, wedged, faults, backs>>
Wedge ==
    /\ ~ wedged /\ wedged' = TRUE
    /\ UNCHANGED <<command, consent, service, said, settled, unread, faults, others, backs>>
Settle ==
    /\ settled = "pending" /\ taken \cup made # {}
    /\ settled' \in {"reached", "failed"}
    /\ UNCHANGED <<command, consent, service, said, unread, counters>>

Call == List \/ Fetch \/ Read \/ Peek \/ Try \/ Create \/ Act \/ Batch \/ Each \/ InOrder \/ Refused \/ Container \/ Wait
Answer == Pick \/ Ask \/ AskVolumes \/ Menu \/ Stage
Step == Return \/ RefuseStep \/ Bound \/ Check \/ InTime \/ FlagVolumes \/ Call \/ Answer

Next == Step \/ (exit = "none" /\ (Others \/ Wedge \/ Settle))

\* The command goes on where it can, and the user answers.
Spec == Init /\ [][Next]_vars /\ WF_vars(Step)

-----------------------------------------------------------------------------
(* Properties.                                                              *)

\* --yes stands for the user's consent; to an agent nothing else does.
Consented(i) == inv.yes \/ (~ inv.agent /\ i \in confirmed)

AsksToCreate == CreatesOnConsent(inv)

\* Nothing is taken away without consent: the user said yes to a question that
\* named it, or --yes was given, and an agent cannot do without --yes; volumes go
\* only with their instance and only if an answer or a flag says so.  So is what
\* asks to be created.
NothingWithoutConsent ==
    /\ \A i \in taken : Consented(i)
    /\ volumes \subseteq taken \cap doomed
    /\ AsksToCreate => \A i \in made : Consented(i)

\* What the command prints is so: a thing said to be done is gone, or is there; a
\* run on one target with --wait reports success only of what was reached; every
\* target of a run that went through is accounted for, done or failed, where the
\* command does that; and what could not be read is left out only by the commands
\* of FillsGaps, of them get_running_costs not for lack of time.  That the others
\* leave it out without a word is what CostsComplete is about.
PrintsTheTruth ==
    /\ \A i \in Items : said[i] = "done" => i \in removed \cup made
    /\ exit = "ok" =>
        /\ WaitsForOne(inv) /\ Cardinality(targets) = 1 => settled = "reached"
        /\ AccountsForEach(inv) => \A i \in targets : said[i] # "none"
        /\ unread => inv.cmd \in FillsGaps
        /\ unread /\ inv.cmd = "get_running_costs" => deadline # "lapsed"

\* "Estimate what currently running instances and their attached volumes cost"
\* (cost/running.go:34): a total that is printed has every volume.
CostsComplete == exit = "ok" /\ inv.cmd = "cost running" => ~ unread

\* A run at a terminal that nothing disturbs does what the user agreed to,
\* however long the answers take: no deadline that ran while the user was
\* thinking is left for the call that follows (rm.go:167, delete.go:299).
Undisturbed == faults = 0 /\ ~ wedged /\ others = 0
ThinkTimeIsFree ==
    /\ Undisturbed /\ exit = "error" =>
        \/ inv.agent
        \/ inv.wait
        \/ inv.cmd = "rb" /\ ~ inv.extra /\ world # {}
    /\ Undisturbed /\ exit = "ok" => confirmed \cap world \subseteq made

\* Commands that read, or delete, without a deadline.
MayHang ==
    {"vm action", "vm shutdown", "vm delete", "volume delete", "volume action",
     "rm browser", "registry images", "vm list", "vm describe", "vm create",
     "volume create", "volume describe", "registry ls", "ls",
     "copy wizard", "upload wizard"}

\* Every command comes to an end when the user answers; a service that stopped
\* answering can keep only those that make calls without a deadline.
EndsInTime ==
    <>(exit # "none" \/ (wedged /\ Ctx = "none" /\ inv.cmd \in MayHang))

\* "Callers bound requests with a context instead" (util/factory.go:91): then every
\* command comes to an end, whatever the service does.
BoundedCallsEnd == <>(exit # "none")

=============================================================================
