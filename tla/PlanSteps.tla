------------------------------ MODULE PlanSteps ------------------------------
(***************************************************************************)
(* The steps that the handlers of the commands have in common.             *)
(* GuardedCommand says what a step does.                                    *)
(*                                                                         *)
(* An invocation is [cmd, agent, yes, given, extra, wait]: in agent mode or *)
(* at a terminal, with or without --yes, with one target named, with all    *)
(* that is needed (--all, a prefix, every flag), or with nothing, when the  *)
(* user picks or types.  "extra" is the flag that widens or narrows the     *)
(* command: --with-volumes, --force, --dryrun, --from, or of a listing that *)
(* it is browsed at a terminal.  A tool of the MCP server is an agent, and  *)
(* its confirm argument is --yes.                                           *)
(***************************************************************************)
EXTENDS Sequences

When(c, steps) == IF c THEN steps ELSE <<>>

\* NewConfirmationRequiredError.
Refuse(inv) == When(inv.agent /\ ~ inv.yes, <<"refuse">>)
\* Without a target an agent, who cannot pick, gets NewMissingFlagsError.
NeedsTarget(inv) == When(inv.agent /\ inv.given = "none", <<"refuse">>)
AskUnlessYes(inv) == When(~ inv.yes, <<"ask">>)
AskTerminal(inv) == When(~ inv.agent, <<"ask">>)
Await(inv) == When(inv.wait, <<"wait">>)
\* What is not named is listed, within --timeout or without a bound, and picked.
PickBounded(inv) ==
    When(inv.given = "none", <<"bound", "list", "pickOne", "unbound">>)
PickUnbounded(inv) == When(inv.given = "none", <<"list", "pickOne">>)
\* What is not given is typed or chosen.
TypeMissing(inv) == When(inv.given = "none", <<"menu">>)

=============================================================================
