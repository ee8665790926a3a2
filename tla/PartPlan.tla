------------------------------ MODULE PartPlan ------------------------------
(***************************************************************************)
(* The part plan of one upload: computePartSize's doubling loop, one       *)
(* iteration per step, over every file size and requested part size of a   *)
(* range, and the ranges the plan yields.  The names of the specification   *)
(* begin with Plan, as the proofs read it beside TransferPool.              *)
(***************************************************************************)
EXTENDS TransferParts

CONSTANTS
    FileSizes,      \* the file sizes tried
    Requests        \* the --part-size values tried; 0 is "not given"

ASSUME PlanInputs == FileSizes \subseteq Nat /\ Requests \subseteq Nat

VARIABLES
    fileSize,
    requested,
    size,           \* the loop variable
    phase           \* "scaling" in the loop, "settled" after it

planVars == <<fileSize, requested, size, phase>>

PlanInit ==
    /\ fileSize \in FileSizes
    /\ requested \in Requests
    /\ size = Greatest(requested, MinPartSize)
    /\ phase = "scaling"

\* Mistakes the loop's guard and body could hold.
\* The form the guard had before: it fires one part too early.
OverflowsEarly == (fileSize \div size) + 1 > MaxParts

Overflows == CeilDiv(fileSize, size) > MaxParts

\* One iteration: the file still needs too many parts.
Double ==
    /\ phase = "scaling"
    /\ Overflows
    /\ size' = size * 2
    /\ UNCHANGED <<fileSize, requested, phase>>

\* The loop's exit.
Settle ==
    /\ phase = "scaling"
    /\ ~ Overflows
    /\ phase' = "settled"
    /\ UNCHANGED <<fileSize, requested, size>>

\* The function has returned.
Returned == phase = "settled" /\ UNCHANGED planVars

PlanNext == Double \/ Settle \/ Returned

PlanSpec == PlanInit /\ [][PlanNext]_planVars /\ WF_planVars(Double \/ Settle)

-----------------------------------------------------------------------------
\* The plan is well formed (computePartSize's loop variable).
PlanTypeOK ==
    /\ fileSize \in FileSizes
    /\ requested \in Requests
    /\ size \in Nat \ {0}
    /\ phase \in {"scaling", "settled"}

\* The ranges of a settled plan tile the file: the first starts at 0, each of the
\* others where the one before it ends, the last ends where the file does, and
\* but for an empty file none is empty.  In particular the cap of numParts never
\* cuts the tail of a file off (computePartSize, numParts, partRange).
RangesTile ==
    phase = "settled" =>
        LET total == numParts(fileSize, size)
        IN  /\ total \in 1 .. MaxParts
            /\ partStart(1, size) = 0
            /\ \A n \in 2 .. total : partStart(n, size) = partEnd(n - 1, fileSize, size)
            /\ partEnd(total, fileSize, size) = fileSize
            /\ fileSize > 0 =>
                  \A n \in 1 .. total : partStart(n, size) < partEnd(n, fileSize, size)

\* The plan doubles no further than it must: a file that is an exact multiple
\* of the part size times the ceiling keeps its part size (computePartSize).
LeastDoubling ==
    \/ size = Greatest(requested, MinPartSize)
    \/ CeilDiv(fileSize, size \div 2) > MaxParts

\* The loop computes the closed form the transfer modules use: the least doubling
\* of the base at which the file fits (computePartSize's for statement).
LoopIsClosedForm ==
    phase = "settled" => size = computePartSize(fileSize, requested)
=============================================================================
