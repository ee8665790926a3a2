----------------------------- MODULE MCPartPlan -----------------------------
(* PartPlan over every file of up to 40 units and every request of up to 6,  *)
(* with a floor of 2 units and a ceiling of 4 parts.                         *)
EXTENDS PartPlan

MCFileSizes == 0 .. 40
MCRequests == 0 .. 6
=============================================================================
