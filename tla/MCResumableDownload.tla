------------------------ MODULE MCResumableDownload ------------------------
(* ResumableDownload with two objects, one of which is replaced by a shorter *)
(* version and back.                                                         *)
EXTENDS ResumableDownload, TLC

MCObjects == {"a", "b"}
MCVersions == {"long", "short", "other"}
MCOwner == [v \in Versions |-> IF v = "other" THEN "b" ELSE "a"]
MCSize == [v \in Versions |-> IF v = "long" THEN 2 ELSE 1]

\* The processes are interchangeable.
MCSymmetry == Permutations(Procs)

AtWork == {p \in Procs : pc[p] # "idle"}

\* Bound: processes at work at once download one object; of two objects at once
\* in one .part file the properties say nothing.
OneObjectAtOnce == \A p, q \in AtWork : job[p].obj = job[q].obj

\* Bound: a process that is not alone at work has one chunk under way at a time.
OneChunkEach == \A p \in AtWork : AtWork = {p} \/ Cardinality(Busy(p)) <= 1
=============================================================================
