------------------------- MODULE MCResumableUpload -------------------------
(* ResumableUpload with two versions of the file, of three units and of two. *)
EXTENDS ResumableUpload, TLC

MCVersions == {"first", "second"}
OneVersion == {"first"}
MCFileSize == [v \in Versions |-> IF v = "first" THEN 3 ELSE 2]

\* The processes are interchangeable.
MCSymmetry == Permutations(Procs)
=============================================================================
