---------------------------- MODULE PoolContract ----------------------------
(***************************************************************************)
(* What resumableUpload and resumableDownload count on when they call      *)
(* uploadMissingParts and downloadMissingChunks: parts are recorded one by *)
(* one, nil is returned only once every part is recorded and on disk, and  *)
(* nothing is recorded after the return.                                   *)
(***************************************************************************)
CONSTANT Parts   \* the parts of the transfer

VARIABLES
    recorded,    \* the parts in the in-memory checkpoint
    saved,       \* the parts of the checkpoint on disk
    result       \* "none" until the call returns "nil" or "error"

vars == <<recorded, saved, result>>

Init ==
    /\ recorded \in SUBSET Parts
    /\ saved = recorded
    /\ result = "none"

\* One more part is recorded; saving it may fail, which leaves the disk as it was.
Record(n) ==
    /\ result = "none" /\ n \notin recorded
    /\ recorded' = recorded \cup {n}
    /\ saved' \in {saved, recorded'}
    /\ UNCHANGED result

ReturnNil ==
    /\ result = "none" /\ saved = Parts
    /\ result' = "nil"
    /\ UNCHANGED <<recorded, saved>>

ReturnError ==
    /\ result = "none"
    /\ result' = "error"
    /\ UNCHANGED <<recorded, saved>>

Next == (\E n \in Parts : Record(n)) \/ ReturnNil \/ ReturnError

Spec == Init /\ [][Next]_vars /\ WF_vars(Next)
=============================================================================
