----------------------------- MODULE SelfUpdate -----------------------------
(***************************************************************************)
(* `verda update`: a release is downloaded into memory, checked against    *)
(* the release's sums unless --skip-verify, and renamed over               *)
(* ~/.verda/bin/verda; then the installed agent skills are refreshed by    *)
(* the new binary (HostFiles), and a binary that runs from somewhere else  *)
(* is replaced in turn.                                                    *)
(***************************************************************************)
EXTENDS Naturals

CONSTANT Releases       \* versions that can be downloaded

ASSUME SelfUpdateAssumption == Releases \subseteq Nat \ {0}

Paths == {"home", "elsewhere"}      \* ~/.verda/bin/verda, and a manual or packaged install

VARIABLES
    bin,        \* [Paths -> [ver, sound]]; version 0 where there is no file
    upd,        \* the running update: [step, exe, target, skip, sound, dst]
    host,       \* [windows, packaged]: what the code asks of its surroundings
    trusting    \* history: --skip-verify let an unsound archive through
updateVars == <<bin, upd, host, trusting>>

NoBinary == [ver |-> 0, sound |-> TRUE]
NoUpdate == [step |-> "idle", exe |-> "home", target |-> 0, skip |-> FALSE, sound |-> TRUE,
             dst |-> "home"]
Runs(p) == bin[p].ver # 0 /\ bin[p].sound

UpdateInit ==
    /\ \E first \in Paths, v \in Releases :
          bin = [p \in Paths |-> IF p = first THEN [ver |-> v, sound |-> TRUE] ELSE NoBinary]
    /\ upd = NoUpdate
    /\ host \in [windows : BOOLEAN, packaged : BOOLEAN]
    /\ trusting = FALSE

(* runUpdate: nothing to do when the running version is the wanted one.    *)
StartUpdate(exe, target, skip) ==
    /\ upd.step = "idle" /\ Runs(exe) /\ target # bin[exe].ver
    /\ upd' = [NoUpdate EXCEPT !.step = "download", !.exe = exe, !.target = target, !.skip = skip]
    /\ UNCHANGED <<bin, host, trusting>>

(* verifyReleaseArchive fails closed: no sums, no update.                  *)
AcceptsWithoutSums(skip, archive, sums) == skip \/ (sums = "listed" => archive = "sound")
Accepts(skip, archive, sums) == skip \/ (sums = "listed" /\ archive = "sound")

DownloadRelease(archive, sums) ==
    /\ upd.step = "download" /\ Accepts(upd.skip, archive, sums)
    /\ upd' = [upd EXCEPT !.step = "write", !.sound = (archive = "sound")]
    /\ trusting' = (trusting \/ (upd.skip /\ archive # "sound"))
    /\ UNCHANGED <<bin, host>>
DownloadRefused ==
    /\ upd.step = "download"
    /\ upd' = NoUpdate
    /\ UNCHANGED <<bin, host, trusting>>

(* replaceBinary: a temporary file of its own name beside the destination, *)
(* renamed over it.  On Windows the destination is removed first.          *)
WriteTemp ==
    /\ upd.step = "write"
    /\ upd' = [upd EXCEPT !.step = IF host.windows THEN "remove" ELSE "rename"]
    /\ UNCHANGED <<bin, host, trusting>>
RemoveDestination ==
    /\ upd.step = "remove"
    /\ bin' \in {bin, [bin EXCEPT ![upd.dst] = NoBinary]}
    /\ upd' = [upd EXCEPT !.step = "rename"]
    /\ UNCHANGED <<host, trusting>>
Rename ==
    /\ upd.step = "rename"
    /\ bin' = [bin EXCEPT ![upd.dst] = [ver |-> upd.target, sound |-> upd.sound]]
    /\ upd' = IF upd.dst = "home" THEN [upd EXCEPT !.step = "skills"] ELSE NoUpdate
    /\ UNCHANGED <<host, trusting>>
ReplaceFails ==
    /\ upd.step \in {"write", "rename"}
    /\ upd' = NoUpdate
    /\ UNCHANGED <<bin, host, trusting>>

(* The binary the user ran, when it is not the one just replaced, unless a *)
(* package manager owns it.                                                *)
Migrate ==
    /\ upd.step = "migrate"
    /\ upd' = IF upd.exe # "home" /\ ~host.packaged
              THEN [upd EXCEPT !.step = "write", !.dst = upd.exe] ELSE NoUpdate
    /\ UNCHANGED <<bin, host, trusting>>

UpdateStep ==
    \/ \E archive \in {"sound", "broken"}, sums \in {"listed", "missing"} : DownloadRelease(archive, sums)
    \/ DownloadRefused \/ WriteTemp \/ RemoveDestination \/ Rename \/ ReplaceFails \/ Migrate
-----------------------------------------------------------------------------
(* Whatever fails and wherever the process dies, a binary on the disk is   *)
(* a release whole and as its sums say, unless the user waived the check;  *)
(* and outside Windows, where replaceBinary removes first, the user is     *)
(* never left without one.                                                 *)
BinaryWhole ==
    /\ \A p \in Paths : bin[p].sound \/ trusting
    /\ host.windows \/ \E p \in Paths : bin[p].ver # 0
=============================================================================
