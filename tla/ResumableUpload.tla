-------------------------- MODULE ResumableUpload --------------------------
(***************************************************************************)
(* Resumable multipart uploads of ONE (source path, bucket, key) identity: *)
(* the verda processes of one host that upload it, the checkpoint and lock *)
(* files they share under ~/.verda/s3-uploads, and the S3 service they     *)
(* call (objectstorage/mpupload.go, checkpoint.go, lock.go, cp.go and      *)
(* resume_uploads.go).  A process may crash between any two of its steps;  *)
(* a call may fail before or after it took effect; a part still in flight  *)
(* when its process dies may reach the server later.                       *)
(*                                                                         *)
(* The source file is one of Versions (its size, mtime and bytes), a part  *)
(* is a byte range of a version, and an ETag is the part it identifies.    *)
(* The file is edited only while no upload of it runs.                     *)
(***************************************************************************)
EXTENDS TransferParts, FiniteSets

LOCAL INSTANCE FiniteSetsExt

CONSTANTS
    Procs,        \* process slots of the host
    Versions,     \* what the source file can hold
    FileSize,     \* the size of each version
    Requests,     \* the --part-size values used; 0 is "not given"
    Concurrency,  \* width of the worker pool
    Entries,      \* the commands used: "cp" (and the upload wizard), "ls-uploads"
    MaxRuns,      \* bound: runs of the program
    MaxMishaps,   \* bound: crashes, failed calls and outside aborts together
    MaxAges,      \* bound: times that checkpointMaxAge goes by
    None          \* no checkpoint, no part, no job

\* A part as the server stores it: the bytes [from, to) of a version.
PartData == {d \in [ver : Versions, from : Nat, to : Nat] :
                d.from <= d.to /\ d.to <= FileSize[d.ver]}
PartNo == 1 .. MaxParts
PartMaps == [PartNo -> PartData \cup {None}]
UploadIds == 1 .. MaxRuns
Checkpoints == [uid : UploadIds, ver : Versions, ps : Nat \ {0}, parts : PartMaps]
Jobs == [ver : Versions, ps : Nat \ {0}, noResume : BOOLEAN]
Puts == [uid : UploadIds, n : PartNo, data : PartData]

ASSUME UploadInputs ==
    /\ FileSize \in [Versions -> Nat]
    /\ Requests \subseteq Nat
    /\ Concurrency \in Nat \ {0}
    /\ Entries \subseteq {"cp", "ls-uploads"}
    /\ MaxRuns \in Nat /\ MaxMishaps \in Nat /\ MaxAges \in Nat

ASSUME NoneIsNothing ==
    None \notin PartData /\ None \notin Checkpoints /\ None \notin Jobs

VARIABLES
    file,       \* the version the source path holds
    lockFile,   \* inode of <identity>.lock, 0 when there is no such file
    stale,      \* which of "lock", "ckpt" have an mtime past checkpointMaxAge
    ckpt,       \* <identity>.json
    status,     \* per upload: "none", "open", "done" or "aborted"
    stored,     \* per upload: the parts the server holds
    object,     \* the parts the published object was assembled from
    net,        \* UploadPart requests the server has not seen yet
    pc,         \* per process: where it stands
    job,        \* per process: the arguments of resumableUpload
    mem,        \* per process: its in-memory checkpoint
    flight,     \* per process and part: the worker's request
    held,       \* per process: the inode it holds an flock on, or 0
    outcome,    \* per process: "none" while the run goes well, or how it ends
    excused,    \* per process: whether something outside the code hit the run
    overtaken,  \* history: uploads whose checkpoint an adoption saved while another
                \* process held the lock
    runs, mishaps, ages   \* the bounded counters

disk == <<lockFile, stale, ckpt>>
server == <<status, stored, object>>
counters == <<runs, ages, overtaken>>
blame == <<mishaps, excused>>
vars == <<file, disk, server, net, pc, job, mem, flight, held, outcome, blame, counters>>

Steps == {"idle", "gc", "adopt", "lock", "resolve", "abort", "list", "save",
          "create", "first", "strand", "pool", "complete", "delete", "exit"}

NoParts == [n \in PartNo |-> None]
AllQuiet == [n \in PartNo |-> "quiet"]

\* partRange applied to a version of the file.
Slice(v, n, ps) ==
    [ver |-> v, from |-> partStart(n, ps), to |-> partEnd(n, FileSize[v], ps)]

total(p) == numParts(FileSize[job[p].ver], job[p].ps)
Put(p, n) == [uid |-> mem[p].uid, n |-> n, data |-> Slice(job[p].ver, n, job[p].ps)]
Busy(p) == {n \in PartNo : flight[p][n] # "quiet"}

\* The parts uploadMissingParts has to send.  The mistake is a loop that stops
\* before total.
MissingButLast(p) == {n \in 1 .. total(p) - 1 : mem[p].parts[n] = None}
Missing(p) == {n \in 1 .. total(p) : mem[p].parts[n] = None}

\* Checkpoint c with other parts.
WithParts(c, parts) == [uid |-> c.uid, ver |-> c.ver, ps |-> c.ps, parts |-> parts]

\* Process p goes on to step s, or ends its run with a result.
Goto(p, s) == pc' = [pc EXCEPT ![p] = s]
End(p, result) == Goto(p, "exit") /\ outcome' = [outcome EXCEPT ![p] = result]

\* Something outside the code goes wrong in process p's run, or does not.
Mishap(p) ==
    /\ mishaps < MaxMishaps
    /\ mishaps' = mishaps + 1
    /\ excused' = [excused EXCEPT ![p] = TRUE]
Calm == UNCHANGED blame

Init ==
    /\ file \in Versions
    /\ lockFile = 0 /\ stale = {} /\ ckpt = None
    /\ status = [u \in UploadIds |-> "none"]
    /\ stored = [u \in UploadIds |-> NoParts]
    /\ object = NoParts
    /\ net = {}
    /\ pc = [p \in Procs |-> "idle"]
    /\ job = [p \in Procs |-> None]
    /\ mem = [p \in Procs |-> None]
    /\ flight = [p \in Procs |-> AllQuiet]
    /\ held = [p \in Procs |-> 0]
    /\ outcome = [p \in Procs |-> "none"]
    /\ excused = [p \in Procs |-> FALSE]
    /\ overtaken = {}
    /\ runs = 0 /\ mishaps = 0 /\ ages = 0

-----------------------------------------------------------------------------
(* Entry: cp, and the resume offered by ls-uploads.                         *)

\* runUpload stats the file and takes the resumable path when it is larger
\* than one part.
runUpload(p) ==
    /\ pc[p] = "idle" /\ "cp" \in Entries /\ runs < MaxRuns
    /\ \E r \in Requests, noResume \in BOOLEAN :
        LET ps == computePartSize(FileSize[file], r)
        IN  /\ FileSize[file] > ps
            /\ job' = [job EXCEPT ![p] = [ver |-> file, ps |-> ps, noResume |-> noResume]]
    /\ runs' = runs + 1
    /\ excused' = [excused EXCEPT ![p] = FALSE]
    /\ Goto(p, "gc")
    /\ UNCHANGED <<file, disk, server, net, mem, flight, held, outcome, mishaps, ages, overtaken>>

\* gcStaleFiles: unlink every file of the directory past checkpointMaxAge,
\* whoever holds a lock on it.
gcCheckpoints(p) ==
    /\ pc[p] = "gc"
    /\ lockFile' = IF "lock" \in stale THEN 0 ELSE lockFile
    /\ ckpt' = IF "ckpt" \in stale THEN None ELSE ckpt
    /\ stale' = {}
    /\ Goto(p, "lock")
    /\ UNCHANGED <<file, server, net, job, mem, flight, held, outcome, blame, counters>>

Size(d) == d.to - d.from
PartsOf(m) == {n \in PartNo : m[n] # None}
Sizes(m) == {0} \cup {Size(m[n]) : n \in PartsOf(m)}
inferPartSize(m, size) == size \in Sizes(m) /\ \A s \in Sizes(m) : s <= size

\* resumeServerUpload's checks of a file against the parts on the server.
Matches(size, m, ps) ==
    ps > 0 =>
        LET maxN == Max(PartsOf(m))
        IN  /\ (maxN - 1) * ps < size
            /\ maxN = numParts(size, ps) => Size(m[maxN]) = size - (maxN - 1) * ps

\* resumeServerUpload up to the checkpoint it seeds, which adopts the upload;
\* no lock is held.
resumeServerUpload(p) ==
    /\ pc[p] = "idle" /\ "ls-uploads" \in Entries /\ runs < MaxRuns
    /\ \E u \in UploadIds : \E inferred \in Sizes(stored[u]) :
        LET auto == computePartSize(FileSize[file], inferred)
        IN  /\ status[u] = "open"
            /\ inferPartSize(stored[u], inferred)
            /\ Matches(FileSize[file], stored[u], inferred)
            /\ job' = [job EXCEPT ![p] = [ver |-> file, ps |-> auto, noResume |-> FALSE]]
            /\ mem' = [mem EXCEPT ![p] =
                        [uid |-> u, ver |-> file, parts |-> stored[u],
                         ps |-> IF inferred = 0 THEN auto ELSE inferred]]
    /\ runs' = runs + 1
    /\ excused' = [excused EXCEPT ![p] = FALSE]
    /\ Goto(p, "adopt")
    /\ UNCHANGED <<file, disk, server, net, flight, held, outcome, mishaps, ages, overtaken>>

\* saveCheckpoint: temp file and rename, so on disk it is all or nothing.
\* A failed save leaves the previous checkpoint in place.
saveCheckpoint(c) == ckpt' = c /\ stale' = stale \ {"ckpt"} /\ UNCHANGED lockFile
removeCheckpoint == saveCheckpoint(None)

SaveAdopted(p) ==
    /\ pc[p] = "adopt"
    /\ UNCHANGED <<file, server, net, job, mem, flight, held, runs, ages>>
    /\ \/ /\ saveCheckpoint(mem[p]) /\ Goto(p, "lock") /\ Calm /\ UNCHANGED outcome
          /\ overtaken' = IF \E q \in Procs : held[q] # 0
                          THEN overtaken \cup {mem[p].uid} ELSE overtaken
       \/ Mishap(p) /\ End(p, "failed") /\ UNCHANGED <<disk, overtaken>>

-----------------------------------------------------------------------------
(* acquireTransferLock and its release.                                     *)

\* The inode an open with O_CREATE yields.  Only gcStaleFiles unlinks the file,
\* once per passing of checkpointMaxAge, so that ages numbers the inodes.
OpenedLock == IF lockFile = 0 THEN ages + 1 ELSE lockFile

\* Another process has the file's flock.  The mistake is a lock that is a no-op.
NeverLocked == FALSE
Locked == \E q \in Procs : held[q] = OpenedLock

acquireTransferLock(p) ==
    /\ pc[p] = "lock"
    /\ lockFile' = OpenedLock
    /\ \/ Locked /\ End(p, "refused") /\ UNCHANGED held
       \/ /\ ~ Locked
          /\ held' = [held EXCEPT ![p] = OpenedLock]
          /\ Goto(p, "resolve")
          /\ UNCHANGED outcome
    /\ UNCHANGED <<file, stale, ckpt, server, net, job, mem, flight, blame, counters>>

\* The deferred release and the return to the caller.
release(p) ==
    /\ pc[p] = "exit"
    /\ held' = [held EXCEPT ![p] = 0]
    /\ job' = [job EXCEPT ![p] = None]
    /\ mem' = [mem EXCEPT ![p] = None]
    /\ outcome' = [outcome EXCEPT ![p] = "none"]
    /\ Goto(p, "idle")
    /\ UNCHANGED <<file, disk, server, net, flight, blame, counters>>

\* The lock file cannot be opened or locked, or the checkpoint cannot be read.
LocalFileFails(p) ==
    /\ pc[p] \in {"lock", "resolve"}
    /\ Mishap(p)
    /\ End(p, "failed")
    /\ UNCHANGED <<file, disk, server, net, job, mem, flight, held, counters>>

-----------------------------------------------------------------------------
(* resolveUpload: resume the upload of the checkpoint, or start a fresh one. *)

\* A checkpoint may be resumed for the same file cut at the same part size.
\* The mistakes are to overlook the part size, or the size and mtime.
ResumableAnyCut(c, j) == c # None /\ ~ j.noResume /\ c.ver = j.ver
ResumableAnyFile(c, j) == c # None /\ ~ j.noResume /\ c.ps = j.ps
Resumable(c, j) == c # None /\ ~ j.noResume /\ c.ver = j.ver /\ c.ps = j.ps

resolveUpload(p) ==
    /\ pc[p] = "resolve"
    /\ mem' = [mem EXCEPT ![p] = ckpt]
    /\ \/ Resumable(ckpt, job[p]) /\ Goto(p, "list")
       \/ ~ Resumable(ckpt, job[p]) /\ ckpt # None /\ Goto(p, "abort")
       \/ ckpt = None /\ Goto(p, "create")
    /\ UNCHANGED <<file, disk, server, net, job, flight, held, outcome, blame, counters>>

\* AbortMultipartUpload as the service runs it.
Abort(u) ==
    /\ status' = [status EXCEPT ![u] = IF @ = "open" THEN "aborted" ELSE @]
    /\ UNCHANGED <<stored, object>>

\* A fresh start that leaves the old upload to itself.
ForgetStale(p) ==
    /\ pc[p] = "abort" /\ Goto(p, "create") /\ Calm
    /\ UNCHANGED <<file, disk, server, net, job, mem, flight, held, outcome, counters>>

\* fresh aborts the upload of the checkpoint it gives up; an error is ignored.
AbortStale(p) ==
    /\ pc[p] = "abort"
    /\ \/ Abort(mem[p].uid) /\ Calm
       \/ Mishap(p) /\ UNCHANGED server
    /\ Goto(p, "create")
    /\ UNCHANGED <<file, disk, net, job, mem, flight, held, outcome, counters>>

\* listAllParts and reconcileCheckpoint: the server's parts replace the local ones.
listAllParts(p) ==
    /\ pc[p] = "list" /\ status[mem[p].uid] = "open"
    /\ mem' = [mem EXCEPT ![p] = WithParts(@, stored[mem[p].uid])]
    /\ Goto(p, "save")
    /\ UNCHANGED <<file, disk, server, net, job, flight, held, outcome, blame, counters>>

ListFails(p) ==
    /\ pc[p] = "list"
    /\ Mishap(p) /\ End(p, "failed")
    /\ UNCHANGED <<file, disk, server, net, job, mem, flight, held, counters>>

\* A resolveUpload that fails on an upload the server no longer has, and one that
\* tries again without having dropped its checkpoint.
GoneIsError(p) ==
    /\ pc[p] = "list" /\ status[mem[p].uid] # "open"
    /\ End(p, "failed") /\ Calm
    /\ UNCHANGED <<file, disk, server, net, job, mem, flight, held, counters>>
GoneIsRetried(p) ==
    /\ pc[p] = "list" /\ status[mem[p].uid] # "open"
    /\ Goto(p, "resolve") /\ Calm
    /\ UNCHANGED <<file, disk, server, net, job, mem, flight, held, outcome, counters>>

\* The server no longer has the upload: its checkpoint is removed, an error of
\* the removal ignored, and a fresh upload started.
DropGone(p) ==
    /\ pc[p] = "list" /\ status[mem[p].uid] # "open"
    /\ \/ removeCheckpoint /\ Calm
       \/ Mishap(p) /\ UNCHANGED disk
    /\ Goto(p, "create")
    /\ UNCHANGED <<file, server, net, job, mem, flight, held, outcome, counters>>

SaveReconciled(p) ==
    /\ pc[p] = "save"
    /\ \/ saveCheckpoint(mem[p]) /\ Goto(p, "pool") /\ Calm /\ UNCHANGED outcome
       \/ Mishap(p) /\ End(p, "failed") /\ UNCHANGED disk
    /\ UNCHANGED <<file, server, net, job, mem, flight, held, counters>>

\* CreateMultipartUpload as the service runs it; uploads are numbered in order.
Opens(u) ==
    /\ \A w \in UploadIds : status[w] = "none" <=> u <= w
    /\ status' = [status EXCEPT ![u] = "open"]
    /\ UNCHANGED <<stored, object>>

\* startFresh up to the answer of CreateMultipartUpload, which may be lost on
\* its way back.
CreateUpload(p) ==
    /\ pc[p] = "create"
    /\ \/ /\ \E u \in UploadIds :
                /\ Opens(u)
                /\ mem' = [mem EXCEPT ![p] = [uid |-> u, ver |-> job[p].ver,
                                              ps |-> job[p].ps, parts |-> NoParts]]
          /\ Goto(p, "first")
          /\ Calm /\ UNCHANGED outcome
       \/ /\ UNCHANGED server \/ \E u \in UploadIds : Opens(u)
          /\ Mishap(p) /\ End(p, "failed") /\ UNCHANGED mem
    /\ UNCHANGED <<file, disk, net, job, flight, held, counters>>

SaveFirst(p) ==
    /\ pc[p] = "first"
    /\ \/ saveCheckpoint(mem[p]) /\ Goto(p, "pool") /\ Calm
       \/ Mishap(p) /\ Goto(p, "strand") /\ UNCHANGED disk
    /\ UNCHANGED <<file, server, net, job, mem, flight, held, outcome, counters>>

\* startFresh could not save the first checkpoint: it aborts the upload, an
\* error of which is ignored, and returns the save's error.
AbortUnsaved(p) ==
    /\ pc[p] = "strand"
    /\ \/ Abort(mem[p].uid) /\ Calm
       \/ Mishap(p) /\ UNCHANGED server
    /\ End(p, "failed")
    /\ UNCHANGED <<file, disk, net, job, mem, flight, held, counters>>

-----------------------------------------------------------------------------
(* uploadMissingParts, at the grain of its workers' requests.  UploadPool   *)
(* has the goroutines and channels of the same code.                        *)

SetFlight(p, n, s) == flight' = [flight EXCEPT ![p][n] = s]

\* A free worker takes a missing part and sends its request.
uploadOnePart(p, n) ==
    /\ pc[p] = "pool" /\ outcome[p] = "none"
    /\ n \in Missing(p) /\ flight[p][n] = "quiet"
    /\ Cardinality(Busy(p)) < Concurrency
    /\ SetFlight(p, n, "sent")
    /\ net' = net \cup {Put(p, n)}
    /\ UNCHANGED <<file, disk, server, pc, job, mem, held, outcome, blame, counters>>

\* The server takes in a part, of whatever process, if the upload is open.
ServerPut(r) ==
    /\ r \in net
    /\ net' = net \ {r}
    /\ stored' = IF status[r.uid] = "open"
                 THEN [stored EXCEPT ![r.uid][r.n] = r.data]
                 ELSE stored
    /\ UNCHANGED <<file, disk, status, object, pc, job, mem, flight, held, outcome, blame, counters>>

\* The answer to a request: an ETag, or NoSuchUpload.  The mistake is to take any
\* answer for success.
AnyAnswer(p, n) == "acked"
Verdict(p, n) == IF stored[mem[p].uid][n] = Put(p, n).data THEN "acked" ELSE "failed"

Answer(p, n) ==
    /\ pc[p] = "pool" /\ flight[p][n] = "sent" /\ Put(p, n) \notin net
    /\ SetFlight(p, n, Verdict(p, n))
    /\ UNCHANGED <<file, disk, server, net, pc, job, mem, held, outcome, blame, counters>>

\* The call fails, its request lost, delayed, or answered in vain.
CallFails(p, n) ==
    /\ pc[p] = "pool" /\ flight[p][n] = "sent"
    /\ Mishap(p)
    /\ SetFlight(p, n, "failed")
    /\ net' \in {net, net \ {Put(p, n)}}
    /\ UNCHANGED <<file, disk, server, pc, job, mem, held, outcome, counters>>

\* The collector records a part: in memory, then on disk (appendPart).  A
\* failed save cancels the pool.
appendPart(p, n) ==
    /\ pc[p] = "pool" /\ flight[p][n] = "acked"
    /\ SetFlight(p, n, "quiet")
    /\ mem' = [mem EXCEPT ![p] = WithParts(@, [@.parts EXCEPT ![n] = Put(p, n).data])]
    /\ \/ saveCheckpoint(mem'[p]) /\ Calm /\ UNCHANGED outcome
       \/ Mishap(p) /\ outcome' = [outcome EXCEPT ![p] = "failed"] /\ UNCHANGED disk
    /\ UNCHANGED <<file, server, net, pc, job, held, counters>>

\* The collector takes an error; the first one cancels the pool.
CollectError(p, n) ==
    /\ pc[p] = "pool" /\ flight[p][n] = "failed"
    /\ SetFlight(p, n, "quiet")
    /\ outcome' = [outcome EXCEPT ![p] = "failed"]
    /\ UNCHANGED <<file, disk, server, net, pc, job, mem, held, blame, counters>>

\* Once the pool is cancelled a worker gives up, whatever it was doing.
GiveUp(p, n) ==
    /\ pc[p] = "pool" /\ outcome[p] = "failed" /\ flight[p][n] # "quiet"
    /\ SetFlight(p, n, "quiet")
    /\ net' = net \/ (flight[p][n] = "sent" /\ net' = net \ {Put(p, n)})
    /\ UNCHANGED <<file, disk, server, pc, job, mem, held, outcome, blame, counters>>

\* Every worker has returned and the collector's loop ends.
uploadMissingParts(p) ==
    /\ pc[p] = "pool" /\ Busy(p) = {}
    /\ \/ outcome[p] = "failed" /\ Goto(p, "exit")
       \/ outcome[p] = "none" /\ Missing(p) = {} /\ Goto(p, "complete")
    /\ UNCHANGED <<file, disk, server, net, job, mem, flight, held, outcome, blame, counters>>

-----------------------------------------------------------------------------
(* completeUpload and deleteCheckpoint.                                     *)

\* CompleteMultipartUpload accepts the parts it holds, by their ETags, if all
\* but the last are of the minimal size.
Accepts(u, m) ==
    /\ status[u] = "open"
    /\ PartsOf(m) # {}
    /\ \A n \in PartsOf(m) :
        /\ stored[u][n] = m[n]
        /\ (\E last \in PartsOf(m) : n < last) => Size(m[n]) >= MinPartSize

Publish(u, m) ==
    /\ Accepts(u, m)
    /\ object' = m
    /\ status' = [status EXCEPT ![u] = "done"]
    /\ UNCHANGED stored

completeUpload(p) ==
    /\ pc[p] = "complete"
    /\ \/ Publish(mem[p].uid, mem[p].parts) /\ Goto(p, "delete") /\ Calm /\ UNCHANGED outcome
       \/ ~ Accepts(mem[p].uid, mem[p].parts) /\ End(p, "failed") /\ Calm /\ UNCHANGED server
       \/ /\ Mishap(p) /\ End(p, "failed")
          /\ Publish(mem[p].uid, mem[p].parts) \/ UNCHANGED server
    /\ UNCHANGED <<file, disk, net, job, mem, flight, held, counters>>

deleteCheckpoint(p) ==
    /\ pc[p] = "delete"
    /\ \/ removeCheckpoint /\ End(p, "done") /\ Calm
       \/ Mishap(p) /\ End(p, "failed") /\ UNCHANGED disk
    /\ UNCHANGED <<file, server, net, job, mem, flight, held, counters>>

-----------------------------------------------------------------------------
(* The environment.                                                         *)

\* The process dies: the system frees its lock, the files stay.
Crash(p) ==
    /\ pc[p] # "idle" /\ mishaps < MaxMishaps
    /\ mishaps' = mishaps + 1
    /\ Goto(p, "idle")
    /\ job' = [job EXCEPT ![p] = None]
    /\ mem' = [mem EXCEPT ![p] = None]
    /\ flight' = [flight EXCEPT ![p] = AllQuiet]
    /\ held' = [held EXCEPT ![p] = 0]
    /\ outcome' = [outcome EXCEPT ![p] = "none"]
    /\ UNCHANGED <<file, disk, server, net, excused, counters>>

\* The user saves another version of the file between uploads of it.
EditFile ==
    /\ \A p \in Procs : pc[p] = "idle"
    /\ file' \in Versions \ {file}
    /\ UNCHANGED <<disk, server, net, pc, job, mem, flight, held, outcome, blame, counters>>

\* abort-uploads, or a lifecycle rule of the bucket, ends an upload.
OutsideAbort(u) ==
    /\ status[u] = "open" /\ mishaps < MaxMishaps
    /\ Abort(u)
    /\ mishaps' = mishaps + 1
    /\ excused' = [p \in Procs |-> pc[p] # "idle" \/ excused[p]]
    /\ UNCHANGED <<file, disk, net, pc, job, mem, flight, held, outcome, counters>>

\* checkpointMaxAge goes by without a write to the files.
Age ==
    /\ ages < MaxAges
    /\ ages' = ages + 1
    /\ stale' = (IF lockFile = 0 THEN {} ELSE {"lock"}) \cup (IF ckpt = None THEN {} ELSE {"ckpt"})
    /\ UNCHANGED <<file, lockFile, ckpt, server, net, pc, job, mem, flight, held, outcome, blame, runs,
                   overtaken>>

\* The bound on runs is reached.
Finished ==
    /\ runs = MaxRuns
    /\ \A p \in Procs : pc[p] = "idle"
    /\ UNCHANGED vars

-----------------------------------------------------------------------------
PoolStep(p) ==
    \/ \E n \in PartNo :
        \/ uploadOnePart(p, n) \/ Answer(p, n) \/ CallFails(p, n)
        \/ appendPart(p, n) \/ CollectError(p, n) \/ GiveUp(p, n)
    \/ uploadMissingParts(p)

\* What the code of a started process does next.
RunStep(p) ==
    \/ gcCheckpoints(p) \/ SaveAdopted(p)
    \/ acquireTransferLock(p) \/ LocalFileFails(p)
    \/ resolveUpload(p) \/ AbortStale(p)
    \/ listAllParts(p) \/ ListFails(p) \/ DropGone(p) \/ SaveReconciled(p)
    \/ CreateUpload(p) \/ SaveFirst(p) \/ AbortUnsaved(p)
    \/ PoolStep(p)
    \/ completeUpload(p) \/ deleteCheckpoint(p) \/ release(p)

Deliver == \E r \in net : ServerPut(r)

Environment ==
    \/ \E p \in Procs : runUpload(p) \/ resumeServerUpload(p) \/ Crash(p)
    \/ EditFile
    \/ \E u \in UploadIds : OutsideAbort(u)
    \/ Age
    \/ Finished

Next == Environment \/ Deliver \/ \E p \in Procs : RunStep(p)

\* A started process goes on and the server takes requests in; nothing starts,
\* crashes, edits or ages by obligation.
Fairness == WF_vars(Deliver) /\ \A p \in Procs : WF_vars(RunStep(p))

Spec == Init /\ [][Next]_vars /\ Fairness

-----------------------------------------------------------------------------
(* Properties.                                                              *)

\* Every variable holds what the code's types and the protocol let it hold.
TypeOK ==
    /\ file \in Versions
    /\ lockFile \in Nat /\ stale \subseteq {"lock", "ckpt"}
    /\ ckpt \in Checkpoints \cup {None}
    /\ status \in [UploadIds -> {"none", "open", "done", "aborted"}]
    /\ stored \in [UploadIds -> PartMaps]
    /\ object \in PartMaps
    /\ net \subseteq Puts
    /\ pc \in [Procs -> Steps]
    /\ job \in [Procs -> Jobs \cup {None}]
    /\ mem \in [Procs -> Checkpoints \cup {None}]
    /\ flight \in [Procs -> [PartNo -> {"quiet", "sent", "acked", "failed"}]]
    /\ held \in [Procs -> Nat]
    /\ outcome \in [Procs -> {"none", "done", "refused", "failed"}]
    /\ excused \in [Procs -> BOOLEAN]
    /\ overtaken \subseteq UploadIds
    /\ runs \in Nat /\ mishaps \in Nat /\ ages \in Nat

\* The parts of m, in order, are the whole of version v and nothing else.
Tiles(m, v) ==
    \E k \in PartNo :
        /\ PartsOf(m) = 1 .. k
        /\ \A n \in 1 .. k :
            /\ m[n].ver = v
            /\ m[n].from = (IF n = 1 THEN 0 ELSE m[n - 1].to)
        /\ m[k].to = FileSize[v]

\* Whatever was interrupted, resumed, edited or re-cut in between, a published
\* object is one version of the file from its first byte to its last
\* (resolveUpload's test of size, mtime and part size, partRange).
ObjectIntact == object # NoParts => \E v \in Versions : Tiles(object, v)

\* A run that got past completeUpload has published the file it was given, and
\* no late request of another run has replaced it (resumableUpload's return).
SuccessMeansPublished ==
    \A p \in Procs :
        pc[p] = "delete" \/ outcome[p] = "done" => Tiles(object, job[p].ver)

\* Two processes of the host are never between acquireTransferLock and its
\* release at once: "two processes can't push the same object concurrently"
\* (lock.go).  This is what the lock promises; gcStaleFiles, which unlinks a lock
\* file by its age, breaks it.
TransferExclusive ==
    \A p, q \in Procs : held[p] # 0 /\ held[q] # 0 => p = q

\* A checkpoint, on disk or in memory, names no part that the server lacks or
\* holds in another form: a part is recorded after the answer that confirms it
\* (appendPart, reconcileCheckpoint).
CheckpointBehindServer ==
    \A c \in {ckpt} \cup {mem[p] : p \in Procs} :
        c # None => \A n \in PartsOf(c.parts) : stored[c.uid][n] = c.parts[n]

\* A run fails only if something outside the code hit that very run: whatever a
\* crash, an edit or an abort left behind, the next undisturbed run gets through
\* (resolveUpload's decision tree).
UndisturbedRunSucceeds ==
    \A p \in Procs : outcome[p] = "failed" => excused[p]

\* When a fresh upload takes the checkpoint over, the one it replaces is no longer
\* open (fresh: "never strand our own prior upload's parts").
PriorAborted ==
    [][ckpt # None /\ ckpt' # None /\ ckpt'.uid # ckpt.uid
        => status[ckpt.uid] # "open"]_vars

\* The same of the runs that nothing outside the code hit: whatever a crash left
\* behind, such a run does not overwrite the record of an upload still open.
UndisturbedAborts ==
    [][\A p \in Procs :
        pc[p] = "first" /\ pc'[p] = "pool" /\ ~ excused[p] /\ ckpt # None
            => status[ckpt.uid] # "open"]_vars

\* A part the server holds for an open upload is never replaced by other bytes,
\* not even by a request that a dead process left in the network (uploadOnePart's
\* ranges depend on the part number, the size and the part size only).
PartsImmutable ==
    [][\A u \in UploadIds : \A n \in PartNo :
        stored[u][n] # None => stored'[u][n] = stored[u][n]]_vars

\* A part recorded for an upload that is still resumable is not sent again: what
\* the lock is there for, as a race "on the checkpoint" would "double-upload parts"
\* (lock.go, uploadMissingParts' done map).  It holds while no lock file ages, and
\* not of an upload whose record an adoption from ls-uploads, which saves before it
\* asks for the lock, has replaced under the process at work.
SentTwice(p, n) ==
    /\ flight[p][n] = "quiet" /\ flight'[p][n] = "sent"
    /\ ckpt # None /\ ckpt.uid = mem[p].uid /\ ckpt.parts[n] # None
NoPartSentTwice ==
    [][\A p \in Procs : \A n \in PartNo : mem[p] # None /\ mem[p].uid \notin overtaken => ~ SentTwice(p, n)]_vars

\* The same of every upload.
NeverSentTwice == [][\A p \in Procs : \A n \in PartNo : ~ SentTwice(p, n)]_vars

\* Every run ends: published, refused, failed or dead (resumableUpload returns).
RunEnds == \A p \in Procs : pc[p] # "idle" ~> pc[p] = "idle"

=============================================================================
