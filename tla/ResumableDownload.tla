------------------------- MODULE ResumableDownload -------------------------
(***************************************************************************)
(* Resumable downloads to ONE local path: the verda processes of one host  *)
(* that download an object to it, the <dest>.part file they fill, the      *)
(* checkpoints and locks of each (destination, object) identity, and the   *)
(* S3 service they read (objectstorage/mpdownload.go, cp.go, browse.go).   *)
(* A process may crash between any two of its steps, a call may fail with  *)
(* part of its bytes written, and an object may be replaced at any time.   *)
(* checkpointMaxAge may go by at any time: a lock file then counts as old,  *)
(* held or not, and whoever collects next unlinks it.                       *)
(*                                                                         *)
(* A version stands for the ETag, the size and the bytes of an object; a   *)
(* file maps each offset to the version whose byte it holds there.         *)
(***************************************************************************)
EXTENDS Integers, FiniteSets

CONSTANTS
    Procs,            \* process slots of the host
    Objects,          \* the (bucket, key) pairs downloaded to the path
    Versions,         \* what the objects have held or will hold
    Owner,            \* the object that each version is a version of
    Size,             \* the size of each version
    PartSizes,        \* the --part-size values used with cp
    DefaultPartSize,  \* defaultDownloadPartSize
    Concurrency,      \* width of the worker pool
    MaxRuns,          \* bound: runs of the program
    MaxMishaps,       \* bound: crashes and failed calls together
    MaxAges,          \* bound: times that checkpointMaxAge goes by
    None              \* no file, no checkpoint, no job, a byte never written

Offsets == UNION {0 .. Size[v] - 1 : v \in Versions}
ChunkNo == {u + 1 : u \in Offsets}
Files == [Offsets -> Versions \cup {None}]
Checkpoints == [ver : Versions, ps : Nat \ {0}, chunks : SUBSET ChunkNo]
Jobs == [obj : Objects, ps : Nat \ {0}, noResume : BOOLEAN, ver : Versions \cup {None}]
FlightStates == {"quiet", "sent", "acked", "failed"}

ASSUME DownloadInputs ==
    /\ Size \in [Versions -> Nat] /\ Owner \in [Versions -> Objects]
    /\ PartSizes \subseteq Nat \ {0} /\ DefaultPartSize \in Nat \ {0}
    /\ Concurrency \in Nat \ {0}
    /\ MaxRuns \in Nat /\ MaxMishaps \in Nat /\ MaxAges \in Nat

ASSUME NoneIsNothing ==
    /\ None \notin Files \cup Checkpoints \cup Jobs \cup Versions \cup Objects
    /\ Versions \cap FlightStates = {}

VARIABLES
    remote,    \* per object: the version the service holds
    part,      \* the bytes of <dest>.part, or None
    dest,      \* the bytes of <dest>, or None
    ckpt,      \* per object: <identity>.json
    stale,     \* objects whose checkpoint's mtime is past checkpointMaxAge
    lockFile,  \* per object: the inode of <identity>.lock, 0 when there is none
    oldLocks,  \* objects whose lock file's mtime is past checkpointMaxAge
    pc,        \* per process: where it stands
    job,       \* per process: the arguments, and the version HeadObject told
    mem,       \* per process: its in-memory checkpoint
    fd,        \* per process: the name its open file has now: "part", "dest",
               \* "gone" once unlinked, or "none" open
    flight,    \* per process and chunk: its worker's request; a version while
               \* that version's bytes come in
    held,      \* per process: the inode it holds an flock on, or 0
    outcome,   \* per process: "none" while the run goes well, or how it ends
    excused,   \* per process: whether something outside the code hit the run
    partOf,    \* history: the object of the last run that took .part
    mixed,     \* history: whether another download had a hand in that .part
    destMixed, \* history: the same of the file renamed to dest
    runs, mishaps, ages   \* the bounded counters

disk == <<part, dest, ckpt, stale>>
files == <<part, dest, fd>>
locks == <<lockFile, oldLocks, held>>
history == <<partOf, mixed, destMixed>>
blame == <<mishaps, excused>>
counters == <<runs, ages>>
vars == <<remote, disk, pc, job, mem, fd, flight, locks, history, outcome, blame, counters>>

Steps == {"idle", "gc", "locks", "head", "lock", "load", "save", "open", "pool", "rename",
          "delete", "exit"}

Blank == [u \in Offsets |-> None]
AllQuiet == [n \in ChunkNo |-> "quiet"]
Whole(v) == [u \in Offsets |-> IF u < Size[v] THEN v ELSE None]
Idle == \A p \in Procs : pc[p] = "idle"

\* numChunks.
numChunks(t, ps) == t \div ps + (IF t % ps = 0 THEN 0 ELSE 1)

\* chunkRange, as the offsets in it.
chunkRange(n, t, ps) == {u \in 0 .. t - 1 : (n - 1) * ps <= u /\ u < n * ps}

Chunk(p, n) == chunkRange(n, Size[job[p].ver], job[p].ps)
Busy(p) == {n \in ChunkNo : flight[p][n] # "quiet"}

\* The chunks downloadMissingChunks has to fetch.  The mistake is a loop that
\* does not look at done.
MissingDoneOrNot(p) == 1 .. numChunks(Size[job[p].ver], job[p].ps)
Missing(p) == (1 .. numChunks(Size[job[p].ver], job[p].ps)) \ mem[p].chunks

\* Process p goes on to step s, or ends its run with a result.
Goto(p, s) == pc' = [pc EXCEPT ![p] = s]
End(p, result) == Goto(p, "exit") /\ outcome' = [outcome EXCEPT ![p] = result]

\* Something outside the code goes wrong in process p's run, or does not.
Mishap(p) ==
    /\ mishaps < MaxMishaps
    /\ mishaps' = mishaps + 1
    /\ excused' = [excused EXCEPT ![p] = TRUE]
Calm == UNCHANGED blame

Init ==
    /\ remote \in {r \in [Objects -> Versions] : \A o \in Objects : Owner[r[o]] = o}
    /\ part = None /\ dest = None
    /\ ckpt = [o \in Objects |-> None] /\ stale = {}
    /\ pc = [p \in Procs |-> "idle"]
    /\ job = [p \in Procs |-> None]
    /\ mem = [p \in Procs |-> None]
    /\ fd = [p \in Procs |-> "none"]
    /\ flight = [p \in Procs |-> AllQuiet]
    /\ lockFile = [o \in Objects |-> 0] /\ oldLocks = {}
    /\ held = [p \in Procs |-> 0]
    /\ partOf = None /\ mixed = FALSE /\ destMixed = FALSE
    /\ outcome = [p \in Procs |-> "none"]
    /\ excused = [p \in Procs |-> FALSE]
    /\ runs = 0 /\ mishaps = 0 /\ ages = 0

-----------------------------------------------------------------------------
(* Entry: cp, and the browser that ls opens.                                *)

Begin(p, o, ps, noResume, s) ==
    /\ pc[p] = "idle" /\ runs < MaxRuns
    /\ runs' = runs + 1
    /\ job' = [job EXCEPT ![p] =
                [obj |-> o, ps |-> ps, noResume |-> noResume, ver |-> None]]
    /\ excused' = [excused EXCEPT ![p] = FALSE]
    /\ Goto(p, s)
    /\ UNCHANGED <<remote, disk, mem, fd, flight, locks, history, outcome, mishaps, ages>>

\* cp writes to the path it is given, whatever is there.
runResumableDownload(p) ==
    \E o \in Objects, ps \in PartSizes, noResume \in BOOLEAN :
        Begin(p, o, ps, noResume, "gc")

\* gcDownloadCheckpoints: unlink every checkpoint past checkpointMaxAge.
CollectStale ==
    /\ ckpt' = [o \in Objects |-> IF o \in stale THEN None ELSE ckpt[o]]
    /\ stale' = {}

gcDownloadCheckpoints(p) ==
    /\ pc[p] = "gc"
    /\ CollectStale
    /\ Goto(p, "locks")
    /\ UNCHANGED <<remote, files, job, mem, flight, locks, history, outcome, blame, counters>>

\* gcCheckpoints: the lock files live with the upload checkpoints and go the same
\* way, those that a process holds included.
CollectLocks ==
    /\ lockFile' = [o \in Objects |-> IF o \in oldLocks THEN 0 ELSE lockFile[o]]
    /\ oldLocks' = {}
    /\ UNCHANGED held

gcCheckpoints(p) ==
    /\ pc[p] = "locks"
    /\ CollectLocks
    /\ Goto(p, "head")
    /\ UNCHANGED <<remote, disk, job, mem, fd, flight, history, outcome, blame, counters>>

\* The browser collects both when it opens, long before anything is downloaded.
runLsBrowser(p) ==
    /\ pc[p] = "idle" /\ stale \cup oldLocks # {}
    /\ CollectStale /\ CollectLocks
    /\ UNCHANGED <<remote, pc, files, job, mem, flight, history, outcome, blame, counters>>

\* resolveLocalDest lets an object have the path if its own partial file is
\* there, or no file at all; otherwise the browser takes another path.
hasResumableDownload(o) == ckpt[o] # None
resolveLocalDest(o) == IF part # None THEN hasResumableDownload(o) ELSE dest = None

browseDownload(p) ==
    \E o \in Objects :
        resolveLocalDest(o) /\ Begin(p, o, DefaultPartSize, FALSE, "head")

-----------------------------------------------------------------------------
(* resumableDownload up to the open .part file.                             *)

\* HeadObject, before the lock is taken.
HeadObject(p) ==
    /\ pc[p] = "head"
    /\ \/ /\ job' = [job EXCEPT ![p].ver = remote[job[p].obj]]
          /\ Goto(p, "lock") /\ Calm /\ UNCHANGED outcome
       \/ Mishap(p) /\ End(p, "failed") /\ UNCHANGED job
    /\ UNCHANGED <<remote, disk, mem, fd, flight, locks, history, counters>>

\* The file that acquireTransferLock opens: the one there, or a new one.  A lock
\* file is unlinked at most once per passing of checkpointMaxAge, so that ages + 1
\* numbers a new one.
OpenedLock(o) == IF lockFile[o] = 0 THEN ages + 1 ELSE lockFile[o]

\* Another process has the flock on that file.  The mistake is a lock that is a
\* no-op.
NeverLocked(p) == FALSE
Locked(p) ==
    \E q \in Procs : held[q] = OpenedLock(job[p].obj) /\ job[q].obj = job[p].obj

acquireTransferLock(p) ==
    /\ pc[p] = "lock"
    /\ \/ /\ lockFile' = [lockFile EXCEPT ![job[p].obj] = OpenedLock(job[p].obj)]
          /\ Calm
          /\ \/ Locked(p) /\ End(p, "refused") /\ UNCHANGED held
             \/ /\ ~ Locked(p)
                /\ held' = [held EXCEPT ![p] = OpenedLock(job[p].obj)]
                /\ Goto(p, "load") /\ UNCHANGED outcome
       \/ Mishap(p) /\ End(p, "failed") /\ UNCHANGED <<lockFile, held>>
    /\ UNCHANGED <<remote, disk, job, mem, fd, flight, oldLocks, history, counters>>

\* A checkpoint may be continued for the same version cut at the same part size,
\* with its .part file there.  The mistake is to overlook that file.
ReusableNoFile(c, j) == c # None /\ ~ j.noResume /\ c.ver = j.ver /\ c.ps = j.ps
Reusable(c, j) == c # None /\ ~ j.noResume /\ c.ver = j.ver /\ c.ps = j.ps /\ part # None

\* os.Remove takes the name away from whoever has the file open.
RemovePart ==
    /\ part' = None
    /\ fd' = [q \in Procs |-> IF fd[q] = "part" THEN "gone" ELSE fd[q]]
    /\ UNCHANGED dest

\* The runs past this point that process p's lock does not keep out: of another
\* object, or on a lock file since unlinked.
Others(p) ==
    {q \in Procs : /\ held[q] # 0 /\ pc[q] # "load"
                   /\ ~ (held[q] = held[p] /\ job[q].obj = job[p].obj)}

\* History: whose .part it is from now on, and whether another has a hand in it.
TakePart(p, reused) ==
    /\ partOf' = job[p].obj
    /\ mixed' = (Others(p) # {} \/ (reused /\ (mixed \/ partOf # job[p].obj)))
    /\ UNCHANGED destMixed

loadOrResetDownloadCheckpoint(p) ==
    /\ pc[p] = "load"
    /\ TakePart(p, Reusable(ckpt[job[p].obj], job[p]))
    /\ LET c == ckpt[job[p].obj]
       IN  \/ /\ Reusable(c, job[p])
              /\ mem' = [mem EXCEPT ![p] = c]
              /\ Goto(p, "open")
              /\ UNCHANGED files
           \/ /\ ~ Reusable(c, job[p])
              /\ mem' = [mem EXCEPT ![p] = [ver |-> job[p].ver, ps |-> job[p].ps,
                                            chunks |-> {}]]
              /\ RemovePart
              /\ Goto(p, "save")
    /\ UNCHANGED <<remote, ckpt, stale, job, flight, locks, outcome, blame, counters>>

\* Temp file and rename: on disk the checkpoint is all or nothing, and a failed
\* save leaves the previous one in place.
saveDownloadCheckpoint(o, c) ==
    /\ ckpt' = [ckpt EXCEPT ![o] = c]
    /\ stale' = stale \ {o}

SaveFresh(p) ==
    /\ pc[p] = "save"
    /\ \/ saveDownloadCheckpoint(job[p].obj, mem[p]) /\ Goto(p, "open") /\ Calm /\ UNCHANGED outcome
       \/ Mishap(p) /\ End(p, "failed") /\ UNCHANGED <<ckpt, stale>>
    /\ UNCHANGED <<remote, files, job, mem, flight, locks, history, counters>>

\* An open without O_CREATE.
OpenExisting(p) ==
    /\ pc[p] = "open"
    /\ IF part = None THEN End(p, "failed") /\ UNCHANGED fd
       ELSE fd' = [fd EXCEPT ![p] = "part"] /\ Goto(p, "pool") /\ UNCHANGED outcome
    /\ UNCHANGED <<remote, disk, job, mem, flight, locks, history, blame, counters>>

\* MkdirAll and OpenFile: created if absent, never truncated.
OpenPart(p) ==
    /\ pc[p] = "open"
    /\ \/ /\ part' = IF part = None THEN Blank ELSE part
          /\ fd' = [fd EXCEPT ![p] = "part"]
          /\ Goto(p, "pool") /\ Calm /\ UNCHANGED outcome
       \/ Mishap(p) /\ End(p, "failed") /\ UNCHANGED <<part, fd>>
    /\ UNCHANGED <<remote, dest, ckpt, stale, job, mem, flight, locks, history, counters>>

-----------------------------------------------------------------------------
(* downloadMissingChunks, at the grain of its workers' requests.            *)
(* TransferPool has the goroutines and channels of the same code.           *)

SetFlight(p, n, s) == flight' = [flight EXCEPT ![p][n] = s]

\* Process p writes bytes of version v at the offsets in us to its open file.
Write(p, v, us) ==
    LET Over(f) == [u \in Offsets |-> IF u \in us THEN v ELSE f[u]]
    IN  /\ part' = IF fd[p] = "part" THEN Over(part) ELSE part
        /\ dest' = IF fd[p] = "dest" THEN Over(dest) ELSE dest

\* A free worker takes a missing chunk and asks for it.
downloadOneChunk(p, n) ==
    /\ pc[p] = "pool" /\ outcome[p] = "none"
    /\ n \in Missing(p) /\ flight[p][n] = "quiet"
    /\ Cardinality(Busy(p)) < Concurrency
    /\ SetFlight(p, n, "sent")
    /\ UNCHANGED <<remote, disk, pc, job, mem, fd, locks, history, outcome, blame, counters>>

\* The service answers with the bytes of the version it holds, or 412 if that is
\* not the one of If-Match.  The mistake is a request without If-Match.
ServedWhatever(p) == remote[job[p].obj]
Served(p) == IF remote[job[p].obj] = job[p].ver THEN job[p].ver ELSE "failed"

GetObject(p, n) ==
    /\ pc[p] = "pool" /\ flight[p][n] = "sent"
    /\ SetFlight(p, n, Served(p))
    /\ UNCHANGED <<remote, disk, pc, job, mem, fd, locks, history, outcome, blame, counters>>

\* The body is copied to its place in the file, piece by piece.
WriteSome(p, n) ==
    /\ pc[p] = "pool" /\ flight[p][n] \in Versions
    /\ \E k \in Chunk(p, n) : Write(p, flight[p][n], {u \in Chunk(p, n) : u < k})
    /\ UNCHANGED <<remote, ckpt, stale, pc, job, mem, fd, flight, locks, history, outcome, blame, counters>>

WriteChunk(p, n) ==
    /\ pc[p] = "pool" /\ flight[p][n] \in Versions
    /\ Write(p, flight[p][n], Chunk(p, n))
    /\ SetFlight(p, n, "acked")
    /\ UNCHANGED <<remote, ckpt, stale, pc, job, mem, fd, locks, history, outcome, blame, counters>>

\* The call fails, before its answer or with the body half read.
CallFails(p, n) ==
    /\ pc[p] = "pool" /\ flight[p][n] \in {"sent"} \cup Versions
    /\ Mishap(p)
    /\ SetFlight(p, n, "failed")
    /\ UNCHANGED <<remote, disk, pc, job, mem, fd, locks, history, outcome, counters>>

\* The collector records a chunk: in memory, then on disk.  A failed save cancels
\* the pool.
RecordChunk(p, n) ==
    /\ pc[p] = "pool" /\ flight[p][n] = "acked"
    /\ SetFlight(p, n, "quiet")
    /\ mem' = [mem EXCEPT ![p].chunks = @ \cup {n}]
    /\ \/ saveDownloadCheckpoint(job[p].obj, mem'[p]) /\ Calm /\ UNCHANGED outcome
       \/ /\ Mishap(p) /\ outcome' = [outcome EXCEPT ![p] = "failed"]
          /\ UNCHANGED <<ckpt, stale>>
    /\ UNCHANGED <<remote, files, pc, job, locks, history, counters>>

\* The collector takes an error; the first one cancels the pool.
CollectError(p, n) ==
    /\ pc[p] = "pool" /\ flight[p][n] = "failed"
    /\ SetFlight(p, n, "quiet")
    /\ outcome' = [outcome EXCEPT ![p] = "failed"]
    /\ UNCHANGED <<remote, disk, pc, job, mem, fd, locks, history, blame, counters>>

\* Once the pool is cancelled a worker gives up, whatever it was doing.
GiveUp(p, n) ==
    /\ pc[p] = "pool" /\ outcome[p] = "failed" /\ flight[p][n] # "quiet"
    /\ SetFlight(p, n, "quiet")
    /\ UNCHANGED <<remote, disk, pc, job, mem, fd, locks, history, outcome, blame, counters>>

\* Every worker has returned, the collector's loop ends and the file is closed.
downloadMissingChunks(p) ==
    /\ pc[p] = "pool" /\ Busy(p) = {}
    /\ \/ outcome[p] = "failed" /\ Goto(p, "exit") /\ Calm /\ UNCHANGED outcome
       \/ outcome[p] = "none" /\ Missing(p) = {}
            /\ \/ Goto(p, "rename") /\ Calm /\ UNCHANGED outcome
               \/ Mishap(p) /\ End(p, "failed")
    /\ fd' = [fd EXCEPT ![p] = "none"]
    /\ UNCHANGED <<remote, disk, job, mem, flight, locks, history, counters>>

-----------------------------------------------------------------------------
(* The rest of resumableDownload.                                           *)

\* os.Rename puts .part in the place of dest, if there is a .part.
RenamePart(p) ==
    /\ pc[p] = "rename"
    /\ \/ /\ part # None
          /\ dest' = part /\ part' = None
          /\ destMixed' = mixed /\ UNCHANGED <<partOf, mixed>>
          /\ fd' = [q \in Procs |-> IF fd[q] = "part" THEN "dest"
                                    ELSE IF fd[q] = "dest" THEN "gone" ELSE fd[q]]
          /\ Goto(p, "delete") /\ Calm /\ UNCHANGED outcome
       \/ part = None /\ End(p, "failed") /\ Calm /\ UNCHANGED <<files, history>>
       \/ Mishap(p) /\ End(p, "failed") /\ UNCHANGED <<files, history>>
    /\ UNCHANGED <<remote, ckpt, stale, job, mem, flight, locks, counters>>

\* An error of the removal is ignored.
deleteDownloadCheckpoint(p) ==
    /\ pc[p] = "delete"
    /\ \/ saveDownloadCheckpoint(job[p].obj, None) /\ Calm
       \/ Mishap(p) /\ UNCHANGED <<ckpt, stale>>
    /\ End(p, "done")
    /\ UNCHANGED <<remote, files, job, mem, flight, locks, history, counters>>

Reset(p) ==
    /\ Goto(p, "idle")
    /\ job' = [job EXCEPT ![p] = None]
    /\ mem' = [mem EXCEPT ![p] = None]
    /\ fd' = [fd EXCEPT ![p] = "none"]
    /\ flight' = [flight EXCEPT ![p] = AllQuiet]
    /\ held' = [held EXCEPT ![p] = 0]
    /\ outcome' = [outcome EXCEPT ![p] = "none"]
    /\ UNCHANGED <<remote, disk, lockFile, oldLocks, history, counters>>

\* The deferred release and the return to the caller.
release(p) == pc[p] = "exit" /\ Reset(p) /\ Calm

-----------------------------------------------------------------------------
(* The environment.                                                         *)

\* The process dies: the system frees its lock, the files stay as they are.
Crash(p) == pc[p] # "idle" /\ Mishap(p) /\ Reset(p)

\* Somebody uploads another version of an object.
ReplaceObject(o) ==
    /\ \E v \in Versions \ {remote[o]} : Owner[v] = o /\ remote' = [remote EXCEPT ![o] = v]
    /\ excused' = [p \in Procs |-> excused[p] \/ (pc[p] # "idle" /\ job[p].obj = o)]
    /\ UNCHANGED <<disk, pc, job, mem, fd, flight, locks, history, outcome, mishaps, counters>>

\* checkpointMaxAge goes by: every checkpoint and every lock file there now counts
\* as old.  Opening a lock file does not make it younger.
Age ==
    /\ ages < MaxAges
    /\ ages' = ages + 1
    /\ stale' = {o \in Objects : ckpt[o] # None}
    /\ oldLocks' = {o \in Objects : lockFile[o] # 0}
    /\ UNCHANGED <<remote, part, dest, ckpt, lockFile, held, pc, job, mem, fd, flight, history,
                   outcome, blame, runs>>

\* The bound on runs is reached.
Finished == runs = MaxRuns /\ Idle /\ UNCHANGED vars

-----------------------------------------------------------------------------
PoolStep(p) ==
    \/ \E n \in ChunkNo :
        \/ downloadOneChunk(p, n) \/ GetObject(p, n) \/ WriteSome(p, n) \/ WriteChunk(p, n)
        \/ CallFails(p, n) \/ RecordChunk(p, n) \/ CollectError(p, n) \/ GiveUp(p, n)
    \/ downloadMissingChunks(p)

\* What the code of a started process does next.
RunStep(p) ==
    \/ gcDownloadCheckpoints(p) \/ gcCheckpoints(p) \/ HeadObject(p) \/ acquireTransferLock(p)
    \/ loadOrResetDownloadCheckpoint(p) \/ SaveFresh(p) \/ OpenPart(p)
    \/ PoolStep(p)
    \/ RenamePart(p) \/ deleteDownloadCheckpoint(p) \/ release(p)

Environment ==
    \/ \E p \in Procs :
        runResumableDownload(p) \/ runLsBrowser(p) \/ browseDownload(p) \/ Crash(p)
    \/ \E o \in Objects : ReplaceObject(o)
    \/ Age
    \/ Finished

Next == Environment \/ \E p \in Procs : RunStep(p)

Spec == Init /\ [][Next]_vars /\ \A p \in Procs : WF_vars(RunStep(p))

-----------------------------------------------------------------------------
(* Properties.                                                              *)

\* Every variable holds what the code's types and the protocol let it hold, and
\* no nil checkpoint is used.
TypeOK ==
    /\ remote \in [Objects -> Versions]
    /\ part \in Files \cup {None} /\ dest \in Files \cup {None}
    /\ ckpt \in [Objects -> Checkpoints \cup {None}] /\ stale \subseteq Objects
    /\ pc \in [Procs -> Steps]
    /\ job \in [Procs -> Jobs \cup {None}]
    /\ mem \in [Procs -> Checkpoints \cup {None}]
    /\ \A p \in Procs : pc[p] \in {"save", "open", "pool"} => mem[p] # None
    /\ fd \in [Procs -> {"none", "part", "dest", "gone"}]
    /\ flight \in [Procs -> [ChunkNo -> FlightStates \cup Versions]]
    /\ lockFile \in [Objects -> Nat] /\ oldLocks \subseteq Objects
    /\ held \in [Procs -> Nat]
    /\ partOf \in Objects \cup {None} /\ mixed \in BOOLEAN /\ destMixed \in BOOLEAN
    /\ outcome \in [Procs -> {"none", "done", "refused", "failed"}]
    /\ excused \in [Procs -> BOOLEAN]
    /\ runs \in Nat /\ mishaps \in Nat /\ ages \in Nat

\* The lock keeps two downloads of one object apart while its file lasts; nothing
\* keeps downloads of two objects to one path apart.  The properties below are of a
\* .part file that only the download it was last taken for had a hand in.
\* AdjacentPartBelongs and PartNotRaced are what the code's comments say without
\* that condition.

\* Whatever was interrupted, resumed, replaced or re-cut in between, the file at
\* the destination is one version of one object from its first byte to its last
\* (loadOrResetDownloadCheckpoint's test, If-Match, the rename at the end), unless
\* it was made from a .part that two downloads wrote.
DestWhole == dest # None /\ ~ destMixed => \E v \in Versions : dest = Whole(v)

\* A run that got past the rename has put there the version that HeadObject told
\* it, and it is still there while the run holds the lock (resumableDownload's
\* return), unless what is there comes from a .part that two downloads wrote.
SuccessMeansDest ==
    \A p \in Procs :
        (pc[p] = "delete" \/ outcome[p] = "done") /\ ~ destMixed => dest = Whole(job[p].ver)

\* File f has the bytes of every chunk that checkpoint c records.
Backs(f, c) ==
    \A n \in c.chunks : \A u \in chunkRange(n, Size[c.ver], c.ps) : f[u] = c.ver

\* The .part file has every chunk that the checkpoint of the download it was last
\* taken for records, whichever downloads of other objects had the path before
\* (saveDownloadCheckpoint after the write, the removal of a stale .part), unless
\* another download had a hand in it.
PartBelongs ==
    part # None /\ ~ mixed /\ ckpt[partOf] # None => Backs(part, ckpt[partOf])

\* A run fails only if something outside the code hit that very run, or another
\* download its .part file: whatever a crash or a replaced object left behind, the
\* next undisturbed run gets through.
UndisturbedRunSucceeds ==
    \A p \in Procs : outcome[p] = "failed" => excused[p] \/ mixed

\* A chunk recorded for a download that is still resumable is not fetched again
\* (downloadMissingChunks' done map), unless another download had a hand in .part.
NoChunkFetchedTwice ==
    [][\A p \in Procs : \A n \in ChunkNo :
        flight[p][n] = "quiet" /\ flight'[p][n] = "sent" /\ ~ mixed =>
            ~ (ckpt[job[p].obj] # None /\ n \in ckpt[job[p].obj].chunks)]_vars

\* "an adjacent ".part" belongs to THIS download" of which hasResumableDownload
\* finds a checkpoint: it has every chunk on record there (mpdownload.go:130-132).
AdjacentPartBelongs ==
    part # None => \A o \in Objects : ckpt[o] # None => Backs(part, ckpt[o])

\* "Same-host guard: two downloads of the same object would race the .part file"
\* (mpdownload.go:231): no two of them have it open.
PartNotRaced ==
    \A p, q \in Procs :
        fd[p] = "part" /\ fd[q] = "part" /\ job[p].obj = job[q].obj => p = q

=============================================================================
