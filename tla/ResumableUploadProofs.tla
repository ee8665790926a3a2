----------------------- MODULE ResumableUploadProofs -----------------------
(***************************************************************************)
(* Type correctness of ResumableUpload for every use of the program; the   *)
(* integrity of what cp publishes, for any number of processes, runs,      *)
(* failures, crashes, versions, part sizes and passings of time; the       *)
(* exclusion by the lock; and, while it excludes, the fate of a run of cp  *)
(* that nothing hit, the uploads it replaces and the parts it sends.       *)
(***************************************************************************)
EXTENDS ResumableUpload, TransferPartsProofs

\* The part sizes that runs ask for, with a request of the user's or the size of a
\* part that the server holds, fit the file and keep to the floor.
LEMMA PartPlans ==
    \A v, w \in Versions : \A r \in Requests \cup (0 .. FileSize[w]) :
        LET ps == computePartSize(FileSize[v], r)
        IN  ps \in Nat /\ ps >= MinPartSize /\ Fits(FileSize[v], ps)
<1>. SUFFICES ASSUME NEW v \in Versions, NEW w \in Versions,
                     NEW r \in Requests \cup (0 .. FileSize[w])
              PROVE  LET ps == computePartSize(FileSize[v], r)
                     IN  ps \in Nat /\ ps >= MinPartSize /\ Fits(FileSize[v], ps)
  OBVIOUS
<1>1. FileSize[v] \in Nat /\ FileSize[w] \in Nat /\ r \in Nat
  BY UploadInputs
<1>. QED
  BY <1>1, PartSizeFits

\* The steps at which a process has an upload in hand.
InHand == {"adopt", "abort", "list", "save", "first", "strand", "pool", "complete", "delete"}

\* A running process has its arguments, one that works on an upload has a
\* checkpoint in memory, and only the pool has requests out, for parts of the file.
ProcShape ==
    \A p \in Procs :
        /\ pc[p] # "idle" => job[p] # None
        /\ pc[p] \in InHand => mem[p] # None
        /\ \A n \in PartNo :
            flight[p][n] # "quiet" => pc[p] = "pool" /\ n \in 1 .. total(p)

TypeInv == TypeOK /\ ProcShape

-----------------------------------------------------------------------------
LEMMA SliceType ==
    ASSUME NEW v \in Versions, NEW ps \in Nat \ {0},
           NEW n \in 1 .. numParts(FileSize[v], ps)
    PROVE  Slice(v, n, ps) \in PartData
  BY UploadInputs, RangeInFile DEF Slice, PartData

LEMMA CountedIsPartNo ==
    ASSUME NEW v \in Versions, NEW ps \in Nat \ {0}
    PROVE  1 .. numParts(FileSize[v], ps) \subseteq PartNo
  BY UploadInputs, NumPartsStart, PartLimits DEF PartNo

LEMMA PutType ==
    ASSUME TypeInv, NEW p \in Procs, NEW n \in PartNo,
           pc[p] = "pool", n \in 1 .. total(p)
    PROVE  Put(p, n) \in Puts
<1>1. job[p] \in Jobs /\ mem[p] \in Checkpoints
  BY DEF TypeInv, TypeOK, ProcShape, InHand
<1>2. Slice(job[p].ver, n, job[p].ps) \in PartData
  BY <1>1, SliceType DEF total, Jobs
<1>. QED
  BY <1>1, <1>2 DEF Put, Puts, Checkpoints

LEMMA SizesType ==
    ASSUME NEW m \in PartMaps, NEW s \in Sizes(m), NEW v \in Versions
    PROVE  \E w \in Versions : s \in 0 .. FileSize[w]
<1>1. CASE s = 0
  BY <1>1, UploadInputs
<1>2. CASE s # 0
  <2>1. PICK n \in PartNo : m[n] # None /\ s = m[n].to - m[n].from
    BY <1>2 DEF Sizes, PartsOf, Size
  <2>2. m[n] \in PartData
    BY <2>1 DEF PartMaps
  <2>. QED
    BY <2>1, <2>2, UploadInputs DEF PartData
<1>. QED
  BY <1>1, <1>2

LEMMA TypeInvInit == Init => TypeInv
  BY NoneIsNothing, UploadInputs DEF Init, TypeInv, TypeOK, ProcShape, Steps, InHand,
     NoParts, AllQuiet, PartMaps

-----------------------------------------------------------------------------
\* One lemma per group of actions; what an action leaves alone is in its UNCHANGED.
LEMMA EntryType ==
    ASSUME TypeInv, NEW p \in Procs,
           runUpload(p) \/ gcCheckpoints(p) \/ resumeServerUpload(p) \/ SaveAdopted(p)
    PROVE  TypeInv'
<1>. USE DEF TypeInv, TypeOK, ProcShape, InHand, Steps, disk, server, counters, blame,
             Goto, End, Mishap, Calm, total
<1>1. CASE runUpload(p)
  <2>1. PICK r \in Requests, noResume \in BOOLEAN :
            job' = [job EXCEPT ![p] = [ver |-> file, ps |-> computePartSize(FileSize[file], r),
                                       noResume |-> noResume]]
    BY <1>1 DEF runUpload
  <2>2. job'[p] \in Jobs /\ job' \in [Procs -> Jobs \cup {None}]
    BY <2>1, PartPlans, PartLimits DEF Jobs
  <2>. QED
    BY <1>1, <2>1, <2>2, NoneIsNothing DEF runUpload
<1>2. CASE gcCheckpoints(p)
  BY <1>2 DEF gcCheckpoints
<1>3. CASE resumeServerUpload(p)
  <2>0. PICK u \in UploadIds : \E inferred \in Sizes(stored[u]) :
            LET auto == computePartSize(FileSize[file], inferred)
            IN  /\ job' = [job EXCEPT ![p] = [ver |-> file, ps |-> auto, noResume |-> FALSE]]
                /\ mem' = [mem EXCEPT ![p] =
                            [uid |-> u, ver |-> file, parts |-> stored[u],
                             ps |-> IF inferred = 0 THEN auto ELSE inferred]]
    BY <1>3 DEF resumeServerUpload
  <2>1. PICK inferred \in Sizes(stored[u]) :
            LET auto == computePartSize(FileSize[file], inferred)
            IN  /\ job' = [job EXCEPT ![p] = [ver |-> file, ps |-> auto, noResume |-> FALSE]]
                /\ mem' = [mem EXCEPT ![p] =
                            [uid |-> u, ver |-> file, parts |-> stored[u],
                             ps |-> IF inferred = 0 THEN auto ELSE inferred]]
    BY <2>0
  <2>2. PICK w \in Versions : inferred \in 0 .. FileSize[w]
    BY SizesType
  <2>3. computePartSize(FileSize[file], inferred) \in Nat \ {0} /\ inferred \in Nat
    BY <2>2, PartPlans, PartLimits, UploadInputs
  <2>4. job'[p] \in Jobs /\ job' \in [Procs -> Jobs \cup {None}]
    BY <2>1, <2>3 DEF Jobs
  <2>5. mem'[p] \in Checkpoints /\ mem' \in [Procs -> Checkpoints \cup {None}]
    BY <2>1, <2>3 DEF Checkpoints
  <2>6. pc[p] = "idle" /\ pc' = [pc EXCEPT ![p] = "adopt"] /\ UNCHANGED flight
    BY <1>3 DEF resumeServerUpload
  <2>7. TypeOK'
    BY <1>3, <2>4, <2>5, <2>6 DEF resumeServerUpload
  <2>8. ASSUME NEW q \in Procs, q # p
        PROVE  job'[q] = job[q] /\ mem'[q] = mem[q]
    BY <2>1, <2>8
  <2>9. ProcShape'
    BY <2>4, <2>5, <2>6, <2>8, NoneIsNothing
  <2>. QED
    BY <2>7, <2>9
<1>4. CASE SaveAdopted(p)
  <2>1. CASE saveCheckpoint(mem[p]) /\ Goto(p, "lock") /\ Calm /\ UNCHANGED outcome
    <3>1. mem[p].uid \in UploadIds
      BY <1>4, NoneIsNothing DEF SaveAdopted, Checkpoints
    <3>2. overtaken' \subseteq UploadIds
      BY <1>4, <2>1, <3>1 DEF SaveAdopted
    <3>. QED
      BY <1>4, <2>1, <3>2 DEF SaveAdopted, saveCheckpoint
  <2>2. CASE Mishap(p) /\ End(p, "failed") /\ UNCHANGED disk
    BY <1>4, <2>2 DEF SaveAdopted
  <2>. QED
    BY <1>4, <2>1, <2>2 DEF SaveAdopted
<1>. QED
  BY <1>1, <1>2, <1>3, <1>4

LEMMA LockType ==
    ASSUME TypeInv, NEW p \in Procs,
           acquireTransferLock(p) \/ release(p) \/ LocalFileFails(p)
    PROVE  TypeInv'
<1>. USE DEF TypeInv, TypeOK, ProcShape, InHand, Steps, disk, server, counters, blame,
             Goto, End, Mishap, Calm, total
<1>1. CASE acquireTransferLock(p)
  <2>1. OpenedLock \in Nat
    BY DEF OpenedLock
  <2>. QED
    BY <1>1, <2>1 DEF acquireTransferLock
<1>2. CASE release(p)
  BY <1>2 DEF release
<1>3. CASE LocalFileFails(p)
  BY <1>3 DEF LocalFileFails
<1>. QED
  BY <1>1, <1>2, <1>3

LEMMA AbortType ==
    ASSUME TypeOK, NEW u \in UploadIds, Abort(u)
    PROVE  status' \in [UploadIds -> {"none", "open", "done", "aborted"}]
  BY DEF TypeOK, Abort

LEMMA ResolveType ==
    ASSUME TypeInv, NEW p \in Procs,
           \/ resolveUpload(p) \/ AbortStale(p) \/ listAllParts(p) \/ ListFails(p)
           \/ DropGone(p) \/ SaveReconciled(p)
    PROVE  TypeInv'
<1>. USE DEF TypeInv, TypeOK, ProcShape, InHand, Steps, disk, server, counters, blame,
             Goto, End, Mishap, Calm, total
<1>1. CASE resolveUpload(p)
  BY <1>1 DEF resolveUpload, Resumable
<1>2. CASE AbortStale(p)
  <2>1. mem[p].uid \in UploadIds
    BY <1>2 DEF AbortStale, Checkpoints
  <2>2. CASE Abort(mem[p].uid) /\ Calm
    BY <1>2, <2>1, <2>2, AbortType DEF AbortStale, Abort
  <2>3. CASE Mishap(p) /\ UNCHANGED server
    BY <1>2, <2>3 DEF AbortStale
  <2>. QED
    BY <1>2, <2>2, <2>3 DEF AbortStale
<1>3. CASE listAllParts(p)
  <2>1. mem[p] \in Checkpoints
    BY <1>3 DEF listAllParts
  <2>2. mem'[p] \in Checkpoints
    BY <1>3, <2>1 DEF listAllParts, Checkpoints, WithParts
  <2>3. mem' \in [Procs -> Checkpoints \cup {None}] /\ \A q \in Procs : q # p => mem'[q] = mem[q]
    BY <1>3, <2>2 DEF listAllParts
  <2>4. TypeOK'
    BY <1>3, <2>3 DEF listAllParts
  <2>5. ProcShape'
    BY <1>3, <2>2, <2>3, NoneIsNothing DEF listAllParts
  <2>. QED
    BY <2>4, <2>5
<1>4. CASE ListFails(p)
  BY <1>4 DEF ListFails
<1>5. CASE DropGone(p)
  <2>1. CASE removeCheckpoint /\ Calm
    BY <1>5, <2>1 DEF DropGone, removeCheckpoint, saveCheckpoint
  <2>2. CASE Mishap(p) /\ UNCHANGED disk
    BY <1>5, <2>2 DEF DropGone
  <2>. QED
    BY <1>5, <2>1, <2>2 DEF DropGone
<1>6. CASE SaveReconciled(p)
  <2>1. CASE saveCheckpoint(mem[p]) /\ Goto(p, "pool") /\ Calm /\ UNCHANGED outcome
    BY <1>6, <2>1 DEF SaveReconciled, saveCheckpoint
  <2>2. CASE Mishap(p) /\ End(p, "failed") /\ UNCHANGED disk
    BY <1>6, <2>2 DEF SaveReconciled
  <2>. QED
    BY <1>6, <2>1, <2>2 DEF SaveReconciled
<1>. QED
  BY <1>1, <1>2, <1>3, <1>4, <1>5, <1>6

LEMMA FreshType ==
    ASSUME TypeInv, NEW p \in Procs,
           CreateUpload(p) \/ SaveFirst(p) \/ AbortUnsaved(p)
    PROVE  TypeInv'
<1>. USE DEF TypeInv, TypeOK, ProcShape, InHand, Steps, disk, server, counters, blame,
             Goto, End, Mishap, Calm, total
<1>1. CASE CreateUpload(p)
  <2>1. job[p] \in Jobs
    BY <1>1 DEF CreateUpload
  <2>2. ASSUME NEW u \in UploadIds, Opens(u)
        PROVE  status' \in [UploadIds -> {"none", "open", "done", "aborted"}]
    BY <2>2 DEF Opens
  <2>3. CASE /\ UNCHANGED server \/ \E u \in UploadIds : Opens(u)
             /\ Mishap(p) /\ End(p, "failed") /\ UNCHANGED mem
    <3>1. /\ UNCHANGED <<stored, object>>
          /\ status' \in [UploadIds -> {"none", "open", "done", "aborted"}]
      BY <2>2, <2>3 DEF Opens
    <3>. QED
      BY <1>1, <2>3, <3>1 DEF CreateUpload
  <2>4. CASE /\ \E u \in UploadIds :
                  /\ Opens(u)
                  /\ mem' = [mem EXCEPT ![p] = [uid |-> u, ver |-> job[p].ver,
                                                ps |-> job[p].ps, parts |-> NoParts]]
             /\ Goto(p, "first") /\ Calm /\ UNCHANGED outcome
    <3>1. PICK u \in UploadIds :
              /\ Opens(u)
              /\ mem' = [mem EXCEPT ![p] = [uid |-> u, ver |-> job[p].ver,
                                            ps |-> job[p].ps, parts |-> NoParts]]
      BY <2>4
    <3>2. mem'[p] \in Checkpoints
      BY <2>1, <3>1 DEF Checkpoints, Jobs, NoParts, PartMaps
    <3>. QED
      BY <1>1, <2>2, <2>4, <3>1, <3>2, NoneIsNothing DEF CreateUpload, Opens
  <2>. QED
    BY <1>1, <2>3, <2>4 DEF CreateUpload
<1>2. CASE SaveFirst(p)
  <2>1. CASE saveCheckpoint(mem[p]) /\ Goto(p, "pool") /\ Calm
    BY <1>2, <2>1 DEF SaveFirst, saveCheckpoint
  <2>2. CASE Mishap(p) /\ Goto(p, "strand") /\ UNCHANGED disk
    BY <1>2, <2>2 DEF SaveFirst
  <2>. QED
    BY <1>2, <2>1, <2>2 DEF SaveFirst
<1>3. CASE AbortUnsaved(p)
  <2>1. mem[p].uid \in UploadIds
    BY <1>3 DEF AbortUnsaved, Checkpoints
  <2>2. CASE Abort(mem[p].uid) /\ Calm
    BY <1>3, <2>1, <2>2, AbortType DEF AbortUnsaved, Abort
  <2>3. CASE Mishap(p) /\ UNCHANGED server
    BY <1>3, <2>3 DEF AbortUnsaved
  <2>. QED
    BY <1>3, <2>2, <2>3 DEF AbortUnsaved
<1>. QED
  BY <1>1, <1>2, <1>3

LEMMA PoolType ==
    ASSUME TypeInv, NEW p \in Procs, PoolStep(p)
    PROVE  TypeInv'
<1>. USE DEF TypeInv, TypeOK, ProcShape, InHand, Steps, disk, server, counters, blame,
             Goto, End, Mishap, Calm, total, SetFlight
<1>1. ASSUME NEW n \in PartNo, uploadOnePart(p, n)
      PROVE  TypeInv'
  <2>1. n \in 1 .. total(p) /\ pc[p] = "pool"
    BY <1>1 DEF uploadOnePart, Missing
  <2>2. Put(p, n) \in Puts
    BY <2>1, PutType
  <2>. QED
    BY <1>1, <2>1, <2>2 DEF uploadOnePart
<1>2. ASSUME NEW n \in PartNo, Answer(p, n)
      PROVE  TypeInv'
  BY <1>2 DEF Answer, Verdict
<1>3. ASSUME NEW n \in PartNo, CallFails(p, n)
      PROVE  TypeInv'
  BY <1>3 DEF CallFails
<1>4. ASSUME NEW n \in PartNo, appendPart(p, n)
      PROVE  TypeInv'
  <2>1. n \in 1 .. total(p) /\ pc[p] = "pool"
    BY <1>4 DEF appendPart
  <2>2. Put(p, n).data \in PartData
    BY <2>1, PutType DEF Puts
  <2>3. mem[p] \in Checkpoints
    BY <2>1
  <2>4. mem'[p] \in Checkpoints
    BY <1>4, <2>2, <2>3 DEF appendPart, Checkpoints, PartMaps, WithParts
  <2>5. mem' \in [Procs -> Checkpoints \cup {None}] /\ \A q \in Procs : q # p => mem'[q] = mem[q]
    BY <1>4, <2>4 DEF appendPart
  <2>6. ckpt' \in Checkpoints \cup {None} /\ stale' \subseteq stale /\ lockFile' = lockFile
    BY <1>4, <2>4 DEF appendPart, saveCheckpoint
  <2>7. /\ mishaps' \in Nat /\ excused' \in [Procs -> BOOLEAN]
        /\ outcome' \in [Procs -> {"none", "done", "refused", "failed"}]
    <3>1. CASE saveCheckpoint(mem'[p]) /\ Calm /\ UNCHANGED outcome
      BY <3>1
    <3>2. CASE Mishap(p) /\ outcome' = [outcome EXCEPT ![p] = "failed"] /\ UNCHANGED disk
      BY <3>2
    <3>. QED
      BY <1>4, <3>1, <3>2 DEF appendPart
  <2>8. TypeOK'
    BY <1>4, <2>5, <2>6, <2>7 DEF appendPart
  <2>9. ProcShape'
    BY <1>4, <2>4, <2>5, NoneIsNothing DEF appendPart
  <2>. QED
    BY <2>8, <2>9
<1>5. ASSUME NEW n \in PartNo, CollectError(p, n)
      PROVE  TypeInv'
  BY <1>5 DEF CollectError
<1>6. ASSUME NEW n \in PartNo, GiveUp(p, n)
      PROVE  TypeInv'
  BY <1>6 DEF GiveUp
<1>7. CASE uploadMissingParts(p)
  BY <1>7 DEF uploadMissingParts, Busy
<1>. QED
  BY <1>1, <1>2, <1>3, <1>4, <1>5, <1>6, <1>7 DEF PoolStep

LEMMA FinishType ==
    ASSUME TypeInv, NEW p \in Procs, completeUpload(p) \/ deleteCheckpoint(p)
    PROVE  TypeInv'
<1>. USE DEF TypeInv, TypeOK, ProcShape, InHand, Steps, disk, server, counters, blame,
             Goto, End, Mishap, Calm, total
<1>1. CASE completeUpload(p)
  <2>1. mem[p].uid \in UploadIds /\ mem[p].parts \in PartMaps
    BY <1>1 DEF completeUpload, Checkpoints
  <2>2. /\ status' \in [UploadIds -> {"none", "open", "done", "aborted"}]
        /\ stored' = stored /\ object' \in PartMaps
    BY <1>1, <2>1 DEF completeUpload, Publish
  <2>3. /\ mishaps' \in Nat /\ excused' \in [Procs -> BOOLEAN]
        /\ outcome' \in [Procs -> {"none", "done", "refused", "failed"}]
        /\ pc' = [pc EXCEPT ![p] = "delete"] \/ pc' = [pc EXCEPT ![p] = "exit"]
    <3>1. CASE Goto(p, "delete") /\ Calm /\ UNCHANGED outcome
      BY <3>1
    <3>2. CASE End(p, "failed") /\ Calm
      BY <3>2
    <3>3. CASE Mishap(p) /\ End(p, "failed")
      BY <3>3
    <3>. QED
      BY <1>1, <3>1, <3>2, <3>3 DEF completeUpload
  <2>. QED
    BY <1>1, <2>2, <2>3 DEF completeUpload
<1>2. CASE deleteCheckpoint(p)
  <2>1. CASE removeCheckpoint /\ End(p, "done") /\ Calm
    BY <1>2, <2>1 DEF deleteCheckpoint, removeCheckpoint, saveCheckpoint
  <2>2. CASE Mishap(p) /\ End(p, "failed") /\ UNCHANGED disk
    BY <1>2, <2>2 DEF deleteCheckpoint
  <2>. QED
    BY <1>2, <2>1, <2>2 DEF deleteCheckpoint
<1>. QED
  BY <1>1, <1>2

LEMMA WorldType ==
    ASSUME TypeInv,
           \/ Deliver \/ EditFile \/ Age \/ UNCHANGED vars
           \/ \E p \in Procs : Crash(p)
           \/ \E u \in UploadIds : OutsideAbort(u)
    PROVE  TypeInv'
<1>. USE DEF TypeInv, TypeOK, ProcShape, InHand, Steps, disk, server, counters, blame,
             Goto, total
<1>1. CASE Deliver
  <2>1. PICK r \in net : ServerPut(r)
    BY <1>1 DEF Deliver
  <2>2. r \in Puts
    OBVIOUS
  <2>3. stored' \in [UploadIds -> PartMaps]
    BY <2>1, <2>2 DEF ServerPut, Puts, PartMaps
  <2>. QED
    BY <2>1, <2>3 DEF ServerPut
<1>2. CASE EditFile
  BY <1>2 DEF EditFile
<1>3. CASE Age
  BY <1>3 DEF Age
<1>4. CASE UNCHANGED vars
  BY <1>4 DEF vars
<1>5. ASSUME NEW p \in Procs, Crash(p)
      PROVE  TypeInv'
  BY <1>5 DEF Crash, AllQuiet
<1>6. ASSUME NEW u \in UploadIds, OutsideAbort(u)
      PROVE  TypeInv'
  BY <1>6, AbortType DEF OutsideAbort, Abort
<1>. QED
  BY <1>1, <1>2, <1>3, <1>4, <1>5, <1>6

LEMMA TypeInvStep == TypeInv /\ [Next]_vars => TypeInv'
<1>. SUFFICES ASSUME TypeInv, [Next]_vars
              PROVE  TypeInv'
  OBVIOUS
<1>1. ASSUME NEW p \in Procs, RunStep(p)
      PROVE  TypeInv'
  BY <1>1, EntryType, LockType, ResolveType, FreshType, PoolType, FinishType DEF RunStep
<1>2. CASE Environment
  BY <1>2, EntryType, WorldType DEF Environment, Finished
<1>. QED
  BY <1>1, <1>2, WorldType DEF Next

LEMMA TypeInvariant == Spec => []TypeInv
  BY TypeInvInit, TypeInvStep, PTL DEF Spec

\* Every variable keeps its type, whichever commands are used.
THEOREM TypeCorrect == Spec => []TypeOK
<1>1. TypeInv => TypeOK
  BY DEF TypeInv
<1>. QED
  BY <1>1, TypeInvariant, PTL

-----------------------------------------------------------------------------
(* What cp publishes.  The inductive invariant: everything that is ever said *)
(* of an upload (its parts on the server, its requests in the network, the  *)
(* checkpoints that name it) cuts one version of the file at one part size. *)

\* The cuts of a file that take the resumable path.
Plans == {c \in {[ver |-> v, ps |-> computePartSize(FileSize[v], r)] :
                    v \in Versions, r \in Requests} : FileSize[c.ver] > c.ps}

Counted(c) == 1 .. numParts(FileSize[c.ver], c.ps)

\* The parts of m are those of cut c.
Cut(m, c) ==
    \A n \in PartNo : m[n] # None => n \in Counted(c) /\ m[n] = Slice(c.ver, n, c.ps)

Agrees(k, u, c) ==
    k # None /\ k.uid = u => k.ver = c.ver /\ k.ps = c.ps /\ Cut(k.parts, c)

UsesPlan(u, c) ==
    /\ Cut(stored[u], c)
    /\ \A r \in net : r.uid = u => r.n \in Counted(c) /\ r.data = Slice(c.ver, r.n, c.ps)
    /\ Agrees(ckpt, u, c)
    /\ \A p \in Procs : Agrees(mem[p], u, c)

Unreferenced(u) ==
    /\ stored[u] = NoParts
    /\ \A r \in net : r.uid # u
    /\ ckpt # None => ckpt.uid # u
    /\ \A p \in Procs : mem[p] # None => mem[p].uid # u

OnePlan ==
    \A u \in UploadIds :
        \/ status[u] = "none" /\ Unreferenced(u)
        \/ status[u] # "none" /\ \E c \in Plans : UsesPlan(u, c)

\* From here on a process works on an upload of its own file and part size.
Uploading == {"list", "save", "first", "strand", "pool", "complete", "delete"}

\* A running process has the file's present version and a cut of it; before it
\* completes it has every part of the cut, and an acknowledged part is stored.
RunOf(p) ==
    /\ pc[p] # "adopt"
    /\ pc[p] # "idle" => job[p].ver = file /\ [ver |-> job[p].ver, ps |-> job[p].ps] \in Plans
    /\ pc[p] \in Uploading => mem[p].ver = job[p].ver /\ mem[p].ps = job[p].ps
    /\ pc[p] = "complete" => Missing(p) = {}
    /\ pc[p] = "idle" => outcome[p] = "none"
    /\ outcome[p] = "done" => pc[p] = "exit"
    /\ \A n \in PartNo :
        flight[p][n] = "acked" => stored[mem[p].uid][n] = Put(p, n).data

RunInv == \A p \in Procs : RunOf(p)

IntegrityInv ==
    TypeInv /\ OnePlan /\ RunInv /\ ObjectIntact /\ SuccessMeansPublished /\ CheckpointBehindServer

LEMMA PlanFacts ==
    ASSUME NEW c \in Plans
    PROVE  /\ c.ver \in Versions /\ c.ps \in Nat \ {0}
           /\ FileSize[c.ver] \in Nat \ {0} /\ Fits(FileSize[c.ver], c.ps)
<1>1. PICK v \in Versions : \E r \in Requests :
          c = [ver |-> v, ps |-> computePartSize(FileSize[v], r)]
  BY DEF Plans
<1>2. PICK r \in Requests : c = [ver |-> v, ps |-> computePartSize(FileSize[v], r)]
  BY <1>1
<1>3. c.ver = v /\ c.ps \in Nat \ {0} /\ Fits(FileSize[v], c.ps)
  BY <1>2, PartPlans, PartLimits
<1>4. FileSize[c.ver] \in Nat /\ FileSize[c.ver] > c.ps
  BY <1>3, UploadInputs DEF Plans
<1>. QED
  BY <1>3, <1>4

LEMMA CutTiles ==
    ASSUME NEW m \in PartMaps, NEW c \in Plans, Cut(m, c),
           \A n \in Counted(c) : m[n] # None
    PROVE  Tiles(m, c.ver)
<1>. DEFINE size == FileSize[c.ver]
            k == numParts(size, c.ps)
<1>1. c.ver \in Versions /\ c.ps \in Nat \ {0} /\ size \in Nat \ {0} /\ Fits(size, c.ps)
  BY PlanFacts
<1>2. /\ k \in 1 .. MaxParts
      /\ partStart(1, c.ps) = 0
      /\ \A n \in 2 .. k : partStart(n, c.ps) = partEnd(n - 1, size, c.ps)
      /\ partEnd(k, size, c.ps) = size
  BY <1>1, RangesTileFile
<1>3. Counted(c) = 1 .. k
  BY DEF Counted
<1>. HIDE DEF size, k
<1>4. PartsOf(m) = 1 .. k
  BY <1>2, <1>3, PartLimits DEF Cut, PartsOf, PartNo
<1>5. ASSUME NEW n \in 1 .. k
      PROVE  m[n].ver = c.ver /\ m[n].from = partStart(n, c.ps) /\ m[n].to = partEnd(n, size, c.ps)
  <2>1. m[n] = Slice(c.ver, n, c.ps)
    BY <1>2, <1>3, PartLimits DEF Cut, PartNo
  <2>. QED
    BY <2>1 DEF Slice, size
<1>6. ASSUME NEW n \in 1 .. k
      PROVE  m[n].ver = c.ver /\ m[n].from = (IF n = 1 THEN 0 ELSE m[n - 1].to)
  <2>1. CASE n = 1
    BY <1>2, <1>5, <2>1
  <2>2. CASE n # 1
    <3>1. n \in 2 .. k /\ n - 1 \in 1 .. k
      BY <1>2, <2>2
    <3>2. m[n - 1].to = partEnd(n - 1, size, c.ps)
      BY <1>5, <3>1
    <3>3. m[n].from = partEnd(n - 1, size, c.ps)
      BY <1>2, <1>5, <3>1
    <3>. QED
      BY <1>5, <2>2, <3>2, <3>3
  <2>. QED
    BY <2>1, <2>2
<1>7. k \in PartNo /\ k \in 1 .. k /\ m[k].to = FileSize[c.ver]
  <2>1. k \in PartNo /\ k \in 1 .. k
    BY <1>2, PartLimits DEF PartNo
  <2>. QED
    BY <1>2, <1>5, <2>1 DEF size
<1>. QED
  BY <1>4, <1>6, <1>7 DEF Tiles

\* The actions that leave the server's parts alone, add no request, and only pass
\* checkpoints on between memory and disk, or drop them.
LEMMA References ==
    ASSUME TypeInv, OnePlan, CheckpointBehindServer,
           \A u \in UploadIds : status'[u] = "none" <=> status[u] = "none",
           stored' = stored, net' \subseteq net,
           ckpt' = None \/ ckpt' = ckpt \/ \E q \in Procs : ckpt' = mem[q],
           \A q \in Procs : mem'[q] = None \/ mem'[q] = ckpt \/ mem'[q] = mem[q]
    PROVE  OnePlan' /\ CheckpointBehindServer'
<1>1. CheckpointBehindServer'
  BY DEF CheckpointBehindServer
<1>2. ASSUME NEW u \in UploadIds, Unreferenced(u)
      PROVE  Unreferenced(u)'
  BY <1>2 DEF Unreferenced
<1>3. ASSUME NEW u \in UploadIds, NEW c \in Plans, UsesPlan(u, c)
      PROVE  UsesPlan(u, c)'
  <2>1. Cut(stored[u], c)' /\ \A r \in net' : r.uid = u => r.n \in Counted(c) /\ r.data = Slice(c.ver, r.n, c.ps)
    BY <1>3 DEF UsesPlan, Cut
  <2>2. Agrees(ckpt, u, c)'
    BY <1>3 DEF UsesPlan, Agrees, Cut
  <2>3. \A q \in Procs : Agrees(mem[q], u, c)'
    BY <1>3 DEF UsesPlan, Agrees, Cut
  <2>. QED
    BY <2>1, <2>2, <2>3 DEF UsesPlan
<1>. QED
  BY <1>1, <1>2, <1>3 DEF OnePlan

\* A step of p keeps what holds of the other processes.
LEMMA OthersKeep ==
    ASSUME RunInv, NEW p \in Procs, RunOf(p)',
           stored' = stored, file' = file,
           \A q \in Procs \ {p} :
                /\ pc'[q] = pc[q] /\ job'[q] = job[q] /\ mem'[q] = mem[q]
                /\ flight'[q] = flight[q] /\ outcome'[q] = outcome[q]
    PROVE  RunInv'
<1>1. ASSUME NEW q \in Procs \ {p}
      PROVE  RunOf(q)'
  BY <1>1 DEF RunInv, RunOf, Missing, total, Put
<1>. QED
  BY <1>1 DEF RunInv

\* What the object is concerned with, for the steps that do not publish.
LEMMA ObjectKeeps ==
    ASSUME ObjectIntact, SuccessMeansPublished, object' = object,
           \A q \in Procs :
                pc'[q] = "delete" \/ outcome'[q] = "done" =>
                    (pc[q] = "delete" \/ outcome[q] = "done") /\ job'[q] = job[q]
    PROVE  ObjectIntact' /\ SuccessMeansPublished'
  BY DEF ObjectIntact, SuccessMeansPublished, Tiles, PartsOf

LEMMA EntryIntegrity ==
    ASSUME Entries = {"cp"}, IntegrityInv, NEW p \in Procs,
           runUpload(p) \/ gcCheckpoints(p) \/ resumeServerUpload(p) \/ SaveAdopted(p)
    PROVE  IntegrityInv'
<1>. USE DEF disk, server, Goto
<1>0. TypeInv /\ OnePlan /\ CheckpointBehindServer /\ RunInv /\ RunOf(p)
  BY DEF IntegrityInv, RunInv
<1>1. TypeInv'
  BY <1>0, EntryType
<1>2. ~ resumeServerUpload(p) /\ ~ SaveAdopted(p)
  BY <1>0 DEF resumeServerUpload, SaveAdopted, RunOf
<1>3. OnePlan' /\ CheckpointBehindServer'
  BY <1>0, <1>2, References DEF runUpload, gcCheckpoints
<1>4. CASE runUpload(p)
  <2>1. PICK r \in Requests, noResume \in BOOLEAN :
            /\ FileSize[file] > computePartSize(FileSize[file], r)
            /\ job' = [job EXCEPT ![p] = [ver |-> file, ps |-> computePartSize(FileSize[file], r),
                                         noResume |-> noResume]]
    BY <1>4 DEF runUpload
  <2>2. job'[p].ver = file /\ job'[p].ps = computePartSize(FileSize[file], r)
    BY <1>0, <2>1 DEF TypeInv, TypeOK
  <2>3. [ver |-> job'[p].ver, ps |-> job'[p].ps] \in Plans
    BY <1>0, <2>1, <2>2 DEF Plans, TypeInv, TypeOK
  <2>4. RunOf(p)'
    BY <1>0, <1>4, <2>2, <2>3 DEF runUpload, RunOf, Uploading, TypeInv, TypeOK, ProcShape
  <2>5. RunInv'
    BY <1>0, <1>4, <2>1, <2>4, OthersKeep DEF runUpload, TypeInv, TypeOK
  <2>6. ObjectIntact' /\ SuccessMeansPublished'
    BY <1>0, <1>4, ObjectKeeps DEF IntegrityInv, runUpload, TypeInv, TypeOK, RunOf
  <2>. QED
    BY <1>1, <1>3, <2>5, <2>6 DEF IntegrityInv
<1>5. CASE gcCheckpoints(p)
  <2>4. RunOf(p)'
    BY <1>0, <1>5 DEF gcCheckpoints, RunOf, Uploading, TypeInv, TypeOK, ProcShape
  <2>5. RunInv'
    BY <1>0, <1>5, <2>4, OthersKeep DEF gcCheckpoints, TypeInv, TypeOK
  <2>6. ObjectIntact' /\ SuccessMeansPublished'
    BY <1>0, <1>5, ObjectKeeps DEF IntegrityInv, gcCheckpoints, TypeInv, TypeOK, RunOf
  <2>. QED
    BY <1>1, <1>3, <2>5, <2>6 DEF IntegrityInv
<1>. QED
  BY <1>2, <1>4, <1>5

LEMMA LockIntegrity ==
    ASSUME IntegrityInv, NEW p \in Procs,
           acquireTransferLock(p) \/ release(p) \/ LocalFileFails(p)
    PROVE  IntegrityInv'
<1>. USE DEF disk, server, Goto, End, Mishap, Calm, blame
<1>0. TypeInv /\ OnePlan /\ CheckpointBehindServer /\ RunInv /\ RunOf(p)
  BY DEF IntegrityInv, RunInv
<1>1. TypeInv'
  BY <1>0, LockType
<1>2. CASE acquireTransferLock(p)
  <2>1. OnePlan' /\ CheckpointBehindServer'
    BY <1>0, <1>2, References DEF acquireTransferLock
  <2>2. RunOf(p)'
    BY <1>0, <1>2 DEF acquireTransferLock, RunOf, Uploading, TypeInv, TypeOK, ProcShape
  <2>3. RunInv'
    BY <1>0, <1>2, <2>2, OthersKeep DEF acquireTransferLock, TypeInv, TypeOK
  <2>4. ObjectIntact' /\ SuccessMeansPublished'
    BY <1>0, <1>2, ObjectKeeps DEF IntegrityInv, acquireTransferLock, TypeInv, TypeOK, RunOf
  <2>. QED
    BY <1>1, <2>1, <2>3, <2>4 DEF IntegrityInv
<1>3. CASE release(p)
  <2>1. OnePlan' /\ CheckpointBehindServer'
    BY <1>0, <1>3, References DEF release
  <2>2. RunOf(p)'
    BY <1>0, <1>3 DEF release, RunOf, Uploading, TypeInv, TypeOK, ProcShape
  <2>3. RunInv'
    BY <1>0, <1>3, <2>2, OthersKeep DEF release, TypeInv, TypeOK
  <2>4. ObjectIntact' /\ SuccessMeansPublished'
    BY <1>0, <1>3, ObjectKeeps DEF IntegrityInv, release, TypeInv, TypeOK, RunOf
  <2>. QED
    BY <1>1, <2>1, <2>3, <2>4 DEF IntegrityInv
<1>4. CASE LocalFileFails(p)
  <2>1. OnePlan' /\ CheckpointBehindServer'
    BY <1>0, <1>4, References DEF LocalFileFails
  <2>2. RunOf(p)'
    BY <1>0, <1>4 DEF LocalFileFails, RunOf, Uploading, TypeInv, TypeOK, ProcShape
  <2>3. RunInv'
    BY <1>0, <1>4, <2>2, OthersKeep DEF LocalFileFails, TypeInv, TypeOK
  <2>4. ObjectIntact' /\ SuccessMeansPublished'
    BY <1>0, <1>4, ObjectKeeps DEF IntegrityInv, LocalFileFails, TypeInv, TypeOK, RunOf
  <2>. QED
    BY <1>1, <2>1, <2>3, <2>4 DEF IntegrityInv
<1>. QED
  BY <1>2, <1>3, <1>4

LEMMA AbortKeeps ==
    ASSUME TypeOK, NEW v, Abort(v)
    PROVE  \A u \in UploadIds : status'[u] = "none" <=> status[u] = "none"
  BY DEF TypeOK, Abort

LEMMA ResolveIntegrity ==
    ASSUME IntegrityInv, NEW p \in Procs,
           \/ resolveUpload(p) \/ AbortStale(p) \/ ListFails(p)
           \/ DropGone(p) \/ SaveReconciled(p)
    PROVE  IntegrityInv'
<1>. USE DEF disk, server, Goto, End, Mishap, Calm, blame
<1>0. TypeInv /\ OnePlan /\ CheckpointBehindServer /\ RunInv /\ RunOf(p)
  BY DEF IntegrityInv, RunInv
<1>1. TypeInv'
  BY <1>0, ResolveType
<1>2. CASE resolveUpload(p)
  <2>1. OnePlan' /\ CheckpointBehindServer'
    BY <1>0, <1>2, References DEF resolveUpload, Resumable
  <2>2. RunOf(p)'
    BY <1>0, <1>2 DEF resolveUpload, Resumable, RunOf, Uploading, TypeInv, TypeOK, ProcShape
  <2>3. RunInv'
    BY <1>0, <1>2, <2>2, OthersKeep DEF resolveUpload, TypeInv, TypeOK
  <2>4. ObjectIntact' /\ SuccessMeansPublished'
    BY <1>0, <1>2, ObjectKeeps DEF IntegrityInv, resolveUpload, Resumable, TypeInv, TypeOK, RunOf
  <2>. QED
    BY <1>1, <2>1, <2>3, <2>4 DEF IntegrityInv
<1>3. CASE AbortStale(p)
  <2>1. OnePlan' /\ CheckpointBehindServer'
    <3>1. /\ stored' = stored
          /\ \A u \in UploadIds : status'[u] = "none" <=> status[u] = "none"
      BY <1>0, <1>3, AbortKeeps DEF AbortStale, Abort, TypeInv
    <3>. QED
      BY <1>0, <1>3, <3>1, References DEF AbortStale
  <2>2. RunOf(p)'
    BY <1>0, <1>3 DEF AbortStale, Abort, RunOf, Uploading, TypeInv, TypeOK, ProcShape
  <2>3. RunInv'
    BY <1>0, <1>3, <2>2, OthersKeep DEF AbortStale, Abort, TypeInv, TypeOK
  <2>4. ObjectIntact' /\ SuccessMeansPublished'
    BY <1>0, <1>3, ObjectKeeps DEF IntegrityInv, AbortStale, Abort, TypeInv, TypeOK, RunOf
  <2>. QED
    BY <1>1, <2>1, <2>3, <2>4 DEF IntegrityInv
<1>4. CASE ListFails(p)
  <2>1. OnePlan' /\ CheckpointBehindServer'
    BY <1>0, <1>4, References DEF ListFails
  <2>2. RunOf(p)'
    BY <1>0, <1>4 DEF ListFails, RunOf, Uploading, TypeInv, TypeOK, ProcShape
  <2>3. RunInv'
    BY <1>0, <1>4, <2>2, OthersKeep DEF ListFails, TypeInv, TypeOK
  <2>4. ObjectIntact' /\ SuccessMeansPublished'
    BY <1>0, <1>4, ObjectKeeps DEF IntegrityInv, ListFails, TypeInv, TypeOK, RunOf
  <2>. QED
    BY <1>1, <2>1, <2>3, <2>4 DEF IntegrityInv
<1>5. CASE DropGone(p)
  <2>1. OnePlan' /\ CheckpointBehindServer'
    BY <1>0, <1>5, References DEF DropGone, removeCheckpoint, saveCheckpoint
  <2>2. RunOf(p)'
    BY <1>0, <1>5 DEF DropGone, removeCheckpoint, saveCheckpoint, RunOf, Uploading, TypeInv, TypeOK, ProcShape
  <2>3. RunInv'
    BY <1>0, <1>5, <2>2, OthersKeep DEF DropGone, TypeInv, TypeOK
  <2>4. ObjectIntact' /\ SuccessMeansPublished'
    BY <1>0, <1>5, ObjectKeeps DEF IntegrityInv, DropGone, removeCheckpoint, saveCheckpoint, TypeInv, TypeOK, RunOf
  <2>. QED
    BY <1>1, <2>1, <2>3, <2>4 DEF IntegrityInv
<1>6. CASE SaveReconciled(p)
  <2>1. OnePlan' /\ CheckpointBehindServer'
    BY <1>0, <1>6, References DEF SaveReconciled, saveCheckpoint
  <2>2. RunOf(p)'
    BY <1>0, <1>6 DEF SaveReconciled, saveCheckpoint, RunOf, Uploading, TypeInv, TypeOK, ProcShape
  <2>3. RunInv'
    BY <1>0, <1>6, <2>2, OthersKeep DEF SaveReconciled, TypeInv, TypeOK
  <2>4. ObjectIntact' /\ SuccessMeansPublished'
    BY <1>0, <1>6, ObjectKeeps DEF IntegrityInv, SaveReconciled, saveCheckpoint, TypeInv, TypeOK, RunOf
  <2>. QED
    BY <1>1, <2>1, <2>3, <2>4 DEF IntegrityInv
<1>. QED
  BY <1>2, <1>3, <1>4, <1>5, <1>6

\* ListParts brings the server's parts into memory, which follow the upload's cut.
LEMMA ListIntegrity ==
    ASSUME IntegrityInv, NEW p \in Procs, listAllParts(p)
    PROVE  IntegrityInv'
<1>. USE DEF disk, server, Goto, End, Mishap, Calm, blame
<1>0. TypeInv /\ OnePlan /\ CheckpointBehindServer /\ RunInv /\ RunOf(p)
  BY DEF IntegrityInv, RunInv
<1>1. TypeInv'
  BY <1>0, ResolveType
<1>2. /\ pc[p] = "list" /\ mem[p] \in Checkpoints
      /\ mem' = [mem EXCEPT ![p] = WithParts(mem[p], stored[mem[p].uid])]
  BY <1>0 DEF listAllParts, TypeInv, TypeOK, ProcShape, InHand
<1>3. /\ mem'[p].uid = mem[p].uid /\ mem'[p].ver = mem[p].ver /\ mem'[p].ps = mem[p].ps
      /\ mem'[p].parts = stored[mem[p].uid]
      /\ \A q \in Procs : q # p => mem'[q] = mem[q]
  BY <1>0, <1>2 DEF WithParts, TypeInv, TypeOK
<1>4. CheckpointBehindServer'
  BY <1>0, <1>3 DEF listAllParts, CheckpointBehindServer
<1>5. ASSUME NEW u \in UploadIds, Unreferenced(u)
      PROVE  Unreferenced(u)'
  BY <1>0, <1>2, <1>3, <1>5, NoneIsNothing DEF listAllParts, Unreferenced
<1>6. ASSUME NEW u \in UploadIds, NEW c \in Plans, UsesPlan(u, c)
      PROVE  UsesPlan(u, c)'
  <2>1. \A q \in Procs : Agrees(mem[q], u, c)'
    BY <1>2, <1>3, <1>6, NoneIsNothing DEF UsesPlan, Agrees, Cut
  <2>. QED
    BY <1>6, <2>1 DEF listAllParts, UsesPlan, Agrees, Cut
<1>7. OnePlan'
  BY <1>0, <1>5, <1>6 DEF listAllParts, OnePlan
<1>8. RunOf(p)'
  BY <1>0, <1>3 DEF listAllParts, RunOf, Uploading, TypeInv, TypeOK, ProcShape
<1>9. RunInv'
  BY <1>0, <1>3, <1>8, OthersKeep DEF listAllParts, TypeInv, TypeOK
<1>10. ObjectIntact' /\ SuccessMeansPublished'
  BY <1>0, ObjectKeeps DEF IntegrityInv, listAllParts, TypeInv, TypeOK, RunOf
<1>. QED
  BY <1>1, <1>4, <1>7, <1>9, <1>10 DEF IntegrityInv

\* A new upload has no part and no request; it takes the cut of its creator.
LEMMA OpensKeeps ==
    ASSUME TypeInv, OnePlan, CheckpointBehindServer,
           NEW v \in UploadIds, Opens(v), NEW d \in Plans,
           UNCHANGED <<ckpt, net>>,
           \A q \in Procs :
                \/ mem'[q] = mem[q]
                \/ mem'[q] = [uid |-> v, ver |-> d.ver, ps |-> d.ps, parts |-> NoParts]
    PROVE  OnePlan' /\ CheckpointBehindServer'
<1>1. stored' = stored /\ status[v] = "none" /\ v \in Nat
  BY DEF Opens, UploadIds
<1>2. \A u \in UploadIds : status'[u] = IF u = v THEN "open" ELSE status[u]
  BY DEF Opens, TypeInv, TypeOK
<1>3. CheckpointBehindServer'
  BY <1>1, SMT DEF CheckpointBehindServer, PartsOf, NoParts
<1>4. Unreferenced(v)
  BY <1>1 DEF OnePlan
<1>5. UsesPlan(v, d)'
  <2>1. \A q \in Procs : Agrees(mem[q], v, d)'
    BY <1>4 DEF Unreferenced, Agrees, Cut, NoParts
  <2>. QED
    BY <1>1, <1>4, <2>1 DEF Unreferenced, UsesPlan, Agrees, Cut, NoParts
<1>6. ASSUME NEW u \in UploadIds, u # v, Unreferenced(u)
      PROVE  Unreferenced(u)'
  BY <1>1, <1>6 DEF Unreferenced
<1>7. ASSUME NEW u \in UploadIds, u # v, NEW c \in Plans, UsesPlan(u, c)
      PROVE  UsesPlan(u, c)'
  <2>1. \A q \in Procs : Agrees(mem[q], u, c)'
    BY <1>7 DEF UsesPlan, Agrees, Cut
  <2>. QED
    BY <1>1, <1>7, <2>1 DEF UsesPlan, Agrees, Cut
<1>. QED
  BY <1>2, <1>3, <1>5, <1>6, <1>7 DEF OnePlan

LEMMA CreateCases ==
    ASSUME NEW p, CreateUpload(p)
    PROVE  /\ UNCHANGED <<file, disk, net, job, flight, held, counters>>
           /\ \/ UNCHANGED server /\ UNCHANGED mem
              \/ \E u \in UploadIds :
                    /\ Opens(u)
                    /\ \/ mem' = [mem EXCEPT ![p] = [uid |-> u, ver |-> job[p].ver,
                                                    ps |-> job[p].ps, parts |-> NoParts]]
                       \/ mem' = mem
  BY DEF CreateUpload

LEMMA FreshIntegrity ==
    ASSUME IntegrityInv, NEW p \in Procs,
           CreateUpload(p) \/ SaveFirst(p) \/ AbortUnsaved(p)
    PROVE  IntegrityInv'
<1>. USE DEF disk, server, Goto, End, Mishap, Calm, blame, SetFlight
<1>0. TypeInv /\ OnePlan /\ CheckpointBehindServer /\ RunInv /\ RunOf(p)
  BY DEF IntegrityInv, RunInv
<1>1. TypeInv'
  BY <1>0, FreshType
<1>2. CASE CreateUpload(p)
  <2>. DEFINE d == [ver |-> job[p].ver, ps |-> job[p].ps]
              born(u) == [uid |-> u, ver |-> job[p].ver, ps |-> job[p].ps, parts |-> NoParts]
  <2>0. pc[p] = "create" /\ d \in Plans
    BY <1>0, <1>2 DEF CreateUpload, RunOf
  <2>1. ASSUME NEW u \in UploadIds, Opens(u), mem' = [mem EXCEPT ![p] = born(u)] \/ mem' = mem
        PROVE  OnePlan' /\ CheckpointBehindServer'
    <3>1. \A q \in Procs :
            \/ mem'[q] = mem[q]
            \/ mem'[q] = [uid |-> u, ver |-> d.ver, ps |-> d.ps, parts |-> NoParts]
      BY <1>0, <2>1 DEF TypeInv, TypeOK
    <3>2. UNCHANGED <<ckpt, net>>
      BY <1>2 DEF CreateUpload
    <3>. HIDE DEF d
    <3>. QED
      BY <1>0, <2>0, <2>1, <3>1, <3>2, OpensKeeps
  <2>2. ASSUME UNCHANGED server, UNCHANGED mem
        PROVE  OnePlan' /\ CheckpointBehindServer'
    BY <1>0, <1>2, <2>2, References, CreateCases
  <2>3. \/ UNCHANGED server /\ UNCHANGED mem
        \/ \E u \in UploadIds : Opens(u) /\ (mem' = [mem EXCEPT ![p] = born(u)] \/ mem' = mem)
    BY <1>2, CreateCases
  <2>4. OnePlan' /\ CheckpointBehindServer' /\ stored' = stored /\ object' = object
    <3>1. ASSUME NEW u \in UploadIds, Opens(u)
          PROVE  stored' = stored /\ object' = object
      BY <3>1 DEF Opens
    <3>. HIDE DEF born
    <3>. QED
      BY <2>1, <2>2, <2>3, <3>1
  <2>5. RunOf(p)'
    <3>1. CASE pc' = [pc EXCEPT ![p] = "first"] /\ UNCHANGED outcome
      <4>1. mem'[p].ver = job[p].ver /\ mem'[p].ps = job[p].ps
        <5>1. PICK u \in UploadIds : mem' = [mem EXCEPT ![p] = born(u)]
          BY <1>0, <1>2, <3>1 DEF CreateUpload, TypeInv, TypeOK
        <5>. QED
          BY <1>0, <5>1 DEF TypeInv, TypeOK
      <4>. QED
        BY <1>0, <1>2, <2>0, <3>1, <4>1 DEF CreateUpload, RunOf, Uploading, TypeInv, TypeOK, ProcShape
    <3>2. CASE pc' = [pc EXCEPT ![p] = "exit"] /\ outcome' = [outcome EXCEPT ![p] = "failed"]
      BY <1>0, <1>2, <2>0, <3>2 DEF CreateUpload, RunOf, Uploading, TypeInv, TypeOK, ProcShape
    <3>. QED
      BY <1>2, <3>1, <3>2 DEF CreateUpload
  <2>6. /\ \A q \in Procs \ {p} : pc'[q] = pc[q] /\ mem'[q] = mem[q] /\ outcome'[q] = outcome[q]
        /\ pc'[p] # "delete" /\ outcome'[p] # "done"
    <3>1. \A q \in Procs \ {p} : mem'[q] = mem[q]
      BY <1>0, <2>3 DEF TypeInv, TypeOK
    <3>2. \/ pc' = [pc EXCEPT ![p] = "first"] /\ UNCHANGED outcome
          \/ pc' = [pc EXCEPT ![p] = "exit"] /\ outcome' = [outcome EXCEPT ![p] = "failed"]
      BY <1>2 DEF CreateUpload
    <3>. QED
      BY <1>0, <2>0, <3>1, <3>2 DEF TypeInv, TypeOK, RunOf
  <2>7. RunInv'
    BY <1>0, <1>2, <2>4, <2>5, <2>6, OthersKeep DEF CreateUpload, TypeInv, TypeOK
  <2>8. ObjectIntact' /\ SuccessMeansPublished'
    BY <1>0, <1>2, <2>4, <2>6, ObjectKeeps DEF IntegrityInv, CreateUpload
  <2>. QED
    BY <1>1, <2>4, <2>7, <2>8 DEF IntegrityInv
<1>3. CASE SaveFirst(p)
  <2>1. OnePlan' /\ CheckpointBehindServer'
    BY <1>0, <1>3, References DEF SaveFirst, saveCheckpoint
  <2>2. RunOf(p)'
    BY <1>0, <1>3 DEF SaveFirst, saveCheckpoint, RunOf, Uploading, TypeInv, TypeOK, ProcShape
  <2>3. RunInv'
    BY <1>0, <1>3, <2>2, OthersKeep DEF SaveFirst, saveCheckpoint, TypeInv, TypeOK
  <2>4. ObjectIntact' /\ SuccessMeansPublished'
    BY <1>0, <1>3, ObjectKeeps DEF IntegrityInv, SaveFirst, saveCheckpoint, TypeInv, TypeOK, RunOf
  <2>. QED
    BY <1>1, <2>1, <2>3, <2>4 DEF IntegrityInv
<1>4. CASE AbortUnsaved(p)
  <2>1. /\ stored' = stored
        /\ \A u \in UploadIds : status'[u] = "none" <=> status[u] = "none"
    BY <1>0, <1>4, AbortKeeps DEF AbortUnsaved, Abort, TypeInv
  <2>2. OnePlan' /\ CheckpointBehindServer'
    BY <1>0, <1>4, <2>1, References DEF AbortUnsaved
  <2>3. RunOf(p)'
    BY <1>0, <1>4, <2>1 DEF AbortUnsaved, RunOf, Uploading, TypeInv, TypeOK, ProcShape
  <2>4. RunInv'
    BY <1>0, <1>4, <2>1, <2>3, OthersKeep DEF AbortUnsaved, TypeInv, TypeOK
  <2>5. ObjectIntact' /\ SuccessMeansPublished'
    BY <1>0, <1>4, ObjectKeeps DEF IntegrityInv, AbortUnsaved, Abort, TypeInv, TypeOK, RunOf
  <2>. QED
    BY <1>1, <2>2, <2>4, <2>5 DEF IntegrityInv
<1>. QED
  BY <1>2, <1>3, <1>4

\* The server replaces no part by another: both are the same slice.
LEMMA StoredKept ==
    ASSUME TypeInv, OnePlan, NEW r \in net, ServerPut(r),
           NEW u \in UploadIds, NEW n \in PartNo, stored[u][n] # None
    PROVE  stored'[u][n] = stored[u][n]
<1>1. r \in Puts
  BY DEF TypeInv, TypeOK
<1>2. CASE u = r.uid /\ n = r.n /\ status[u] = "open"
  <2>1. PICK c \in Plans : UsesPlan(u, c)
    BY <1>2 DEF OnePlan
  <2>2. stored[u][n] = Slice(c.ver, n, c.ps) /\ r.data = Slice(c.ver, n, c.ps)
    BY <1>2, <2>1 DEF UsesPlan, Cut
  <2>3. stored'[u][n] = r.data
    BY <1>1, <1>2 DEF ServerPut, TypeInv, TypeOK, PartMaps
  <2>. QED
    BY <2>2, <2>3
<1>3. CASE ~ (u = r.uid /\ n = r.n /\ status[u] = "open")
  BY <1>1, <1>3 DEF ServerPut, TypeInv, TypeOK, PartMaps
<1>. QED
  BY <1>2, <1>3

LEMMA DeliverIntegrity ==
    ASSUME IntegrityInv, NEW r \in net, ServerPut(r)
    PROVE  IntegrityInv'
<1>0. TypeInv /\ OnePlan /\ CheckpointBehindServer /\ RunInv
  BY DEF IntegrityInv
<1>1. TypeInv'
  BY <1>0, WorldType DEF Deliver
<1>2. r \in Puts
  BY <1>0 DEF TypeInv, TypeOK
<1>3. \A u \in UploadIds : \A n \in PartNo :
        stored[u][n] # None => stored'[u][n] = stored[u][n]
  BY <1>0, StoredKept
<1>4. CheckpointBehindServer'
  <2>1. ASSUME NEW k \in Checkpoints, NEW n \in PartsOf(k.parts), stored[k.uid][n] = k.parts[n]
        PROVE  stored'[k.uid][n] = k.parts[n]
    BY <1>3, <2>1 DEF Checkpoints, PartsOf
  <2>. QED
    BY <1>0, <2>1 DEF CheckpointBehindServer, ServerPut, disk, TypeInv, TypeOK
<1>5. ASSUME NEW u \in UploadIds, Unreferenced(u)
      PROVE  Unreferenced(u)'
  <2>1. r.uid # u
    BY <1>5 DEF Unreferenced
  <2>2. stored'[u] = stored[u]
    BY <1>0, <1>2, <2>1 DEF ServerPut, TypeInv, TypeOK
  <2>. QED
    BY <1>5, <2>2 DEF ServerPut, Unreferenced, disk
<1>6. ASSUME NEW u \in UploadIds, NEW c \in Plans, UsesPlan(u, c)
      PROVE  UsesPlan(u, c)'
  <2>1. Cut(stored'[u], c)
    <3>1. CASE u = r.uid /\ status[u] = "open"
      <4>1. stored'[u] = [stored[u] EXCEPT ![r.n] = r.data]
        BY <1>0, <1>2, <3>1 DEF ServerPut, TypeInv, TypeOK
      <4>2. r.n \in Counted(c) /\ r.data = Slice(c.ver, r.n, c.ps)
        BY <1>6, <3>1 DEF UsesPlan
      <4>. QED
        BY <1>0, <1>2, <1>6, <4>1, <4>2 DEF UsesPlan, Cut, TypeInv, TypeOK, PartMaps, Puts
    <3>2. CASE ~ (u = r.uid /\ status[u] = "open")
      <4>1. stored'[u] = stored[u]
        BY <1>0, <1>2, <3>2 DEF ServerPut, TypeInv, TypeOK
      <4>. QED
        BY <1>6, <4>1 DEF UsesPlan
    <3>. QED
      BY <3>1, <3>2
  <2>. QED
    BY <1>6, <2>1 DEF ServerPut, UsesPlan, Agrees, Cut, disk
<1>7. OnePlan'
  BY <1>0, <1>5, <1>6 DEF ServerPut, OnePlan
<1>8. RunInv'
  <2>. SUFFICES ASSUME NEW q \in Procs
                PROVE  RunOf(q)'
    BY DEF RunInv
  <2>1. RunOf(q)
    BY <1>0 DEF RunInv
  <2>2. ASSUME NEW n \in PartNo, flight'[q][n] = "acked"
        PROVE  stored'[mem'[q].uid][n] = Put(q, n)'.data
    <3>1. /\ flight[q][n] = "acked" /\ pc[q] = "pool" /\ n \in 1 .. total(q)
          /\ mem[q] \in Checkpoints
      BY <1>0, <2>2 DEF ServerPut, TypeInv, TypeOK, ProcShape, InHand
    <3>2. stored[mem[q].uid][n] = Put(q, n).data
      BY <2>1, <3>1 DEF RunOf
    <3>3. Put(q, n) \in Puts
      BY <1>0, <3>1, PutType
    <3>4. Put(q, n).data # None /\ mem[q].uid \in UploadIds
      BY <3>1, <3>3, NoneIsNothing DEF Puts, Checkpoints
    <3>. QED
      BY <1>3, <3>2, <3>4 DEF ServerPut, Put
  <2>. QED
    BY <2>1, <2>2 DEF ServerPut, RunOf, Missing, total
<1>9. ObjectIntact' /\ SuccessMeansPublished'
  BY ObjectKeeps DEF IntegrityInv, ServerPut
<1>. QED
  BY <1>1, <1>4, <1>7, <1>8, <1>9 DEF IntegrityInv

LEMMA SendIntegrity ==
    ASSUME IntegrityInv, NEW p \in Procs, NEW n \in PartNo, uploadOnePart(p, n)
    PROVE  IntegrityInv'
<1>. USE DEF SetFlight
<1>0. TypeInv /\ OnePlan /\ CheckpointBehindServer /\ RunInv /\ RunOf(p)
  BY DEF IntegrityInv, RunInv
<1>1. TypeInv'
  BY <1>0, PoolType DEF PoolStep
<1>2. pc[p] = "pool" /\ n \in 1 .. total(p) /\ mem[p] # None
  BY <1>0 DEF uploadOnePart, Missing, TypeInv, ProcShape, InHand
<1>3. CheckpointBehindServer'
  BY <1>0 DEF uploadOnePart, CheckpointBehindServer, disk, server
<1>4. ASSUME NEW u \in UploadIds, Unreferenced(u)
      PROVE  Unreferenced(u)'
  <2>1. Put(p, n).uid # u
    BY <1>2, <1>4 DEF Unreferenced, Put
  <2>. QED
    BY <1>4, <2>1 DEF uploadOnePart, Unreferenced, disk, server
<1>5. ASSUME NEW u \in UploadIds, NEW c \in Plans, UsesPlan(u, c)
      PROVE  UsesPlan(u, c)'
  <2>1. ASSUME Put(p, n).uid = u
        PROVE  Put(p, n).n \in Counted(c) /\ Put(p, n).data = Slice(c.ver, Put(p, n).n, c.ps)
    <3>1. mem[p].uid = u
      BY <2>1 DEF Put
    <3>2. job[p].ver = c.ver /\ job[p].ps = c.ps
      BY <1>0, <1>2, <1>5, <3>1 DEF UsesPlan, Agrees, RunOf, Uploading
    <3>. QED
      BY <1>2, <3>2 DEF Put, Counted, total
  <2>2. \A r \in net' : r.uid = u => r.n \in Counted(c) /\ r.data = Slice(c.ver, r.n, c.ps)
    BY <1>5, <2>1 DEF uploadOnePart, UsesPlan
  <2>. QED
    BY <1>5, <2>2 DEF uploadOnePart, UsesPlan, Agrees, Cut, disk, server
<1>6. OnePlan'
  BY <1>0, <1>4, <1>5 DEF uploadOnePart, OnePlan, server
<1>7. RunOf(p)'
  BY <1>0, <1>2 DEF uploadOnePart, RunOf, Uploading, Put, TypeInv, TypeOK, server
<1>8. RunInv'
  BY <1>0, <1>7, OthersKeep DEF uploadOnePart, TypeInv, TypeOK, server
<1>9. ObjectIntact' /\ SuccessMeansPublished'
  BY ObjectKeeps DEF IntegrityInv, uploadOnePart, server
<1>. QED
  BY <1>1, <1>3, <1>6, <1>8, <1>9 DEF IntegrityInv

LEMMA RecordIntegrity ==
    ASSUME IntegrityInv, NEW p \in Procs, NEW n \in PartNo, appendPart(p, n)
    PROVE  IntegrityInv'
<1>. USE DEF SetFlight
<1>. DEFINE data == Put(p, n).data
            k == WithParts(mem[p], [mem[p].parts EXCEPT ![n] = data])
<1>0. TypeInv /\ OnePlan /\ CheckpointBehindServer /\ RunInv /\ RunOf(p)
  BY DEF IntegrityInv, RunInv
<1>1. TypeInv'
  BY <1>0, PoolType DEF PoolStep
<1>2. /\ pc[p] = "pool" /\ flight[p][n] = "acked" /\ n \in 1 .. total(p)
      /\ mem[p] # None /\ mem[p] \in Checkpoints
  BY <1>0 DEF appendPart, TypeInv, TypeOK, ProcShape, InHand
<1>3. /\ stored[mem[p].uid][n] = data /\ data = Slice(job[p].ver, n, job[p].ps)
      /\ mem[p].ver = job[p].ver /\ mem[p].ps = job[p].ps
  BY <1>0, <1>2 DEF RunOf, Uploading, Put
<1>4. mem' = [mem EXCEPT ![p] = k] /\ (ckpt' = k \/ ckpt' = ckpt)
  <2>1. mem' = [mem EXCEPT ![p] = k]
    BY DEF appendPart
  <2>2. mem'[p] = k
    BY <1>0, <2>1 DEF TypeInv, TypeOK
  <2>. QED
    BY <2>1, <2>2 DEF appendPart, saveCheckpoint, disk
<1>5. /\ k.uid = mem[p].uid /\ k.ver = mem[p].ver /\ k.ps = mem[p].ps
      /\ \A i \in PartNo : k.parts[i] = IF i = n THEN data ELSE mem[p].parts[i]
  BY <1>2 DEF WithParts, Checkpoints, PartMaps
<1>6. k # None
  <2>1. mem'[p] = k /\ pc' = pc
    BY <1>0, <1>4 DEF appendPart, TypeInv, TypeOK
  <2>. QED
    BY <1>1, <1>2, <2>1 DEF TypeInv, ProcShape, InHand
<1>. HIDE DEF k, data
<1>7. \A i \in PartsOf(k.parts) : stored[k.uid][i] = k.parts[i]
  BY <1>0, <1>2, <1>3, <1>5 DEF CheckpointBehindServer, PartsOf
<1>8. \A q \in Procs : mem'[q] = k \/ mem'[q] = mem[q]
  BY <1>0, <1>4 DEF TypeInv, TypeOK
<1>9. CheckpointBehindServer'
  BY <1>0, <1>4, <1>7, <1>8 DEF appendPart, CheckpointBehindServer, server
<1>10. ASSUME NEW u \in UploadIds, Unreferenced(u)
       PROVE  Unreferenced(u)'
  <2>1. k.uid # u
    BY <1>2, <1>5, <1>10 DEF Unreferenced
  <2>. QED
    BY <1>4, <1>8, <1>10, <2>1 DEF appendPart, Unreferenced, server
<1>11. ASSUME NEW u \in UploadIds, NEW c \in Plans, UsesPlan(u, c)
       PROVE  UsesPlan(u, c)'
  <2>1. Agrees(k, u, c)
    <3>. SUFFICES ASSUME k.uid = u
                  PROVE  k.ver = c.ver /\ k.ps = c.ps /\ Cut(k.parts, c)
      BY DEF Agrees
    <3>1. mem[p].ver = c.ver /\ mem[p].ps = c.ps /\ Cut(mem[p].parts, c)
      BY <1>2, <1>5, <1>11 DEF UsesPlan, Agrees
    <3>2. n \in Counted(c) /\ data = Slice(c.ver, n, c.ps)
      BY <1>2, <1>3, <3>1 DEF Counted, total
    <3>. QED
      BY <1>5, <3>1, <3>2 DEF Cut
  <2>2. \A q \in Procs : Agrees(mem'[q], u, c)
    BY <1>8, <1>11, <2>1 DEF UsesPlan
  <2>3. Agrees(ckpt', u, c)
    BY <1>4, <1>11, <2>1 DEF UsesPlan
  <2>. QED
    BY <1>11, <2>2, <2>3 DEF appendPart, UsesPlan, Cut, Agrees, server
<1>12. OnePlan'
  BY <1>0, <1>10, <1>11 DEF appendPart, OnePlan, server
<1>13. /\ stored' = stored /\ object' = object /\ UNCHANGED <<file, job, pc>>
       /\ outcome' = outcome \/ outcome' = [outcome EXCEPT ![p] = "failed"]
       /\ flight' = [flight EXCEPT ![p][n] = "quiet"]
  BY DEF appendPart, server
<1>14. mem'[p] = k
  BY <1>0, <1>4 DEF TypeInv, TypeOK
<1>15. RunOf(p)'
  <2>1. mem'[p].uid = mem[p].uid /\ mem'[p].ver = job'[p].ver /\ mem'[p].ps = job'[p].ps
    BY <1>3, <1>5, <1>13, <1>14
  <2>2. \A i \in PartNo : flight'[p][i] = "acked" =>
            flight[p][i] = "acked" /\ Put(p, i)' = Put(p, i)
    BY <1>0, <1>13, <2>1 DEF Put, TypeInv, TypeOK
  <2>. QED
    BY <1>0, <1>2, <1>13, <2>1, <2>2 DEF RunOf, Uploading, Put, TypeInv, TypeOK
<1>16. RunInv'
  BY <1>0, <1>4, <1>13, <1>15, OthersKeep DEF TypeInv, TypeOK
<1>17. ObjectIntact' /\ SuccessMeansPublished'
  BY <1>0, <1>13, ObjectKeeps DEF IntegrityInv, TypeInv, TypeOK
<1>. QED
  BY <1>1, <1>9, <1>12, <1>16, <1>17 DEF IntegrityInv

LEMMA PoolIntegrity ==
    ASSUME IntegrityInv, NEW p \in Procs, PoolStep(p)
    PROVE  IntegrityInv'
<1>. USE DEF disk, server, Goto, End, Mishap, Calm, blame, SetFlight
<1>0. TypeInv /\ OnePlan /\ CheckpointBehindServer /\ RunInv /\ RunOf(p)
  BY DEF IntegrityInv, RunInv
<1>1. TypeInv'
  BY <1>0, PoolType
<1>2. ASSUME NEW n \in PartNo, Answer(p, n)
      PROVE  IntegrityInv'
  <2>1. OnePlan' /\ CheckpointBehindServer'
    BY <1>0, <1>2, References DEF Answer
  <2>2. RunOf(p)'
    BY <1>0, <1>2 DEF Answer, Verdict, RunOf, Uploading, Put, total, TypeInv, TypeOK, ProcShape
  <2>3. RunInv'
    BY <1>0, <1>2, <2>2, OthersKeep DEF Answer, TypeInv, TypeOK
  <2>4. ObjectIntact' /\ SuccessMeansPublished'
    BY <1>0, <1>2, ObjectKeeps DEF IntegrityInv, Answer, TypeInv, TypeOK, RunOf
  <2>. QED
    BY <1>1, <2>1, <2>3, <2>4 DEF IntegrityInv
<1>3. ASSUME NEW n \in PartNo, CallFails(p, n)
      PROVE  IntegrityInv'
  <2>1. OnePlan' /\ CheckpointBehindServer'
    BY <1>0, <1>3, References DEF CallFails
  <2>2. RunOf(p)'
    BY <1>0, <1>3 DEF CallFails, RunOf, Uploading, Put, total, TypeInv, TypeOK, ProcShape
  <2>3. RunInv'
    BY <1>0, <1>3, <2>2, OthersKeep DEF CallFails, TypeInv, TypeOK
  <2>4. ObjectIntact' /\ SuccessMeansPublished'
    BY <1>0, <1>3, ObjectKeeps DEF IntegrityInv, CallFails, TypeInv, TypeOK, RunOf
  <2>. QED
    BY <1>1, <2>1, <2>3, <2>4 DEF IntegrityInv
<1>4. ASSUME NEW n \in PartNo, CollectError(p, n)
      PROVE  IntegrityInv'
  <2>1. OnePlan' /\ CheckpointBehindServer'
    BY <1>0, <1>4, References DEF CollectError
  <2>2. RunOf(p)'
    BY <1>0, <1>4 DEF CollectError, RunOf, Uploading, Put, total, TypeInv, TypeOK, ProcShape
  <2>3. RunInv'
    BY <1>0, <1>4, <2>2, OthersKeep DEF CollectError, TypeInv, TypeOK
  <2>4. ObjectIntact' /\ SuccessMeansPublished'
    BY <1>0, <1>4, ObjectKeeps DEF IntegrityInv, CollectError, TypeInv, TypeOK, RunOf
  <2>. QED
    BY <1>1, <2>1, <2>3, <2>4 DEF IntegrityInv
<1>5. ASSUME NEW n \in PartNo, GiveUp(p, n)
      PROVE  IntegrityInv'
  <2>1. OnePlan' /\ CheckpointBehindServer'
    BY <1>0, <1>5, References DEF GiveUp
  <2>2. RunOf(p)'
    BY <1>0, <1>5 DEF GiveUp, RunOf, Uploading, Put, total, TypeInv, TypeOK, ProcShape
  <2>3. RunInv'
    BY <1>0, <1>5, <2>2, OthersKeep DEF GiveUp, TypeInv, TypeOK
  <2>4. ObjectIntact' /\ SuccessMeansPublished'
    BY <1>0, <1>5, ObjectKeeps DEF IntegrityInv, GiveUp, TypeInv, TypeOK, RunOf
  <2>. QED
    BY <1>1, <2>1, <2>3, <2>4 DEF IntegrityInv
<1>6. CASE uploadMissingParts(p)
  <2>1. OnePlan' /\ CheckpointBehindServer'
    BY <1>0, <1>6, References DEF uploadMissingParts, Busy, Missing, total
  <2>2. RunOf(p)'
    BY <1>0, <1>6 DEF uploadMissingParts, Busy, Missing, total, RunOf, Uploading, TypeInv, TypeOK, ProcShape
  <2>3. RunInv'
    BY <1>0, <1>6, <2>2, OthersKeep DEF uploadMissingParts, Busy, Missing, total, TypeInv, TypeOK
  <2>4. ObjectIntact' /\ SuccessMeansPublished'
    BY <1>0, <1>6, ObjectKeeps DEF IntegrityInv, uploadMissingParts, Busy, Missing, total, TypeInv, TypeOK, RunOf
  <2>. QED
    BY <1>1, <2>1, <2>3, <2>4 DEF IntegrityInv
<1>. QED
  BY <1>2, <1>3, <1>4, <1>5, <1>6, SendIntegrity, RecordIntegrity DEF PoolStep

\* With every part of its cut, a checkpoint in memory is the whole file.
LEMMA MemoryTiles ==
    ASSUME IntegrityInv, NEW p \in Procs, pc[p] = "complete"
    PROVE  Tiles(mem[p].parts, file)
<1>0. TypeInv /\ OnePlan /\ RunOf(p)
  BY DEF IntegrityInv, RunInv
<1>1. mem[p] # None /\ mem[p] \in Checkpoints /\ mem[p].parts \in PartMaps /\ mem[p].uid \in UploadIds
  BY <1>0 DEF TypeInv, TypeOK, ProcShape, InHand, Checkpoints
<1>2. ~ Unreferenced(mem[p].uid)
  BY <1>1 DEF Unreferenced
<1>3. PICK c \in Plans : UsesPlan(mem[p].uid, c)
  BY <1>0, <1>1, <1>2 DEF OnePlan
<1>4. Cut(mem[p].parts, c) /\ c.ver = job[p].ver /\ c.ps = job[p].ps /\ job[p].ver = file
  BY <1>0, <1>1, <1>3 DEF UsesPlan, Agrees, RunOf, Uploading
<1>5. \A n \in Counted(c) : mem[p].parts[n] # None
  BY <1>0, <1>4 DEF RunOf, Missing, total, Counted
<1>. QED
  BY <1>1, <1>4, <1>5, CutTiles

LEMMA FinishIntegrity ==
    ASSUME IntegrityInv, NEW p \in Procs, completeUpload(p) \/ deleteCheckpoint(p)
    PROVE  IntegrityInv'
<1>. USE DEF disk, server, Goto, End, Mishap, Calm, blame, SetFlight
<1>0. TypeInv /\ OnePlan /\ CheckpointBehindServer /\ RunInv /\ RunOf(p)
  BY DEF IntegrityInv, RunInv
<1>1. TypeInv'
  BY <1>0, FinishType
<1>2. CASE completeUpload(p)
  <2>1. /\ pc[p] = "complete"
        /\ UNCHANGED <<file, disk, net, job, mem, flight, held, counters>>
        /\ Publish(mem[p].uid, mem[p].parts) \/ UNCHANGED server
        /\ \/ pc' = [pc EXCEPT ![p] = "delete"] /\ UNCHANGED outcome
              /\ Publish(mem[p].uid, mem[p].parts)
           \/ pc' = [pc EXCEPT ![p] = "exit"] /\ outcome' = [outcome EXCEPT ![p] = "failed"]
    BY <1>2 DEF completeUpload
  <2>2. stored' = stored /\ \A u \in UploadIds : status'[u] = "none" <=> status[u] = "none"
    BY <1>0, <2>1 DEF Publish, Accepts, TypeInv, TypeOK
  <2>3. OnePlan' /\ CheckpointBehindServer'
    BY <1>0, <2>1, <2>2, References
  <2>4. RunOf(p)'
    BY <1>0, <2>1, <2>2 DEF RunOf, Uploading, Put, total, TypeInv, TypeOK, ProcShape
  <2>5. RunInv'
    BY <1>0, <2>1, <2>2, <2>4, OthersKeep DEF TypeInv, TypeOK
  <2>6. file \in Versions /\ Tiles(mem[p].parts, file)
    BY <1>0, <2>1, MemoryTiles DEF TypeInv, TypeOK
  <2>7. CASE Publish(mem[p].uid, mem[p].parts)
    <3>1. object' = mem[p].parts
      BY <2>7 DEF Publish
    <3>2. Tiles(object', file)
      BY <2>6, <3>1
    <3>3. ObjectIntact'
      BY <2>6, <3>2 DEF ObjectIntact, Tiles, PartsOf
    <3>4. ASSUME NEW q \in Procs, pc'[q] = "delete" \/ outcome'[q] = "done"
          PROVE  job'[q].ver = file
      BY <1>0, <2>1, <3>4 DEF RunInv, RunOf, TypeInv, TypeOK
    <3>5. SuccessMeansPublished'
      BY <3>2, <3>4 DEF SuccessMeansPublished, Tiles, PartsOf
    <3>. QED
      BY <1>1, <2>3, <2>5, <3>3, <3>5 DEF IntegrityInv
  <2>8. CASE UNCHANGED server /\ ~ Publish(mem[p].uid, mem[p].parts)
    <3>1. ObjectIntact' /\ SuccessMeansPublished'
      BY <1>0, <2>1, <2>8, ObjectKeeps DEF IntegrityInv, RunOf, TypeInv, TypeOK
    <3>. QED
      BY <1>1, <2>3, <2>5, <3>1 DEF IntegrityInv
  <2>. QED
    BY <2>1, <2>7, <2>8
<1>3. CASE deleteCheckpoint(p)
  <2>1. OnePlan' /\ CheckpointBehindServer'
    BY <1>0, <1>3, References DEF deleteCheckpoint, removeCheckpoint, saveCheckpoint
  <2>2. RunOf(p)'
    BY <1>0, <1>3 DEF deleteCheckpoint, removeCheckpoint, saveCheckpoint, RunOf, Uploading, TypeInv, TypeOK, ProcShape
  <2>3. RunInv'
    BY <1>0, <1>3, <2>2, OthersKeep DEF deleteCheckpoint, removeCheckpoint, saveCheckpoint, TypeInv, TypeOK
  <2>4. ObjectIntact' /\ SuccessMeansPublished'
    BY <1>0, <1>3, ObjectKeeps DEF IntegrityInv, deleteCheckpoint, removeCheckpoint, saveCheckpoint, TypeInv, TypeOK, RunOf
  <2>. QED
    BY <1>1, <2>1, <2>3, <2>4 DEF IntegrityInv
<1>. QED
  BY <1>2, <1>3

LEMMA WorldIntegrity ==
    ASSUME IntegrityInv,
           \/ EditFile \/ Age \/ UNCHANGED vars
           \/ \E p \in Procs : Crash(p)
           \/ \E u \in UploadIds : OutsideAbort(u)
    PROVE  IntegrityInv'
<1>. USE DEF disk, server, Goto, blame, counters
<1>0. TypeInv /\ OnePlan /\ CheckpointBehindServer /\ RunInv
  BY DEF IntegrityInv
<1>1. TypeInv'
  BY <1>0, WorldType
<1>2. CASE EditFile
  <2>1. OnePlan' /\ CheckpointBehindServer'
    BY <1>0, <1>2, References DEF EditFile
  <2>2. RunInv'
    BY <1>0, <1>2 DEF EditFile, RunInv, RunOf, Uploading, Missing, total, Put
  <2>3. ObjectIntact' /\ SuccessMeansPublished'
    BY <1>2, ObjectKeeps DEF IntegrityInv, EditFile
  <2>. QED
    BY <1>1, <2>1, <2>2, <2>3 DEF IntegrityInv
<1>3. CASE Age
  <2>1. OnePlan' /\ CheckpointBehindServer'
    BY <1>0, <1>3, References DEF Age
  <2>2. RunInv'
    BY <1>0, <1>3 DEF Age, RunInv, RunOf, Missing, total, Put
  <2>3. ObjectIntact' /\ SuccessMeansPublished'
    BY <1>3, ObjectKeeps DEF IntegrityInv, Age
  <2>. QED
    BY <1>1, <2>1, <2>2, <2>3 DEF IntegrityInv
<1>4. CASE UNCHANGED vars
  <2>1. OnePlan' /\ CheckpointBehindServer'
    BY <1>0, <1>4, References DEF vars
  <2>2. RunInv'
    BY <1>0, <1>4 DEF vars, RunInv, RunOf, Missing, total, Put
  <2>3. ObjectIntact' /\ SuccessMeansPublished'
    BY <1>4, ObjectKeeps DEF IntegrityInv, vars
  <2>. QED
    BY <1>1, <2>1, <2>2, <2>3 DEF IntegrityInv
<1>5. ASSUME NEW p \in Procs, Crash(p)
      PROVE  IntegrityInv'
  <2>1. OnePlan' /\ CheckpointBehindServer'
    BY <1>0, <1>5, References DEF Crash, TypeInv, TypeOK
  <2>2. RunOf(p)'
    BY <1>0, <1>5 DEF Crash, RunOf, Uploading, AllQuiet, TypeInv, TypeOK
  <2>3. RunInv'
    BY <1>0, <1>5, <2>2, OthersKeep DEF Crash, TypeInv, TypeOK
  <2>4. ObjectIntact' /\ SuccessMeansPublished'
    BY <1>0, <1>5, ObjectKeeps DEF IntegrityInv, Crash, TypeInv, TypeOK
  <2>. QED
    BY <1>1, <2>1, <2>3, <2>4 DEF IntegrityInv
<1>6. ASSUME NEW v \in UploadIds, OutsideAbort(v)
      PROVE  IntegrityInv'
  <2>1. stored' = stored /\ object' = object
        /\ \A u \in UploadIds : status'[u] = "none" <=> status[u] = "none"
    BY <1>0, <1>6, AbortKeeps DEF OutsideAbort, Abort, TypeInv
  <2>2. UNCHANGED <<file, disk, net, pc, job, mem, flight, held, outcome>>
    BY <1>6 DEF OutsideAbort
  <2>3. OnePlan' /\ CheckpointBehindServer'
    BY <1>0, <2>1, <2>2, References
  <2>4. RunInv'
    BY <1>0, <2>1, <2>2 DEF RunInv, RunOf, Missing, total, Put
  <2>5. ObjectIntact' /\ SuccessMeansPublished'
    BY <2>1, <2>2, ObjectKeeps DEF IntegrityInv
  <2>. QED
    BY <1>1, <2>3, <2>4, <2>5 DEF IntegrityInv
<1>. QED
  BY <1>2, <1>3, <1>4, <1>5, <1>6

LEMMA IntegrityInit == Init => IntegrityInv
<1>. SUFFICES ASSUME Init
              PROVE  IntegrityInv
  OBVIOUS
<1>1. TypeInv
  BY TypeInvInit
<1>2. OnePlan
  BY NoneIsNothing DEF Init, OnePlan, Unreferenced
<1>3. RunInv
  BY DEF Init, RunInv, RunOf, Uploading, AllQuiet
<1>4. ObjectIntact /\ SuccessMeansPublished
  BY DEF Init, ObjectIntact, SuccessMeansPublished
<1>5. CheckpointBehindServer
  BY DEF Init, CheckpointBehindServer
<1>. QED
  BY <1>1, <1>2, <1>3, <1>4, <1>5 DEF IntegrityInv

LEMMA IntegrityStep ==
    ASSUME Entries = {"cp"}
    PROVE  IntegrityInv /\ [Next]_vars => IntegrityInv'
<1>. SUFFICES ASSUME IntegrityInv, [Next]_vars
              PROVE  IntegrityInv'
  OBVIOUS
<1>1. ASSUME NEW p \in Procs, RunStep(p)
      PROVE  IntegrityInv'
  BY <1>1, EntryIntegrity, LockIntegrity, ResolveIntegrity, ListIntegrity, FreshIntegrity,
     PoolIntegrity, FinishIntegrity DEF RunStep
<1>2. CASE Environment
  BY <1>2, EntryIntegrity, WorldIntegrity DEF Environment, Finished
<1>3. CASE Deliver
  BY <1>3, DeliverIntegrity DEF Deliver
<1>. QED
  BY <1>1, <1>2, <1>3, WorldIntegrity DEF Next

LEMMA IntegrityInvariant ==
    ASSUME Entries = {"cp"}
    PROVE  Spec => []IntegrityInv
  BY IntegrityInit, IntegrityStep, PTL DEF Spec

-----------------------------------------------------------------------------
\* What cp publishes is one version of the file, whole, whatever was interrupted,
\* resumed, edited or re-cut, and whether or not the lock kept processes apart.
THEOREM PublishedWhole ==
    ASSUME Entries = {"cp"}
    PROVE  Spec => []ObjectIntact
<1>1. IntegrityInv => ObjectIntact
  BY DEF IntegrityInv
<1>. QED
  BY <1>1, IntegrityInvariant, PTL

\* A run of cp that reports success has published the file it was given.
THEOREM SuccessIsTrue ==
    ASSUME Entries = {"cp"}
    PROVE  Spec => []SuccessMeansPublished
<1>1. IntegrityInv => SuccessMeansPublished
  BY DEF IntegrityInv
<1>. QED
  BY <1>1, IntegrityInvariant, PTL

\* No checkpoint of cp runs ahead of the server.
THEOREM CheckpointsTrail ==
    ASSUME Entries = {"cp"}
    PROVE  Spec => []CheckpointBehindServer
<1>1. IntegrityInv => CheckpointBehindServer
  BY DEF IntegrityInv
<1>. QED
  BY <1>1, IntegrityInvariant, PTL

\* No step of cp, of a crashed cp's late request or of the environment replaces a
\* part that the server holds.
THEOREM PartsNeverReplaced ==
    ASSUME Entries = {"cp"}
    PROVE  Spec => PartsImmutable
<1>. DEFINE Kept == \A u \in UploadIds : \A n \in PartNo :
                        stored[u][n] # None => stored'[u][n] = stored[u][n]
<1>1. IntegrityInv /\ [Next]_vars => [Kept]_vars
  <2>. SUFFICES ASSUME IntegrityInv, Next
                PROVE  Kept
    OBVIOUS
  <2>1. TypeInv /\ OnePlan
    BY DEF IntegrityInv
  <2>2. CASE Deliver
    BY <2>1, <2>2, StoredKept DEF Deliver
  <2>3. CASE Environment
    BY <2>3 DEF Environment, runUpload, resumeServerUpload, Crash, EditFile, OutsideAbort, Abort,
       Age, Finished, server, vars
  <2>4. ASSUME NEW p \in Procs, RunStep(p)
        PROVE  stored' = stored
    <3>1. CASE PoolStep(p)
      BY <3>1 DEF PoolStep, uploadOnePart, Answer, CallFails, appendPart, CollectError, GiveUp,
         uploadMissingParts, server
    <3>2. CASE ~ PoolStep(p)
      BY <2>4, <3>2 DEF RunStep, gcCheckpoints, SaveAdopted, acquireTransferLock, LocalFileFails,
         resolveUpload, AbortStale, Abort, listAllParts, ListFails, DropGone, SaveReconciled,
         CreateUpload, Opens, SaveFirst, AbortUnsaved, completeUpload, Publish, deleteCheckpoint,
         release, server
    <3>. QED
      BY <3>1, <3>2
  <2>. QED
    BY <2>2, <2>3, <2>4 DEF Next
<1>. QED
  BY <1>1, IntegrityInvariant, PTL DEF Spec, PartsImmutable

-----------------------------------------------------------------------------
(* While no checkpointMaxAge goes by, the flock of lock.go keeps the uploads *)
(* of one identity apart, whichever commands the processes run.             *)

\* A lock held is a lock on the file that the path names, and nobody shares it.
LockInv ==
    /\ ages = 0
    /\ "lock" \notin stale
    /\ \A p \in Procs : held[p] # 0 => held[p] = lockFile
    /\ TransferExclusive

\* Every step but the taking of a lock.
LEMMA LockKept ==
    ASSUME LockInv, ages' = ages, stale' \subseteq stale, lockFile' = lockFile,
           \A q \in Procs : held'[q] = held[q] \/ held'[q] = 0
    PROVE  LockInv'
  BY DEF LockInv, TransferExclusive

LEMMA LockTaken ==
    ASSUME TypeInv, LockInv, NEW p \in Procs, acquireTransferLock(p)
    PROVE  LockInv'
<1>1. OpenedLock \in Nat \ {0} /\ (lockFile # 0 => OpenedLock = lockFile)
  BY DEF OpenedLock, LockInv, TypeInv, TypeOK
<1>2. lockFile' = OpenedLock /\ ages' = ages /\ stale' = stale
  BY DEF acquireTransferLock, counters
<1>3. ASSUME NEW q \in Procs, held[q] # 0
      PROVE  held[q] = OpenedLock
  BY <1>1, <1>3 DEF LockInv
<1>4. CASE Locked
  BY <1>1, <1>2, <1>3, <1>4 DEF acquireTransferLock, LockInv, TransferExclusive, End, Goto
<1>5. CASE ~ Locked
  <2>1. \A q \in Procs : held[q] = 0
    BY <1>3, <1>5 DEF Locked
  <2>2. held' = [held EXCEPT ![p] = OpenedLock]
    BY <1>5 DEF acquireTransferLock
  <2>3. \A q \in Procs : held'[q] # 0 => q = p /\ held'[q] = OpenedLock
    BY <2>1, <2>2 DEF TypeInv, TypeOK
  <2>. QED
    BY <1>2, <2>3 DEF LockInv, TransferExclusive
<1>. QED
  BY <1>4, <1>5

LEMMA LockStep ==
    ASSUME MaxAges = 0, TypeInv, LockInv, [Next]_vars
    PROVE  LockInv'
<1>. USE DEF disk, counters, saveCheckpoint, removeCheckpoint
<1>1. ASSUME NEW p \in Procs, RunStep(p)
      PROVE  LockInv'
  <2>1. CASE acquireTransferLock(p)
    BY <2>1, LockTaken
  <2>2. CASE gcCheckpoints(p) \/ SaveAdopted(p) \/ LocalFileFails(p)
    BY <2>2, LockKept DEF gcCheckpoints, SaveAdopted, LocalFileFails, LockInv
  <2>3. CASE resolveUpload(p) \/ AbortStale(p) \/ listAllParts(p) \/ ListFails(p)
    BY <2>3, LockKept DEF resolveUpload, AbortStale, listAllParts, ListFails
  <2>4. CASE DropGone(p) \/ SaveReconciled(p) \/ CreateUpload(p) \/ SaveFirst(p) \/ AbortUnsaved(p)
    BY <2>4, LockKept DEF DropGone, SaveReconciled, CreateUpload, SaveFirst, AbortUnsaved
  <2>5. CASE PoolStep(p)
    <3>1. /\ ages' = ages /\ held' = held /\ lockFile' = lockFile /\ stale' \subseteq stale
      BY <2>5 DEF PoolStep, uploadOnePart, Answer, CallFails, appendPart, CollectError, GiveUp,
         uploadMissingParts
    <3>. QED
      BY <3>1, LockKept
  <2>6. CASE completeUpload(p) \/ deleteCheckpoint(p)
    BY <2>6, LockKept DEF completeUpload, deleteCheckpoint
  <2>7. CASE release(p)
    BY <2>7, LockKept DEF release, TypeInv, TypeOK
  <2>. QED
    BY <1>1, <2>1, <2>2, <2>3, <2>4, <2>5, <2>6, <2>7 DEF RunStep
<1>2. ASSUME NEW p \in Procs, runUpload(p) \/ resumeServerUpload(p) \/ Crash(p)
      PROVE  LockInv'
  <2>1. CASE Crash(p)
    BY <2>1, LockKept DEF Crash, TypeInv, TypeOK
  <2>2. CASE runUpload(p) \/ resumeServerUpload(p)
    BY <2>2, LockKept DEF runUpload, resumeServerUpload
  <2>. QED
    BY <1>2, <2>1, <2>2
<1>3. CASE EditFile \/ (\E u \in UploadIds : OutsideAbort(u)) \/ Deliver
  BY <1>3, LockKept DEF EditFile, OutsideAbort, Deliver, ServerPut
<1>4. ~ Age
  BY DEF Age, LockInv
<1>5. CASE UNCHANGED vars
  BY <1>5, LockKept DEF vars
<1>. QED
  BY <1>1, <1>2, <1>3, <1>4, <1>5 DEF Next, Environment, Finished

\* Where no lock file can reach its age, two processes never upload the same
\* identity at once.
LEMMA LockExcludes ==
    ASSUME MaxAges = 0
    PROVE  Spec => []TransferExclusive
<1>1. Init => LockInv
  BY DEF Init, LockInv, TransferExclusive
<1>2. TypeInv /\ LockInv /\ [Next]_vars => LockInv'
  BY LockStep
<1>3. LockInv => TransferExclusive
  BY DEF LockInv
<1>. QED
  BY <1>1, <1>2, <1>3, TypeInvariant, PTL DEF Spec

-----------------------------------------------------------------------------
(* While processes do not work on the identity at the same time, what       *)
(* happens to a run is its own doing.                                       *)

\* No lock expires, or there is nobody it could let in.
OneAtATime == MaxAges = 0 \/ \A p, q \in Procs : p = q

\* The steps between the taking of the lock and the return.
Working == {"resolve", "abort", "list", "save", "create", "first", "strand", "pool", "complete", "delete"}

\* What a run that nothing hit can rely on: its upload is open; a request that the
\* server has seen was taken in, and none failed; and before a fresh upload has a
\* checkpoint, the one it replaces is not open any more.
Spared(p) ==
    /\ pc[p] \in {"save", "first", "pool", "complete"} => status[mem[p].uid] = "open"
    /\ \A n \in PartNo :
        /\ flight[p][n] # "failed"
        /\ flight[p][n] = "sent" =>
            Put(p, n) \in net \/ stored[mem[p].uid][n] = Put(p, n).data
    /\ pc[p] \in {"create", "first"} /\ ckpt # None => status[ckpt.uid] # "open"

\* The checkpoint on disk is the one in memory, or behind it.
DiskBehind(p) ==
    /\ pc[p] = "abort" /\ ckpt # None => ckpt.uid = mem[p].uid
    /\ pc[p] = "pool" /\ ckpt # None /\ ckpt.uid = mem[p].uid =>
        PartsOf(ckpt.parts) \subseteq PartsOf(mem[p].parts)

CalmOf(p) ==
    /\ pc[p] \in Working => held[p] # 0
    /\ outcome[p] = "failed" \/ pc[p] = "strand" => excused[p]
    /\ ~ excused[p] => Spared(p)
    /\ DiskBehind(p)

CalmInv == \A p \in Procs : CalmOf(p)

\* Requests are out only in the pool, also after a step.
LEMMA QuietOutside ==
    ASSUME TypeInv', NEW p \in Procs, pc'[p] # "pool", NEW n \in PartNo
    PROVE  flight'[p][n] \notin {"sent", "failed"}
  BY DEF TypeInv, ProcShape

\* A step of p leaves the runs of the others alone, since p is the one at work, or
\* its step does not reach what they work on.
LEMMA CalmOthers ==
    ASSUME TypeInv, TypeInv', CalmInv, TransferExclusive, NEW p \in Procs,
           held[p] # 0 \/ (UNCHANGED <<status, stored, net>> /\ ckpt' \in {ckpt, None}),
           \A q \in Procs \ {p} :
                /\ pc'[q] = pc[q] /\ job'[q] = job[q] /\ mem'[q] = mem[q] /\ flight'[q] = flight[q]
                /\ outcome'[q] = outcome[q] /\ held'[q] = held[q] /\ excused'[q] = excused[q],
           CalmOf(p)'
    PROVE  CalmInv'
<1>. SUFFICES ASSUME NEW q \in Procs \ {p}
              PROVE  CalmOf(q)'
  BY DEF CalmInv
<1>1. CalmOf(q)
  BY DEF CalmInv
<1>2. CASE held[p] # 0
  <2>1. pc[q] \notin Working
    BY <1>1, <1>2 DEF CalmOf, TransferExclusive
  <2>2. \A n \in PartNo : flight'[q][n] \notin {"sent", "failed"}
    BY <2>1, QuietOutside DEF Working
  <2>3. Spared(q)' /\ DiskBehind(q)'
    BY <2>1, <2>2 DEF Working, Spared, DiskBehind
  <2>. QED
    BY <1>1, <2>1, <2>3 DEF CalmOf
<1>3. CASE UNCHANGED <<status, stored, net>> /\ ckpt' \in {ckpt, None}
  <2>1. Spared(q) => Spared(q)'
    BY <1>3 DEF Spared, Put
  <2>2. DiskBehind(q) => DiskBehind(q)'
    BY <1>3 DEF DiskBehind, PartsOf
  <2>. QED
    BY <1>1, <2>1, <2>2 DEF CalmOf
<1>. QED
  BY <1>2, <1>3

\* The steps before and after the work, and a failure that has its excuse.
LEMMA CalmOutside ==
    ASSUME TypeInv, TypeInv', CalmInv, TransferExclusive, RunInv, NEW p \in Procs,
           \/ runUpload(p) \/ gcCheckpoints(p) \/ acquireTransferLock(p) \/ LocalFileFails(p)
           \/ release(p) \/ Crash(p)
    PROVE  CalmInv'
<1>0. TypeOK /\ CalmOf(p) /\ RunOf(p)
  BY DEF TypeInv, CalmInv, RunInv
<1>. USE DEF Goto, End, Mishap, disk, server, counters, blame
<1>1. \A q \in Procs \ {p} :
        /\ pc'[q] = pc[q] /\ job'[q] = job[q] /\ mem'[q] = mem[q] /\ flight'[q] = flight[q]
        /\ outcome'[q] = outcome[q] /\ held'[q] = held[q] /\ excused'[q] = excused[q]
  BY <1>0 DEF TypeOK, runUpload, gcCheckpoints, acquireTransferLock, LocalFileFails, release, Crash
<1>2. UNCHANGED <<status, stored, net>> /\ ckpt' \in {ckpt, None}
  BY DEF runUpload, gcCheckpoints, acquireTransferLock, LocalFileFails, release, Crash
<1>3. /\ pc'[p] \in {"idle", "gc", "lock", "exit", "resolve"}
      /\ pc'[p] = "resolve" => acquireTransferLock(p) /\ ~ Locked
      /\ outcome'[p] = "failed" => excused'[p]
  <2>1. CASE runUpload(p)
    BY <1>0, <2>1 DEF TypeOK, runUpload, RunOf
  <2>2. CASE gcCheckpoints(p)
    BY <1>0, <2>2 DEF TypeOK, gcCheckpoints, CalmOf
  <2>3. CASE acquireTransferLock(p)
    BY <1>0, <2>3 DEF TypeOK, acquireTransferLock, CalmOf
  <2>4. CASE LocalFileFails(p)
    BY <1>0, <2>4 DEF TypeOK, LocalFileFails
  <2>5. CASE release(p)
    BY <1>0, <2>5 DEF TypeOK, release
  <2>6. CASE Crash(p)
    BY <1>0, <2>6 DEF TypeOK, Crash
  <2>. QED
    BY <2>1, <2>2, <2>3, <2>4, <2>5, <2>6
<1>4. pc'[p] \in Working => held'[p] # 0
  <2>1. pc'[p] = "resolve" => held'[p] = OpenedLock
    BY <1>0, <1>3 DEF TypeOK, acquireTransferLock
  <2>2. OpenedLock # 0
    BY <1>0 DEF TypeOK, OpenedLock
  <2>. QED
    BY <1>3, <2>1, <2>2 DEF Working
<1>5. \A n \in PartNo : flight'[p][n] \notin {"sent", "failed"}
  BY <1>3, QuietOutside
<1>6. CalmOf(p)'
  BY <1>3, <1>4, <1>5 DEF CalmOf, Spared, DiskBehind
<1>. QED
  BY <1>1, <1>2, <1>6, CalmOthers

\* resolveUpload, until an upload is chosen.
LEMMA CalmResolve ==
    ASSUME TypeInv, TypeInv', CalmInv, TransferExclusive, RunInv, NEW p \in Procs,
           resolveUpload(p) \/ AbortStale(p) \/ listAllParts(p) \/ ListFails(p) \/ DropGone(p)
    PROVE  CalmInv'
<1>0. TypeOK /\ CalmOf(p) /\ RunOf(p) /\ pc[p] \in Working /\ held[p] # 0
  <2>1. pc[p] \in Working
    BY DEF resolveUpload, AbortStale, listAllParts, ListFails, DropGone, Working
  <2>. QED
    BY <2>1 DEF TypeInv, CalmInv, RunInv, CalmOf
<1>. USE DEF Goto, End, Mishap, Calm, disk, server, counters, blame, saveCheckpoint, removeCheckpoint
<1>1. \A q \in Procs \ {p} :
        /\ pc'[q] = pc[q] /\ job'[q] = job[q] /\ mem'[q] = mem[q] /\ flight'[q] = flight[q]
        /\ outcome'[q] = outcome[q] /\ held'[q] = held[q] /\ excused'[q] = excused[q]
  BY <1>0 DEF TypeOK, resolveUpload, AbortStale, listAllParts, ListFails, DropGone
<1>2. /\ pc'[p] \in {"list", "abort", "create", "save", "exit"} /\ held'[p] = held[p]
      /\ outcome'[p] = "failed" => excused'[p]
      /\ excused[p] => excused'[p]
  <2>1. CASE resolveUpload(p)
    BY <1>0, <2>1 DEF TypeOK, resolveUpload, CalmOf
  <2>2. CASE AbortStale(p)
    BY <1>0, <2>2 DEF TypeOK, AbortStale, CalmOf
  <2>3. CASE listAllParts(p)
    BY <1>0, <2>3 DEF TypeOK, listAllParts, CalmOf
  <2>4. CASE ListFails(p)
    BY <1>0, <2>4 DEF TypeOK, ListFails, CalmOf
  <2>5. CASE DropGone(p)
    BY <1>0, <2>5 DEF TypeOK, DropGone, CalmOf
  <2>. QED
    BY <2>1, <2>2, <2>3, <2>4, <2>5
<1>3. \A n \in PartNo : flight'[p][n] \notin {"sent", "failed"}
  BY <1>2, QuietOutside
<1>4. pc'[p] = "save" => status'[mem'[p].uid] = "open"
  <2>. SUFFICES ASSUME pc'[p] = "save"
                PROVE  status'[mem'[p].uid] = "open"
    OBVIOUS
  <2>1. listAllParts(p)
    BY <1>0 DEF TypeOK, resolveUpload, AbortStale, ListFails, DropGone
  <2>2. mem'[p] = WithParts(mem[p], stored[mem[p].uid]) /\ status' = status /\ status[mem[p].uid] = "open"
    BY <1>0, <2>1 DEF TypeOK, listAllParts
  <2>. QED
    BY <2>2 DEF WithParts
<1>5. pc'[p] = "create" /\ ckpt' # None /\ ~ excused'[p] => status'[ckpt'.uid] # "open"
  <2>. SUFFICES ASSUME pc'[p] = "create", ckpt' # None, ~ excused'[p]
                PROVE  status'[ckpt'.uid] # "open"
    OBVIOUS
  <2>1. CASE resolveUpload(p)
    BY <1>0, <2>1 DEF TypeOK, resolveUpload
  <2>2. CASE AbortStale(p)
    <3>1. Abort(mem[p].uid) /\ ckpt' = ckpt /\ ckpt.uid = mem[p].uid /\ ckpt \in Checkpoints
      BY <1>0, <2>2 DEF TypeOK, AbortStale, CalmOf, DiskBehind
    <3>. QED
      BY <1>0, <3>1 DEF Abort, TypeOK, Checkpoints
  <2>3. CASE DropGone(p)
    BY <1>0, <2>3 DEF TypeOK, DropGone
  <2>4. ~ listAllParts(p) /\ ~ ListFails(p)
    BY <1>0 DEF TypeOK, listAllParts, ListFails
  <2>. QED
    BY <2>1, <2>2, <2>3, <2>4
<1>6. pc'[p] = "abort" => ckpt' = mem'[p]
  <2>1. pc'[p] = "abort" => resolveUpload(p)
    BY <1>0 DEF TypeOK, AbortStale, listAllParts, ListFails, DropGone
  <2>. QED
    BY <1>0, <2>1 DEF TypeOK, resolveUpload
<1>7. CalmOf(p)'
  <2>1. ~ excused'[p] => Spared(p)'
    BY <1>2, <1>3, <1>4, <1>5 DEF Spared
  <2>2. DiskBehind(p)'
    BY <1>2, <1>6 DEF DiskBehind
  <2>. QED
    BY <1>0, <1>2, <2>1, <2>2 DEF CalmOf
<1>. QED
  BY <1>0, <1>1, <1>7, CalmOthers

\* A step at work: the others are not.
LEMMA CalmWorker ==
    ASSUME IntegrityInv, TypeInv', CalmInv, TransferExclusive, NEW p \in Procs, pc[p] \in Working,
           \A q \in Procs \ {p} :
                /\ pc'[q] = pc[q] /\ job'[q] = job[q] /\ mem'[q] = mem[q] /\ flight'[q] = flight[q]
                /\ outcome'[q] = outcome[q] /\ held'[q] = held[q] /\ excused'[q] = excused[q],
           held'[p] = held[p],
           outcome'[p] = "failed" \/ pc'[p] = "strand" => excused'[p],
           ~ excused'[p] => Spared(p)',
           DiskBehind(p)'
    PROVE  CalmInv'
<1>1. TypeInv /\ CalmOf(p) /\ held[p] # 0
  BY DEF IntegrityInv, CalmInv, CalmOf
<1>2. CalmOf(p)'
  BY <1>1 DEF CalmOf
<1>. QED
  BY <1>1, <1>2, CalmOthers

\* The first checkpoint of an upload, new or resumed.
LEMMA CalmFresh ==
    ASSUME IntegrityInv, TypeInv', CalmInv, TransferExclusive, NEW p \in Procs,
           SaveReconciled(p) \/ CreateUpload(p) \/ SaveFirst(p) \/ AbortUnsaved(p)
    PROVE  CalmInv'
<1>0. /\ TypeOK /\ CalmOf(p) /\ RunOf(p) /\ TypeInv /\ OnePlan
      /\ pc[p] \in {"save", "create", "first", "strand"} /\ pc[p] \in Working
      /\ outcome[p] = "failed" \/ pc[p] = "strand" => excused[p]
  BY DEF IntegrityInv, TypeInv, CalmInv, RunInv, CalmOf, SaveReconciled, CreateUpload, SaveFirst, AbortUnsaved,
         Working
<1>. USE DEF Goto, End, Mishap, Calm, disk, server, counters, blame, saveCheckpoint
<1>1. /\ \A q \in Procs \ {p} :
            /\ pc'[q] = pc[q] /\ job'[q] = job[q] /\ mem'[q] = mem[q] /\ flight'[q] = flight[q]
            /\ outcome'[q] = outcome[q] /\ held'[q] = held[q] /\ excused'[q] = excused[q]
      /\ held'[p] = held[p] /\ flight' = flight
  BY <1>0 DEF TypeOK, SaveReconciled, CreateUpload, SaveFirst, AbortUnsaved
<1>2. \A n \in PartNo : flight'[p][n] \notin {"sent", "failed"}
  BY <1>0, <1>1 DEF TypeInv, ProcShape
<1>3. CASE SaveReconciled(p) \/ SaveFirst(p)
  <2>1. /\ pc'[p] \in {"pool", "exit", "strand"} /\ status' = status /\ mem' = mem
        /\ pc'[p] = "pool" => ckpt' = mem[p] /\ excused' = excused
        /\ pc'[p] # "pool" => excused'[p]
        /\ outcome'[p] = "failed" \/ pc'[p] = "strand" => excused'[p]
        /\ pc[p] \in {"save", "first"}
    BY <1>0, <1>3 DEF TypeOK, SaveReconciled, SaveFirst
  <2>2. ~ excused'[p] => Spared(p)'
    BY <1>0, <1>2, <2>1 DEF Spared, CalmOf
  <2>3. DiskBehind(p)'
    BY <2>1 DEF DiskBehind
  <2>. QED
    BY <1>0, <1>1, <2>1, <2>2, <2>3, CalmWorker
<1>4. CASE CreateUpload(p)
  <2>1. CASE pc'[p] = "exit" /\ excused'[p]
    BY <1>0, <1>1, <2>1, CalmWorker DEF DiskBehind
  <2>2. ASSUME NEW u \in UploadIds, Opens(u), Goto(p, "first"), Calm, UNCHANGED outcome,
               mem' = [mem EXCEPT ![p] = [uid |-> u, ver |-> job[p].ver, ps |-> job[p].ps, parts |-> NoParts]]
        PROVE  CalmInv'
    <3>1. mem'[p].uid = u /\ status'[u] = "open" /\ ckpt' = ckpt /\ pc'[p] = "first"
          /\ excused' = excused /\ outcome' = outcome
      BY <1>0, <1>4, <2>2 DEF TypeOK, Opens, CreateUpload
    <3>2. ckpt # None => ckpt.uid # u /\ ckpt.uid \in UploadIds /\ status'[ckpt.uid] = status[ckpt.uid]
      <4>1. status[u] = "none"
        BY <2>2, UploadInputs DEF Opens, UploadIds
      <4>2. ckpt # None => ckpt.uid # u
        BY <1>0, <4>1 DEF OnePlan, Unreferenced
      <4>. QED
        BY <1>0, <2>2, <4>2 DEF TypeOK, Checkpoints, Opens
    <3>3. ~ excused'[p] => Spared(p)'
      <4>1. pc[p] = "create"
        BY <1>4 DEF CreateUpload
      <4>. QED
        BY <1>0, <1>2, <3>1, <3>2, <4>1 DEF Spared, CalmOf
    <3>. QED
      BY <1>0, <1>1, <3>1, <3>3, CalmWorker DEF DiskBehind
  <2>. QED
    BY <1>0, <1>4, <2>1, <2>2 DEF CreateUpload, TypeOK
<1>5. CASE AbortUnsaved(p)
  <2>1. pc'[p] = "exit" /\ pc[p] = "strand" /\ (excused[p] => excused'[p])
    BY <1>0, <1>5 DEF TypeOK, AbortUnsaved
  <2>2. excused'[p]
    BY <1>0, <2>1
  <2>. QED
    BY <1>0, <1>1, <2>1, <2>2, CalmWorker DEF DiskBehind
<1>. QED
  BY <1>0, <1>3, <1>4, <1>5

\* The pool: a part fails, and the pool with it, only after a mishap.
LEMMA CalmPool ==
    ASSUME IntegrityInv, TypeInv', CalmInv, TransferExclusive, NEW p \in Procs, PoolStep(p)
    PROVE  CalmInv'
<1>0. /\ TypeOK /\ CalmOf(p) /\ TypeInv /\ pc[p] = "pool" /\ pc[p] \in Working
      /\ mem[p] \in Checkpoints
      /\ outcome[p] = "failed" => excused[p]
      /\ ~ excused[p] => Spared(p)
      /\ DiskBehind(p)
  <2>1. pc[p] = "pool"
    BY DEF PoolStep, uploadOnePart, Answer, CallFails, appendPart, CollectError, GiveUp, uploadMissingParts
  <2>. QED
    BY <2>1 DEF IntegrityInv, TypeInv, TypeOK, ProcShape, InHand, CalmInv, CalmOf, Working
<1>. USE DEF Goto, End, Mishap, Calm, disk, server, counters, blame, saveCheckpoint, SetFlight
<1>1. /\ \A q \in Procs \ {p} :
            /\ pc'[q] = pc[q] /\ job'[q] = job[q] /\ mem'[q] = mem[q] /\ flight'[q] = flight[q]
            /\ outcome'[q] = outcome[q] /\ held'[q] = held[q] /\ excused'[q] = excused[q]
      /\ held'[p] = held[p] /\ job' = job /\ status' = status /\ stored' = stored
      /\ mem'[p] = mem[p] \/ \E n \in PartNo : appendPart(p, n)
  BY <1>0 DEF TypeOK, PoolStep, uploadOnePart, Answer, CallFails, appendPart, CollectError, GiveUp,
     uploadMissingParts
<1>2. ASSUME NEW n \in PartNo, uploadOnePart(p, n)
      PROVE  CalmInv'
  <2>1. /\ pc' = pc /\ mem' = mem /\ outcome' = outcome /\ excused' = excused /\ ckpt' = ckpt
        /\ net' = net \cup {Put(p, n)}
        /\ \A k \in PartNo : flight'[p][k] = IF k = n THEN "sent" ELSE flight[p][k]
    BY <1>0, <1>2 DEF TypeOK, uploadOnePart
  <2>2. ~ excused'[p] => Spared(p)'
    BY <1>0, <1>1, <2>1 DEF Spared, Put
  <2>3. DiskBehind(p)'
    BY <1>0, <2>1 DEF DiskBehind, PartsOf
  <2>. QED
    BY <1>0, <1>1, <2>1, <2>2, <2>3, CalmWorker
<1>3. ASSUME NEW n \in PartNo, Answer(p, n)
      PROVE  CalmInv'
  <2>1. /\ pc' = pc /\ mem' = mem /\ outcome' = outcome /\ excused' = excused /\ ckpt' = ckpt
        /\ net' = net /\ flight[p][n] = "sent" /\ Put(p, n) \notin net
        /\ \A k \in PartNo : flight'[p][k] = IF k = n THEN Verdict(p, n) ELSE flight[p][k]
    BY <1>0, <1>3 DEF TypeOK, Answer
  <2>2. ~ excused[p] => Verdict(p, n) = "acked"
    BY <1>0, <2>1 DEF Spared, Verdict
  <2>3. ~ excused'[p] => Spared(p)'
    BY <1>0, <1>1, <2>1, <2>2 DEF Spared, Put
  <2>4. DiskBehind(p)'
    BY <1>0, <2>1 DEF DiskBehind, PartsOf
  <2>. QED
    BY <1>0, <1>1, <2>1, <2>3, <2>4, CalmWorker
<1>4. ASSUME NEW n \in PartNo, CallFails(p, n) \/ CollectError(p, n) \/ GiveUp(p, n)
      PROVE  CalmInv'
  <2>1. pc' = pc /\ mem' = mem /\ ckpt' = ckpt
    BY <1>4 DEF CallFails, CollectError, GiveUp
  <2>2. excused'[p]
    <3>1. CASE CallFails(p, n)
      BY <1>0, <3>1 DEF TypeOK, CallFails
    <3>2. CASE CollectError(p, n)
      BY <1>0, <3>2 DEF CollectError, Spared
    <3>3. CASE GiveUp(p, n)
      BY <1>0, <3>3 DEF GiveUp
    <3>. QED
      BY <1>4, <3>1, <3>2, <3>3
  <2>3. DiskBehind(p)'
    BY <1>0, <2>1 DEF DiskBehind, PartsOf
  <2>. QED
    BY <1>0, <1>1, <2>2, <2>3, CalmWorker
<1>5. ASSUME NEW n \in PartNo, appendPart(p, n)
      PROVE  CalmInv'
  <2>1. /\ pc' = pc /\ net' = net
        /\ mem'[p] = WithParts(mem[p], [mem[p].parts EXCEPT ![n] = Put(p, n).data])
        /\ \A k \in PartNo : flight'[p][k] = IF k = n THEN "quiet" ELSE flight[p][k]
        /\ \/ ckpt' = mem'[p] /\ excused' = excused /\ outcome' = outcome
           \/ ckpt' = ckpt /\ excused'[p]
        /\ n \in 1 .. total(p)
    BY <1>0, <1>5 DEF TypeOK, TypeInv, ProcShape, appendPart
  <2>2. /\ mem'[p].uid = mem[p].uid
        /\ mem'[p].parts = [mem[p].parts EXCEPT ![n] = Put(p, n).data]
    BY <2>1 DEF WithParts
  <2>3. \A k \in PartNo : Put(p, k)' = Put(p, k)
    BY <1>1, <2>2 DEF Put
  <2>4. ~ excused'[p] => Spared(p)'
    <3>1. (~ excused'[p]) => ~ excused[p]
      BY <2>1
    <3>. QED
      BY <1>0, <1>1, <2>1, <2>2, <2>3, <3>1 DEF Spared
  <2>5. PartsOf(mem[p].parts) \subseteq PartsOf(mem'[p].parts)
    <3>1. Put(p, n).data # None
      BY <1>0, <2>1, PutType, NoneIsNothing DEF Puts
    <3>. QED
      BY <1>0, <2>2, <3>1 DEF PartsOf, Checkpoints, PartMaps
  <2>6. DiskBehind(p)'
    <3>1. CASE ckpt' = mem'[p]
      BY <1>0, <2>1, <3>1 DEF DiskBehind
    <3>2. CASE ckpt' = ckpt
      BY <1>0, <2>1, <2>2, <2>5, <3>2 DEF DiskBehind, PartsOf
    <3>. QED
      BY <2>1, <3>1, <3>2
  <2>. QED
    BY <1>0, <1>1, <2>1, <2>4, <2>6, CalmWorker
<1>6. CASE uploadMissingParts(p)
  <2>1. /\ pc'[p] \in {"exit", "complete"} /\ mem' = mem /\ outcome' = outcome /\ excused' = excused
        /\ ckpt' = ckpt /\ net' = net /\ flight' = flight
    BY <1>0, <1>6 DEF TypeOK, uploadMissingParts
  <2>2. ~ excused'[p] => Spared(p)'
    BY <1>0, <1>1, <2>1 DEF Spared, Put
  <2>3. DiskBehind(p)'
    BY <2>1 DEF DiskBehind
  <2>. QED
    BY <1>0, <1>1, <2>1, <2>2, <2>3, CalmWorker
<1>. QED
  BY <1>2, <1>3, <1>4, <1>5, <1>6 DEF PoolStep

\* All parts but the last of a cut have the part size, which is no less than the
\* service's floor.
LEMMA CutPartSize ==
    ASSUME NEW c \in Plans, NEW n \in Counted(c), NEW k \in Counted(c), n < k
    PROVE  Size(Slice(c.ver, n, c.ps)) >= MinPartSize
<1>. DEFINE size == FileSize[c.ver]
            last == numParts(size, c.ps)
<1>1. /\ c.ps \in Nat \ {0} /\ size \in Nat \ {0} /\ Fits(size, c.ps) /\ c.ps >= MinPartSize
  <2>1. c.ps >= MinPartSize
    BY PartPlans DEF Plans
  <2>. QED
    BY <2>1, PlanFacts
<1>2. last \in 1 .. MaxParts /\ \A m \in 2 .. last : partStart(m, c.ps) = partEnd(m - 1, size, c.ps)
  BY <1>1, RangesTileFile
<1>3. n \in Nat /\ n + 1 \in 2 .. last /\ (n + 1) - 1 = n
  BY <1>2, PartLimits DEF Counted
<1>. HIDE DEF size, last
<1>4. partEnd(n, size, c.ps) = partStart(n + 1, c.ps)
  BY <1>2, <1>3
<1>5. partStart(n + 1, c.ps) - partStart(n, c.ps) = c.ps
  BY <1>1, <1>3, SMT DEF partStart
<1>6. Size(Slice(c.ver, n, c.ps)) = partEnd(n, size, c.ps) - partStart(n, c.ps)
  BY DEF Size, Slice, size
<1>. QED
  BY <1>1, <1>4, <1>5, <1>6

\* The service accepts what a run completes whose upload is open.
LEMMA CompleteAccepted ==
    ASSUME IntegrityInv, NEW p \in Procs, pc[p] = "complete", status[mem[p].uid] = "open"
    PROVE  Accepts(mem[p].uid, mem[p].parts)
<1>0. TypeInv /\ OnePlan /\ RunOf(p) /\ CheckpointBehindServer
  BY DEF IntegrityInv, RunInv
<1>1. mem[p] # None /\ mem[p] \in Checkpoints /\ mem[p].parts \in PartMaps /\ mem[p].uid \in UploadIds
  BY <1>0 DEF TypeInv, TypeOK, ProcShape, InHand, Checkpoints
<1>2. PICK c \in Plans : UsesPlan(mem[p].uid, c)
  BY <1>0, <1>1 DEF OnePlan, Unreferenced
<1>3. Cut(mem[p].parts, c) /\ c.ver = job[p].ver /\ c.ps = job[p].ps
  BY <1>0, <1>1, <1>2 DEF UsesPlan, Agrees, RunOf, Uploading
<1>4. PartsOf(mem[p].parts) # {}
  <2>1. 1 \in PartNo /\ 1 \in 1 .. total(p)
    BY <1>3, PlanFacts, RangesTileFile, PartLimits DEF total, PartNo
  <2>2. mem[p].parts[1] # None
    BY <1>0, <2>1 DEF RunOf, Missing
  <2>. QED
    BY <2>1, <2>2 DEF PartsOf
<1>5. ASSUME NEW n \in PartsOf(mem[p].parts)
      PROVE  /\ stored[mem[p].uid][n] = mem[p].parts[n]
             /\ (\E last \in PartsOf(mem[p].parts) : n < last) => Size(mem[p].parts[n]) >= MinPartSize
  <2>1. stored[mem[p].uid][n] = mem[p].parts[n]
    BY <1>0, <1>1 DEF CheckpointBehindServer
  <2>2. \A k \in PartsOf(mem[p].parts) : k \in Counted(c) /\ mem[p].parts[k] = Slice(c.ver, k, c.ps)
    BY <1>3 DEF Cut, PartsOf
  <2>. QED
    BY <2>1, <2>2, CutPartSize
<1>. QED
  BY <1>4, <1>5 DEF Accepts

LEMMA CalmFinish ==
    ASSUME IntegrityInv, TypeInv', CalmInv, TransferExclusive, NEW p \in Procs,
           completeUpload(p) \/ deleteCheckpoint(p)
    PROVE  CalmInv'
<1>0. /\ TypeOK /\ CalmOf(p) /\ pc[p] \in {"complete", "delete"} /\ pc[p] \in Working
      /\ outcome[p] = "failed" => excused[p]
      /\ ~ excused[p] => Spared(p)
  BY DEF IntegrityInv, TypeInv, CalmInv, CalmOf, completeUpload, deleteCheckpoint, Working
<1>. USE DEF Goto, End, Mishap, Calm, disk, server, counters, blame
<1>1. /\ \A q \in Procs \ {p} :
            /\ pc'[q] = pc[q] /\ job'[q] = job[q] /\ mem'[q] = mem[q] /\ flight'[q] = flight[q]
            /\ outcome'[q] = outcome[q] /\ held'[q] = held[q] /\ excused'[q] = excused[q]
      /\ held'[p] = held[p] /\ pc'[p] \in {"delete", "exit"}
      /\ excused[p] => excused'[p]
  BY <1>0 DEF TypeOK, completeUpload, deleteCheckpoint
<1>2. outcome'[p] = "failed" => excused'[p]
  <2>1. CASE completeUpload(p)
    <3>1. CASE ~ excused[p]
      <4>1. Accepts(mem[p].uid, mem[p].parts)
        BY <1>0, <2>1, <3>1, CompleteAccepted DEF Spared, completeUpload
      <4>. QED
        BY <1>0, <2>1, <4>1 DEF TypeOK, completeUpload
    <3>2. CASE excused[p]
      BY <1>1, <3>2
    <3>. QED
      BY <3>1, <3>2
  <2>2. CASE deleteCheckpoint(p)
    BY <1>0, <2>2 DEF TypeOK, deleteCheckpoint
  <2>. QED
    BY <2>1, <2>2
<1>3. \A n \in PartNo : flight'[p][n] \notin {"sent", "failed"}
  BY <1>1, QuietOutside
<1>4. Spared(p)' /\ DiskBehind(p)'
  BY <1>1, <1>3 DEF Spared, DiskBehind
<1>. QED
  BY <1>0, <1>1, <1>2, <1>4, CalmWorker

\* The service, the user and the passing of time.
LEMMA CalmWorld ==
    ASSUME IntegrityInv, TypeInv', CalmInv,
           Deliver \/ EditFile \/ (\E u \in UploadIds : OutsideAbort(u)) \/ Age \/ UNCHANGED vars
    PROVE  CalmInv'
<1>0. TypeInv /\ OnePlan /\ RunInv
  BY DEF IntegrityInv
<1>. USE DEF disk, server, counters, blame
<1>1. /\ UNCHANGED <<pc, job, mem, flight, outcome, held, ckpt>>
      /\ \A p \in Procs : excused'[p] = excused[p] \/ excused'[p]
  BY <1>0 DEF TypeInv, TypeOK, Deliver, ServerPut, EditFile, OutsideAbort, Age, vars
<1>. SUFFICES ASSUME NEW p \in Procs
              PROVE  CalmOf(p)'
  BY DEF CalmInv
<1>2. CalmOf(p) /\ DiskBehind(p)' /\ RunOf(p)
  BY <1>0, <1>1 DEF CalmInv, CalmOf, DiskBehind, PartsOf, RunInv
<1>3. ~ excused'[p] => Spared(p)'
  <2>. SUFFICES ASSUME ~ excused'[p]
                PROVE  Spared(p)'
    OBVIOUS
  <2>0. Spared(p) /\ \A n \in PartNo : Put(p, n)' = Put(p, n)
    BY <1>1, <1>2 DEF CalmOf, Put
  <2>1. CASE Deliver
    <3>1. PICK r \in net : ServerPut(r)
      BY <2>1 DEF Deliver
    <3>2. status' = status /\ net' = net \ {r} /\ r \in Puts
      BY <1>0, <3>1 DEF ServerPut, TypeInv, TypeOK
    <3>3. ASSUME NEW n \in PartNo, flight[p][n] = "sent"
          PROVE  Put(p, n) \in net' \/ stored'[mem[p].uid][n] = Put(p, n).data
      <4>1. /\ pc[p] = "pool" /\ mem[p].uid \in UploadIds /\ Put(p, n) \in Puts
            /\ status[mem[p].uid] = "open"
        <5>1. pc[p] = "pool" /\ n \in 1 .. total(p) /\ mem[p] \in Checkpoints
          BY <1>0, <3>3 DEF TypeInv, TypeOK, ProcShape, InHand
        <5>. QED
          BY <1>0, <2>0, <5>1, PutType DEF Spared, Checkpoints
      <4>2. CASE r = Put(p, n)
        <5>1. r.uid = mem[p].uid /\ r.n = n
          BY <4>2 DEF Put
        <5>2. stored'[mem[p].uid][n] = r.data
          BY <1>0, <3>1, <4>1, <5>1 DEF ServerPut, TypeInv, TypeOK, PartMaps
        <5>. QED
          BY <4>2, <5>2
      <4>3. CASE r # Put(p, n) /\ Put(p, n) \in net
        BY <3>2, <4>3
      <4>4. CASE Put(p, n) \notin net
        <5>1. stored[mem[p].uid][n] = Put(p, n).data /\ Put(p, n).data # None
          BY <2>0, <3>3, <4>1, <4>4, NoneIsNothing DEF Spared, Puts
        <5>. QED
          BY <1>0, <3>1, <4>1, <5>1, StoredKept
      <4>. QED
        BY <4>2, <4>3, <4>4
    <3>. QED
      BY <1>1, <2>0, <3>2, <3>3 DEF Spared
  <2>2. CASE EditFile \/ Age \/ UNCHANGED vars
    BY <1>1, <2>0, <2>2 DEF EditFile, Age, Spared, vars
  <2>3. ASSUME NEW u \in UploadIds, OutsideAbort(u)
        PROVE  Spared(p)'
    <3>1. pc[p] = "idle"
      BY <2>3 DEF OutsideAbort
    <3>2. \A n \in PartNo : flight'[p][n] \notin {"sent", "failed"}
      BY <1>1, <3>1, QuietOutside
    <3>. QED
      BY <1>1, <3>1, <3>2 DEF Spared
  <2>. QED
    BY <2>1, <2>2, <2>3
<1>4. outcome'[p] = "failed" \/ pc'[p] = "strand" => excused'[p]
  BY <1>1, <1>2 DEF CalmOf
<1>. QED
  BY <1>1, <1>2, <1>3, <1>4 DEF CalmOf

LEMMA CalmInit == Init => CalmInv
  BY NoneIsNothing DEF Init, CalmInv, CalmOf, Spared, DiskBehind, Working, AllQuiet

LEMMA CalmStep ==
    ASSUME Entries = {"cp"}
    PROVE  IntegrityInv /\ TransferExclusive /\ CalmInv /\ [Next]_vars => CalmInv'
<1>. SUFFICES ASSUME IntegrityInv, TransferExclusive, CalmInv, [Next]_vars
              PROVE  CalmInv'
  OBVIOUS
<1>1. TypeInv /\ TypeInv' /\ RunInv
  BY TypeInvStep DEF IntegrityInv
<1>2. ASSUME NEW p \in Procs, RunStep(p)
      PROVE  CalmInv'
  <2>1. ~ SaveAdopted(p)
    BY <1>1 DEF RunInv, RunOf, SaveAdopted
  <2>2. CASE gcCheckpoints(p) \/ acquireTransferLock(p) \/ LocalFileFails(p) \/ release(p)
    BY <1>1, <2>2, CalmOutside
  <2>3. CASE resolveUpload(p) \/ AbortStale(p) \/ listAllParts(p) \/ ListFails(p) \/ DropGone(p)
    BY <1>1, <2>3, CalmResolve
  <2>4. CASE SaveReconciled(p) \/ CreateUpload(p) \/ SaveFirst(p) \/ AbortUnsaved(p)
    BY <1>1, <2>4, CalmFresh
  <2>5. CASE PoolStep(p)
    BY <1>1, <2>5, CalmPool
  <2>6. CASE completeUpload(p) \/ deleteCheckpoint(p)
    BY <1>1, <2>6, CalmFinish
  <2>. QED
    BY <1>2, <2>1, <2>2, <2>3, <2>4, <2>5, <2>6 DEF RunStep
<1>3. ASSUME NEW p \in Procs, runUpload(p) \/ resumeServerUpload(p) \/ Crash(p)
      PROVE  CalmInv'
  <2>1. ~ resumeServerUpload(p)
    BY DEF resumeServerUpload
  <2>. QED
    BY <1>1, <1>3, <2>1, CalmOutside
<1>4. CASE Deliver \/ EditFile \/ (\E u \in UploadIds : OutsideAbort(u)) \/ Age \/ UNCHANGED vars
  BY <1>1, <1>4, CalmWorld
<1>. QED
  BY <1>2, <1>3, <1>4 DEF Next, Environment, Finished

LEMMA AloneInvariant ==
    ASSUME OneAtATime
    PROVE  Spec => []TransferExclusive
<1>1. CASE MaxAges = 0
  BY <1>1, LockExcludes
<1>2. CASE \A p, q \in Procs : p = q
  <2>1. TransferExclusive
    BY <1>2 DEF TransferExclusive
  <2>. QED
    BY <2>1, PTL
<1>. QED
  BY <1>1, <1>2 DEF OneAtATime

LEMMA CalmInvariant ==
    ASSUME Entries = {"cp"}, OneAtATime
    PROVE  Spec => []CalmInv
  BY CalmInit, CalmStep, IntegrityInvariant, AloneInvariant, PTL DEF Spec

-----------------------------------------------------------------------------
\* Whatever earlier runs of cp left behind, a run fails only if a failed call, a
\* failed write or an abort from outside hit that very run.
THEOREM UndisturbedUploadSucceeds ==
    ASSUME Entries = {"cp"}, OneAtATime
    PROVE  Spec => []UndisturbedRunSucceeds
<1>1. CalmInv => UndisturbedRunSucceeds
  BY DEF CalmInv, CalmOf, UndisturbedRunSucceeds
<1>. QED
  BY <1>1, CalmInvariant, PTL

\* A run of cp that nothing hit never overwrites the record of an upload that is
\* still open.
THEOREM NoneStranded ==
    ASSUME Entries = {"cp"}, OneAtATime
    PROVE  Spec => UndisturbedAborts
<1>. DEFINE A == \A p \in Procs :
                    pc[p] = "first" /\ pc'[p] = "pool" /\ ~ excused[p] /\ ckpt # None
                        => status[ckpt.uid] # "open"
<1>1. CalmInv => A
  BY DEF CalmInv, CalmOf, Spared
<1>2. CalmInv /\ [Next]_vars => [A]_vars
  BY <1>1
<1>. QED
  BY <1>2, CalmInvariant, PTL DEF Spec, UndisturbedAborts

\* A step of cp sends no part that the checkpoint on disk records for its upload;
\* where there is no adoption, this needs no exception.
THEOREM NoneSentTwice ==
    ASSUME Entries = {"cp"}, OneAtATime
    PROVE  Spec => NoPartSentTwice /\ NeverSentTwice
<1>. DEFINE A == \A p \in Procs : \A n \in PartNo : ~ SentTwice(p, n)
            B == \A p \in Procs : \A n \in PartNo :
                    mem[p] # None /\ mem[p].uid \notin overtaken => ~ SentTwice(p, n)
<1>1. IntegrityInv /\ CalmInv /\ Next => A
  <2>. SUFFICES ASSUME IntegrityInv, CalmInv, Next, NEW p \in Procs, NEW n \in PartNo,
                       flight[p][n] = "quiet", flight'[p][n] = "sent"
                PROVE  ~ (ckpt # None /\ ckpt.uid = mem[p].uid /\ ckpt.parts[n] # None)
    BY DEF SentTwice
  <2>0. TypeOK
    BY DEF IntegrityInv, TypeInv
  <2>1. \E q \in Procs : PoolStep(q)
    <3>1. ASSUME NEW q \in Procs, RunStep(q), ~ PoolStep(q)
          PROVE  flight' = flight
      BY <3>1 DEF RunStep, gcCheckpoints, SaveAdopted, acquireTransferLock, LocalFileFails,
         resolveUpload, AbortStale, listAllParts, ListFails, DropGone, SaveReconciled, CreateUpload,
         SaveFirst, AbortUnsaved, completeUpload, deleteCheckpoint, release
    <3>2. Environment \/ Deliver => flight'[p][n] \in {flight[p][n], "quiet"}
      <4>1. ASSUME NEW q \in Procs, Crash(q)
            PROVE  flight'[p][n] \in {flight[p][n], "quiet"}
        <5>1. flight' = [flight EXCEPT ![q] = AllQuiet] /\ AllQuiet[n] = "quiet"
          BY <4>1 DEF Crash, AllQuiet
        <5>. QED
          BY <2>0, <5>1 DEF TypeOK
      <4>2. ASSUME NEW q \in Procs, runUpload(q) \/ resumeServerUpload(q)
            PROVE  flight' = flight
        BY <4>2 DEF runUpload, resumeServerUpload
      <4>3. CASE EditFile \/ (\E u \in UploadIds : OutsideAbort(u)) \/ Age \/ Finished \/ Deliver
        BY <4>3 DEF EditFile, OutsideAbort, Age, Finished, vars, Deliver, ServerPut
      <4>. QED
        BY <4>1, <4>2, <4>3 DEF Environment
    <3>. QED
      BY <3>1, <3>2 DEF Next
  <2>2. PICK q \in Procs, k \in PartNo : uploadOnePart(q, k) /\ flight'[p][n] # flight[p][n]
    <3>1. PICK q \in Procs : PoolStep(q)
      BY <2>1
    <3>2. ASSUME NEW k \in PartNo,
                 Answer(q, k) \/ CallFails(q, k) \/ appendPart(q, k) \/ CollectError(q, k) \/ GiveUp(q, k)
          PROVE  FALSE
      BY <2>0, <3>2 DEF Answer, Verdict, CallFails, appendPart, CollectError, GiveUp, SetFlight, TypeOK
    <3>3. ~ uploadMissingParts(q)
      BY DEF uploadMissingParts
    <3>. QED
      BY <3>1, <3>2, <3>3 DEF PoolStep
  <2>3. q = p /\ k = n
    BY <2>0, <2>2 DEF uploadOnePart, SetFlight, TypeOK
  <2>4. pc[p] = "pool" /\ mem[p].parts[n] = None
    BY <2>2, <2>3 DEF uploadOnePart, Missing
  <2>. QED
    BY <2>4 DEF CalmInv, CalmOf, DiskBehind, PartsOf
<1>2. IntegrityInv /\ CalmInv /\ [Next]_vars => [A]_vars
  BY <1>1
<1>3. IntegrityInv /\ CalmInv /\ [Next]_vars => [B]_vars
  BY <1>1
<1>. QED
  BY <1>2, <1>3, CalmInvariant, IntegrityInvariant, PTL DEF Spec, NoPartSentTwice, NeverSentTwice

=============================================================================
