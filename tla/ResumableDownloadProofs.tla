---------------------- MODULE ResumableDownloadProofs ----------------------
(***************************************************************************)
(* Type correctness of ResumableDownload, and the integrity of what it      *)
(* leaves at the destination, for any number of objects, processes, runs,   *)
(* failures, crashes, versions, part sizes and passings of time.            *)
(***************************************************************************)
EXTENDS ResumableDownload, TLAPS

-----------------------------------------------------------------------------
(* The invariant.                                                           *)

\* The steps of a run that has the lock of its identity.
Locking == {"load", "save", "open", "pool", "rename", "delete"}
\* Those of a run that knows the version it downloads, and that has a checkpoint.
Informed == {"lock"} \cup Locking
InHand == {"save", "open", "pool", "rename", "delete"}

\* What a process has at which step, and that an open file has a name or none.
ProcShape ==
    \A p \in Procs :
        /\ pc[p] # "idle" => job[p] # None
        /\ pc[p] \in Informed => job[p].ver # None
        /\ pc[p] \in InHand => mem[p] # None
        /\ fd[p] = "part" => part # None
        /\ fd[p] = "dest" => dest # None

TypeInv == TypeOK /\ ProcShape

\* File f holds bytes of version v only, where that has bytes; and those of every
\* chunk on record in checkpoint c.
Pure(f, v) == \A u \in Offsets : f[u] = None \/ (f[u] = v /\ u < Size[v])
Carries(f, c) == Pure(f, c.ver) /\ Backs(f, c)

-----------------------------------------------------------------------------
(* Types.                                                                   *)

LEMMA TypeInvInit == Init => TypeInv
<1> SUFFICES ASSUME Init PROVE TypeInv
  OBVIOUS
<1>1. remote \in [Objects -> Versions] /\ ckpt \in [Objects -> Checkpoints \cup {None}]
  BY DEF Init
<1>2. flight \in [Procs -> [ChunkNo -> FlightStates \cup Versions]]
  BY DEF Init, AllQuiet, FlightStates
<1>3. lockFile \in [Objects -> Nat] /\ held \in [Procs -> Nat]
  BY DEF Init
<1>4. TypeOK
  BY <1>1, <1>2, <1>3 DEF Init, TypeOK, Steps
<1>5. ProcShape
  BY NoneIsNothing DEF Init, ProcShape, Informed, InHand, Locking
<1> QED
  BY <1>4, <1>5 DEF TypeInv

\* A step of the run goes on or ends, with or without a mishap.
LEMMA GoesOn ==
    ASSUME TypeInv, NEW p \in Procs, NEW s \in Steps, Goto(p, s)
    PROVE  pc' \in [Procs -> Steps] /\ pc'[p] = s /\ \A q \in Procs \ {p} : pc'[q] = pc[q]
  BY DEF TypeInv, TypeOK, Goto

LEMMA Ends ==
    ASSUME TypeInv, NEW p \in Procs, NEW r \in {"none", "done", "refused", "failed"},
           outcome' = [outcome EXCEPT ![p] = r]
    PROVE  /\ outcome' \in [Procs -> {"none", "done", "refused", "failed"}]
           /\ outcome'[p] = r /\ \A q \in Procs \ {p} : outcome'[q] = outcome[q]
  BY DEF TypeInv, TypeOK

LEMMA Blames ==
    ASSUME TypeInv, NEW p \in Procs, Mishap(p) \/ Calm
    PROVE  /\ mishaps' \in Nat /\ excused' \in [Procs -> BOOLEAN]
           /\ Mishap(p) => excused'[p]
           /\ \A q \in Procs : excused[q] => excused'[q]
           /\ \A q \in Procs \ {p} : excused'[q] = excused[q]
<1>1. mishaps \in Nat /\ excused \in [Procs -> BOOLEAN]
  BY DEF TypeInv, TypeOK
<1>2. CASE Mishap(p)
  <2>1. mishaps' = mishaps + 1 /\ excused' = [excused EXCEPT ![p] = TRUE]
    BY <1>2 DEF Mishap
  <2>2. excused'[p] = TRUE /\ \A q \in Procs \ {p} : excused'[q] = excused[q]
    BY <1>1, <2>1
  <2>3. \A q \in Procs : excused[q] => excused'[q]
    BY <2>2
  <2>4. mishaps' \in Nat /\ excused' \in [Procs -> BOOLEAN]
    BY <1>1, <2>1
  <2> QED
    BY <2>2, <2>3, <2>4
<1>3. CASE Calm /\ ~ Mishap(p)
  BY <1>1, <1>3 DEF Calm, blame
<1> QED
  BY <1>2, <1>3

Results == {"none", "done", "refused", "failed"}

\* The lock files, the locks held and the history of .part and dest have their types.
Bookkeeping ==
    /\ lockFile \in [Objects -> Nat] /\ oldLocks \subseteq Objects /\ held \in [Procs -> Nat]
    /\ partOf \in Objects \cup {None} /\ mixed \in BOOLEAN /\ destMixed \in BOOLEAN

LEMMA OpenedIs == ASSUME TypeInv, NEW o \in Objects PROVE OpenedLock(o) \in Nat \ {0}
  BY DEF OpenedLock, TypeInv, TypeOK

\* A step of process p that changes what is typed, and what is p's alone.
LEMMA TypeKept ==
    ASSUME TypeInv, NEW p \in Procs, NEW s \in Steps,
           (pc' = pc /\ s = pc[p]) \/ Goto(p, s),
           UNCHANGED outcome \/ \E r \in Results : outcome' = [outcome EXCEPT ![p] = r],
           Mishap(p) \/ Calm, UNCHANGED <<remote, counters>>,
           part' \in Files \cup {None}, dest' \in Files \cup {None},
           ckpt' \in [Objects -> Checkpoints \cup {None}], stale' \subseteq Objects,
           job' \in [Procs -> Jobs \cup {None}], mem' \in [Procs -> Checkpoints \cup {None}],
           fd' \in [Procs -> {"none", "part", "dest", "gone"}],
           flight' \in [Procs -> [ChunkNo -> FlightStates \cup Versions]],
           Bookkeeping',
           \A q \in Procs \ {p} : job'[q] = job[q] /\ mem'[q] = mem[q],
           s # "idle" => job'[p] # None,
           s \in Informed => job'[p].ver # None,
           s \in InHand => mem'[p] # None,
           \A q \in Procs : fd'[q] = "part" => part' # None,
           \A q \in Procs : fd'[q] = "dest" => dest' # None
    PROVE  TypeInv'
<1>1. outcome' \in [Procs -> Results]
  BY Ends DEF Results, TypeInv, TypeOK
<1>2. pc' \in [Procs -> Steps] /\ pc'[p] = s /\ \A q \in Procs \ {p} : pc'[q] = pc[q]
  BY GoesOn DEF TypeInv, TypeOK
<1>3. ProcShape'
  BY <1>2 DEF TypeInv, ProcShape
<1>4. \A q \in Procs : pc'[q] \in {"save", "open", "pool"} => mem'[q] # None
  BY <1>3 DEF ProcShape, InHand
<1> QED
  BY <1>1, <1>2, <1>3, <1>4, Blames DEF TypeInv, TypeOK, Results, counters, Bookkeeping

\* Over a file a write makes a file.
LEMMA WriteType ==
    ASSUME TypeInv, NEW p \in Procs, NEW v \in Versions, NEW us, Write(p, v, us)
    PROVE  /\ part' \in Files \cup {None} /\ dest' \in Files \cup {None}
           /\ part = None => part' = None
           /\ part # None => part' # None
           /\ dest # None => dest' # None
<1> DEFINE Over(f) == [u \in Offsets |-> IF u \in us THEN v ELSE f[u]]
<1>1. \A f \in Files : Over(f) \in Files
  BY DEF Files
<1>2. /\ part' = IF fd[p] = "part" THEN Over(part) ELSE part
      /\ dest' = IF fd[p] = "dest" THEN Over(dest) ELSE dest
  BY DEF Write
<1>3. /\ part \in Files \cup {None} /\ dest \in Files \cup {None}
      /\ fd[p] = "part" => part # None
      /\ fd[p] = "dest" => dest # None
  BY DEF TypeInv, TypeOK, ProcShape
<1> HIDE DEF Over
<1> QED
  BY <1>1, <1>2, <1>3, NoneIsNothing

LEMMA EntryType ==
    ASSUME TypeInv, NEW p \in Procs,
           \/ runResumableDownload(p) \/ runLsBrowser(p) \/ browseDownload(p)
           \/ gcDownloadCheckpoints(p) \/ gcCheckpoints(p) \/ HeadObject(p) \/ acquireTransferLock(p)
    PROVE  TypeInv'
<1> USE DEF disk, files, locks, history, blame, counters, Bookkeeping
<1>1. ASSUME NEW o \in Objects, NEW ps \in Nat \ {0}, NEW noResume \in BOOLEAN,
             NEW s \in {"gc", "head"}, Begin(p, o, ps, noResume, s)
      PROVE  TypeInv'
  <2>1. /\ job' = [job EXCEPT ![p] = [obj |-> o, ps |-> ps, noResume |-> noResume, ver |-> None]]
        /\ [obj |-> o, ps |-> ps, noResume |-> noResume, ver |-> None] \in Jobs
    BY <1>1 DEF Begin, Jobs
  <2> QED
    BY <1>1, <2>1, NoneIsNothing DEF Begin, TypeInv, TypeOK, ProcShape, InHand, Informed, Locking, Steps, Goto
<1>2. CASE runResumableDownload(p)
  BY <1>1, <1>2, DownloadInputs DEF runResumableDownload
<1>3. CASE browseDownload(p)
  BY <1>1, <1>3, DownloadInputs DEF browseDownload
<1>4. CASE runLsBrowser(p)
  BY <1>4 DEF runLsBrowser, CollectStale, CollectLocks, TypeInv, TypeOK, ProcShape
<1>5. CASE gcDownloadCheckpoints(p)
  BY <1>5 DEF gcDownloadCheckpoints, CollectStale, TypeInv, TypeOK, ProcShape, InHand, Informed, Locking,
              Steps, Goto
<1>5a. CASE gcCheckpoints(p)
  BY <1>5a DEF gcCheckpoints, CollectLocks, TypeInv, TypeOK, ProcShape, InHand, Informed, Locking, Steps, Goto
<1>6. CASE HeadObject(p)
  <2>1. /\ job[p] \in Jobs /\ job[p].obj \in Objects /\ remote[job[p].obj] \in Versions
        /\ UNCHANGED <<remote, part, dest, ckpt, stale, mem, fd, flight, locks, history, counters>>
    BY <1>6 DEF HeadObject, Jobs, TypeInv, TypeOK, ProcShape
  <2>2. /\ [job[p] EXCEPT !.ver = remote[job[p].obj]] \in Jobs
        /\ [job[p] EXCEPT !.ver = remote[job[p].obj]].ver \in Versions
    BY <2>1 DEF Jobs
  <2>3. CASE job' = [job EXCEPT ![p].ver = remote[job[p].obj]] /\ Goto(p, "lock") /\ Calm /\ UNCHANGED outcome
    <3>1. /\ job' \in [Procs -> Jobs \cup {None}] /\ job'[p] # None /\ job'[p].ver # None
          /\ \A q \in Procs \ {p} : job'[q] = job[q]
      BY <2>2, <2>3, NoneIsNothing DEF TypeInv, TypeOK
    <3> QED
      BY <2>1, <2>3, <3>1, TypeKept DEF TypeInv, TypeOK, ProcShape, Steps, InHand
  <2>4. CASE Mishap(p) /\ End(p, "failed") /\ UNCHANGED job
    BY <1>6, <2>1, <2>4, NoneIsNothing, TypeKept
       DEF TypeInv, TypeOK, ProcShape, Steps, End, InHand, Informed, Locking, Results
  <2> QED
    BY <1>6, <2>3, <2>4 DEF HeadObject
<1>7. CASE acquireTransferLock(p)
  <2>1. /\ job[p] # None /\ job[p].ver # None
        /\ UNCHANGED <<remote, part, dest, ckpt, stale, job, mem, fd, flight, counters>>
        /\ Bookkeeping' /\ (Mishap(p) \/ Calm)
        /\ \/ Goto(p, "load") /\ UNCHANGED outcome
           \/ End(p, "refused") \/ End(p, "failed")
    BY <1>7, OpenedIs DEF acquireTransferLock, TypeInv, TypeOK, ProcShape, Informed, Jobs
  <2> QED
    BY <2>1, TypeKept DEF TypeInv, TypeOK, ProcShape, Steps, End, InHand, Informed, Locking, Results
<1> QED
  BY <1>2, <1>3, <1>4, <1>5, <1>5a, <1>6, <1>7

LEMMA SaveType ==
    ASSUME TypeInv, NEW o \in Objects, NEW c \in Checkpoints \cup {None},
           saveDownloadCheckpoint(o, c) \/ UNCHANGED <<ckpt, stale>>
    PROVE  ckpt' \in [Objects -> Checkpoints \cup {None}] /\ stale' \subseteq Objects
  BY DEF saveDownloadCheckpoint, TypeInv, TypeOK

LEMMA OpenType ==
    ASSUME TypeInv, NEW p \in Procs,
           loadOrResetDownloadCheckpoint(p) \/ SaveFresh(p) \/ OpenPart(p)
    PROVE  TypeInv'
<1> USE DEF disk, files, locks, history, blame, counters, Bookkeeping
<1>0. job[p] \in Jobs /\ job[p].obj \in Objects /\ job[p].ver \in Versions
  BY NoneIsNothing DEF loadOrResetDownloadCheckpoint, SaveFresh, OpenPart, Jobs, TypeInv, TypeOK, ProcShape,
                       Informed, Locking
<1>1. CASE loadOrResetDownloadCheckpoint(p)
  <2>1. Bookkeeping' /\ UNCHANGED <<remote, ckpt, stale, job, flight, locks, outcome, blame, counters>>
    BY <1>0, <1>1 DEF loadOrResetDownloadCheckpoint, TakePart, TypeInv, TypeOK
  <2> DEFINE c == ckpt[job[p].obj]
             fresh == [ver |-> job[p].ver, ps |-> job[p].ps, chunks |-> {}]
  <2>2. fresh \in Checkpoints /\ fresh # None
    BY <1>0, NoneIsNothing DEF Checkpoints, Jobs
  <2>3. CASE c # None /\ mem' = [mem EXCEPT ![p] = c] /\ Goto(p, "open") /\ UNCHANGED files
    BY <1>0, <1>1, <2>1, <2>3 DEF loadOrResetDownloadCheckpoint, TypeInv, TypeOK, ProcShape, InHand, Informed,
                            Locking, Steps, Goto
  <2>4. CASE mem' = [mem EXCEPT ![p] = fresh] /\ RemovePart /\ Goto(p, "save")
    <3> HIDE DEF fresh
    <3> QED
      BY <1>0, <1>1, <2>1, <2>2, <2>4 DEF loadOrResetDownloadCheckpoint, RemovePart, TypeInv, TypeOK, ProcShape,
                                    InHand, Informed, Locking, Steps, Goto
  <2> QED
    BY <1>1, <2>3, <2>4 DEF loadOrResetDownloadCheckpoint, Reusable
<1>2. CASE SaveFresh(p)
  <2>1. /\ UNCHANGED <<remote, files, job, mem, flight, locks, history, counters>> /\ (Mishap(p) \/ Calm)
        /\ saveDownloadCheckpoint(job[p].obj, mem[p]) \/ UNCHANGED <<ckpt, stale>>
        /\ \/ Goto(p, "open") /\ UNCHANGED outcome
           \/ End(p, "failed")
        /\ mem[p] \in Checkpoints /\ mem[p] # None
    BY <1>2 DEF SaveFresh, TypeInv, TypeOK, ProcShape, InHand
  <2> QED
    BY <1>0, <2>1, SaveType, TypeKept, NoneIsNothing
       DEF TypeInv, TypeOK, ProcShape, Steps, End, InHand, Informed, Locking, Results
<1>3. CASE OpenPart(p)
  <2>1. Blank \in Files /\ Blank # None
    BY NoneIsNothing DEF Blank, Files
  <2>2. /\ UNCHANGED <<remote, dest, ckpt, stale, job, mem, flight, locks, history, counters>> /\ (Mishap(p) \/ Calm)
        /\ \/ Goto(p, "pool") /\ UNCHANGED outcome
           \/ End(p, "failed")
        /\ mem[p] # None
    BY <1>3 DEF OpenPart, TypeInv, ProcShape, InHand
  <2>3. /\ part' \in Files \cup {None} /\ fd' \in [Procs -> {"none", "part", "dest", "gone"}]
        /\ \A q \in Procs : fd'[q] = "part" => part' # None
        /\ \A q \in Procs : fd'[q] = "dest" => dest' # None
    BY <1>3, <2>1 DEF OpenPart, TypeInv, TypeOK, ProcShape
  <2> QED
    BY <1>0, <2>2, <2>3, TypeKept, NoneIsNothing
       DEF TypeInv, TypeOK, Steps, End, InHand, Informed, Locking, Results
<1> QED
  BY <1>1, <1>2, <1>3

LEMMA PoolType == ASSUME TypeInv, NEW p \in Procs, PoolStep(p) PROVE TypeInv'
<1> USE DEF disk, files, locks, history, blame, counters, Bookkeeping, SetFlight
<1>0. /\ pc[p] = "pool" /\ pc[p] \in Steps /\ mem[p] \in Checkpoints /\ mem[p] # None
      /\ job[p] \in Jobs /\ job[p] # None /\ job[p].ver # None /\ job[p].obj \in Objects
  BY NoneIsNothing DEF PoolStep, downloadOneChunk, GetObject, WriteSome, WriteChunk, CallFails, RecordChunk,
       CollectError, GiveUp, downloadMissingChunks, TypeInv, TypeOK, ProcShape, InHand, Informed, Locking, Jobs
<1>1. ASSUME NEW n \in ChunkNo, NEW f \in FlightStates \cup Versions, SetFlight(p, n, f)
      PROVE  flight' \in [Procs -> [ChunkNo -> FlightStates \cup Versions]]
  BY <1>1 DEF TypeInv, TypeOK
<1>2. ASSUME NEW n \in ChunkNo,
             \/ downloadOneChunk(p, n) \/ GetObject(p, n) \/ CallFails(p, n)
             \/ CollectError(p, n) \/ GiveUp(p, n)
      PROVE  TypeInv'
  <2>1. /\ UNCHANGED <<remote, disk, pc, job, mem, fd, locks, history, counters>> /\ (Mishap(p) \/ Calm)
        /\ \/ UNCHANGED outcome
           \/ outcome' = [outcome EXCEPT ![p] = "failed"]
        /\ \E f \in FlightStates \cup Versions : SetFlight(p, n, f)
    BY <1>0, <1>2 DEF downloadOneChunk, GetObject, CallFails, CollectError, GiveUp, Calm, Served, FlightStates,
                      Jobs
  <2> QED
    BY <1>0, <1>1, <2>1, TypeKept DEF TypeInv, TypeOK, ProcShape, Results
<1>3. ASSUME NEW n \in ChunkNo, WriteSome(p, n) \/ WriteChunk(p, n) PROVE TypeInv'
  <2>1. /\ UNCHANGED <<remote, ckpt, stale, pc, job, mem, fd, locks, history, outcome, counters>> /\ Calm
        /\ UNCHANGED flight \/ SetFlight(p, n, "acked")
        /\ \E v \in Versions : \E us : Write(p, v, us)
    BY <1>3 DEF WriteSome, WriteChunk, Calm
  <2>2. /\ part' \in Files \cup {None} /\ dest' \in Files \cup {None}
        /\ part # None => part' # None
        /\ dest # None => dest' # None
    BY <2>1, WriteType
  <2>3. flight' \in [Procs -> [ChunkNo -> FlightStates \cup Versions]]
    BY <1>1, <2>1 DEF FlightStates, TypeInv, TypeOK
  <2> QED
    BY <1>0, <2>1, <2>2, <2>3, TypeKept DEF TypeInv, TypeOK, ProcShape
<1>4. ASSUME NEW n \in ChunkNo, RecordChunk(p, n) PROVE TypeInv'
  <2>1. /\ UNCHANGED <<remote, files, pc, job, locks, history, counters>> /\ (Mishap(p) \/ Calm)
        /\ SetFlight(p, n, "quiet") /\ mem' = [mem EXCEPT ![p].chunks = @ \cup {n}]
        /\ saveDownloadCheckpoint(job[p].obj, mem'[p]) \/ UNCHANGED <<ckpt, stale>>
        /\ UNCHANGED outcome \/ outcome' = [outcome EXCEPT ![p] = "failed"]
    BY <1>4 DEF RecordChunk
  <2>2. [mem[p] EXCEPT !.chunks = @ \cup {n}] \in Checkpoints
    BY <1>0 DEF Checkpoints
  <2>3. mem' \in [Procs -> Checkpoints \cup {None}] /\ mem'[p] \in Checkpoints /\ mem'[p] # None
        /\ \A q \in Procs \ {p} : mem'[q] = mem[q]
    BY <2>1, <2>2, NoneIsNothing DEF TypeInv, TypeOK
  <2>4. flight' \in [Procs -> [ChunkNo -> FlightStates \cup Versions]]
    BY <1>1, <2>1 DEF FlightStates
  <2> QED
    BY <1>0, <2>1, <2>3, <2>4, SaveType, TypeKept DEF TypeInv, TypeOK, ProcShape, Results
<1>5. CASE downloadMissingChunks(p)
  <2>1. /\ UNCHANGED <<remote, disk, job, mem, flight, locks, history, counters>> /\ (Mishap(p) \/ Calm)
        /\ \/ UNCHANGED outcome /\ (Goto(p, "exit") \/ Goto(p, "rename"))
           \/ End(p, "failed")
        /\ fd' = [fd EXCEPT ![p] = "none"]
    BY <1>5 DEF downloadMissingChunks
  <2>2. /\ fd' \in [Procs -> {"none", "part", "dest", "gone"}]
        /\ \A q \in Procs : fd'[q] = fd[q] \/ fd'[q] = "none"
    BY <2>1 DEF TypeInv, TypeOK
  <2> QED
    BY <1>0, <2>1, <2>2, TypeKept DEF TypeInv, TypeOK, ProcShape, Steps, End, Results
<1> QED
  BY <1>2, <1>3, <1>4, <1>5 DEF PoolStep

LEMMA EndType ==
    ASSUME TypeInv, NEW p \in Procs,
           RenamePart(p) \/ deleteDownloadCheckpoint(p) \/ release(p) \/ Crash(p)
    PROVE  TypeInv'
<1> USE DEF disk, files, locks, history, blame, counters, Bookkeeping
<1>0. ASSUME pc[p] \in InHand
      PROVE  mem[p] # None /\ job[p] # None /\ job[p].ver # None /\ job[p] \in Jobs /\ job[p].obj \in Objects
  BY <1>0, NoneIsNothing DEF InHand, Informed, Locking, TypeInv, TypeOK, ProcShape, Jobs
<1>1. CASE RenamePart(p)
  <2>1. /\ UNCHANGED <<remote, ckpt, stale, job, mem, flight, locks, counters>> /\ (Mishap(p) \/ Calm)
        /\ pc[p] \in InHand /\ partOf' = partOf /\ mixed' = mixed /\ destMixed' \in BOOLEAN
        /\ \/ Goto(p, "delete") /\ UNCHANGED outcome
           \/ End(p, "failed")
    BY <1>1 DEF RenamePart, InHand, TypeInv, TypeOK
  <2>2. /\ part' \in Files \cup {None} /\ dest' \in Files \cup {None}
        /\ fd' \in [Procs -> {"none", "part", "dest", "gone"}]
        /\ \A q \in Procs : fd'[q] = "part" => part' # None
        /\ \A q \in Procs : fd'[q] = "dest" => dest' # None
    BY <1>1 DEF RenamePart, TypeInv, TypeOK, ProcShape
  <2> QED
    BY <1>0, <2>1, <2>2, TypeKept DEF TypeInv, TypeOK, Steps, End, Results
<1>2. CASE deleteDownloadCheckpoint(p)
  <2>1. /\ UNCHANGED <<remote, files, job, mem, flight, locks, history, counters>> /\ (Mishap(p) \/ Calm)
        /\ pc[p] \in InHand /\ End(p, "done")
        /\ saveDownloadCheckpoint(job[p].obj, None) \/ UNCHANGED <<ckpt, stale>>
    BY <1>2 DEF deleteDownloadCheckpoint, InHand
  <2> QED
    BY <1>0, <2>1, SaveType, TypeKept
       DEF TypeInv, TypeOK, ProcShape, Steps, End, InHand, Informed, Locking, Results
<1>3. CASE release(p) \/ Crash(p)
  <2>1. Reset(p) /\ (Mishap(p) \/ Calm)
    BY <1>3 DEF release, Crash
  <2>2. /\ job' \in [Procs -> Jobs \cup {None}] /\ mem' \in [Procs -> Checkpoints \cup {None}]
        /\ \A q \in Procs \ {p} : job'[q] = job[q] /\ mem'[q] = mem[q]
        /\ flight' \in [Procs -> [ChunkNo -> FlightStates \cup Versions]]
        /\ Bookkeeping'
    BY <2>1 DEF Reset, TypeInv, TypeOK, AllQuiet, FlightStates
  <2>3. /\ fd' \in [Procs -> {"none", "part", "dest", "gone"}]
        /\ \A q \in Procs : fd'[q] = fd[q] \/ fd'[q] = "none"
    BY <2>1 DEF Reset, TypeInv, TypeOK
  <2>4. /\ UNCHANGED <<remote, disk, lockFile, oldLocks, history, counters>> /\ Goto(p, "idle")
        /\ outcome' = [outcome EXCEPT ![p] = "none"]
    BY <2>1 DEF Reset
  <2> QED
    BY <2>1, <2>2, <2>3, <2>4, TypeKept
       DEF TypeInv, TypeOK, ProcShape, Steps, InHand, Informed, Locking, Results
<1> QED
  BY <1>1, <1>2, <1>3

LEMMA WorldType ==
    ASSUME TypeInv, (\E o \in Objects : ReplaceObject(o)) \/ Age \/ Finished \/ UNCHANGED vars
    PROVE  TypeInv'
<1> USE DEF TypeInv, TypeOK, ProcShape, InHand, Informed, Locking, Steps, disk, files, locks, history,
           blame, counters
<1>1. ASSUME NEW o \in Objects, ReplaceObject(o) PROVE TypeInv'
  BY <1>1 DEF ReplaceObject
<1>2. CASE Age
  BY <1>2 DEF Age
<1>3. CASE Finished \/ UNCHANGED vars
  BY <1>3 DEF Finished, vars
<1> QED
  BY <1>1, <1>2, <1>3

LEMMA TypeInvStep == ASSUME TypeInv, [Next]_vars PROVE TypeInv'
  BY EntryType, OpenType, PoolType, EndType, WorldType DEF Next, Environment, RunStep

\* Every variable holds what the code's types and the protocol let it hold, and no
\* nil checkpoint is used, for any number of objects, processes and failures.
THEOREM DownloadTypeCorrect == Spec => []TypeOK
<1>1. TypeInv => TypeOK
  BY DEF TypeInv
<1>2. TypeInv /\ [Next]_vars => TypeInv'
  BY TypeInvStep
<1> QED
  BY <1>1, <1>2, TypeInvInit, PTL DEF Spec

-----------------------------------------------------------------------------
(* Lemmas about files.                                                      *)

\* The quotient and the remainder of a division.
LEMMA DivMod ==
    ASSUME NEW a \in Nat, NEW b \in Nat \ {0}
    PROVE  a \div b \in Nat /\ a % b \in 0 .. b - 1 /\ a = (a \div b) * b + (a % b)
  BY SMT

LEMMA Products ==
    ASSUME NEW b \in Nat \ {0}, NEW x \in Nat, NEW y \in Nat, x < y
    PROVE  x * b + b <= y * b
<1>1. (x + 1) * b <= y * b
  BY SMT
<1> QED
  BY <1>1, SMT

\* chunkRange: every offset of an object is in one of its numChunks chunks.
LEMMA ChunksTile ==
    ASSUME NEW t \in Nat, NEW ps \in Nat \ {0}, NEW u \in 0 .. t - 1
    PROVE  \E n \in 1 .. numChunks(t, ps) : u \in chunkRange(n, t, ps)
<1> DEFINE n == u \div ps + 1
<1>0. u \in Nat
  OBVIOUS
<1>1. u \div ps \in Nat /\ u % ps \in 0 .. ps - 1 /\ u = (u \div ps) * ps + (u % ps)
  BY <1>0, DivMod
<1>2. t \div ps \in Nat /\ t % ps \in 0 .. ps - 1 /\ t = (t \div ps) * ps + (t % ps)
  BY DivMod
<1>3. numChunks(t, ps) \in Nat
  BY <1>2 DEF numChunks
<1>4. u \div ps < numChunks(t, ps)
  <2>1. CASE u \div ps < t \div ps
    BY <1>1, <1>2, <2>1 DEF numChunks
  <2>2. CASE u \div ps = t \div ps
    <3>1. t % ps # 0
      BY <1>1, <1>2, <2>2
    <3> QED
      BY <1>2, <2>2, <3>1 DEF numChunks
  <2>3. CASE u \div ps > t \div ps
    <3>1. (t \div ps) * ps + ps <= (u \div ps) * ps
      BY <1>1, <1>2, <2>3, Products
    <3>2. (t \div ps) * ps \in Nat /\ (u \div ps) * ps \in Nat
      BY <1>1, <1>2
    <3> QED
      BY <1>1, <1>2, <3>1, <3>2
  <2> QED
    BY <1>1, <1>2, <2>1, <2>2, <2>3
<1>5. n \in 1 .. numChunks(t, ps)
  BY <1>1, <1>3, <1>4
<1>6. (n - 1) * ps <= u /\ u < n * ps
  <2>1. (n - 1) * ps = (u \div ps) * ps /\ n * ps = (u \div ps) * ps + ps
    BY <1>1
  <2>2. (u \div ps) * ps \in Nat
    BY <1>1
  <2> QED
    BY <1>1, <2>1, <2>2
<1> QED
  BY <1>5, <1>6 DEF chunkRange

\* A file that carries a checkpoint with every chunk on record is the version.
LEMMA CarriesAll ==
    ASSUME NEW f \in Files, NEW c \in Checkpoints, Carries(f, c),
           1 .. numChunks(Size[c.ver], c.ps) \subseteq c.chunks
    PROVE  f = Whole(c.ver)
<1>1. /\ c.ver \in Versions /\ c.ps \in Nat \ {0} /\ Size[c.ver] \in Nat
      /\ f \in [Offsets -> Versions \cup {None}]
  BY DownloadInputs DEF Checkpoints, Files
<1>2. ASSUME NEW u \in Offsets PROVE f[u] = IF u < Size[c.ver] THEN c.ver ELSE None
  <2>1. CASE u < Size[c.ver]
    <3>1. u \in 0 .. Size[c.ver] - 1
      BY <1>1, <2>1, DownloadInputs DEF Offsets
    <3>2. PICK n \in 1 .. numChunks(Size[c.ver], c.ps) : u \in chunkRange(n, Size[c.ver], c.ps)
      BY <1>1, <3>1, ChunksTile
    <3> QED
      BY <2>1, <3>2 DEF Carries, Backs
  <2>2. CASE ~ u < Size[c.ver]
    BY <2>2 DEF Carries, Pure
  <2> QED
    BY <2>1, <2>2
<1> QED
  BY <1>1, <1>2 DEF Whole

\* Bytes of the version, written within its size, leave all that is carried.
LEMMA WriteCarries ==
    ASSUME NEW f \in Files, NEW v \in Versions, NEW us \in SUBSET (0 .. Size[v] - 1), Pure(f, v)
    PROVE  LET g == [u \in Offsets |-> IF u \in us THEN v ELSE f[u]]
           IN  /\ g \in Files /\ Pure(g, v)
               /\ \A u \in us : g[u] = v
               /\ \A u \in Offsets : f[u] = v => g[u] = v
               /\ \A c \in Checkpoints : c.ver = v /\ Backs(f, c) => Backs(g, c)
<1> DEFINE g == [u \in Offsets |-> IF u \in us THEN v ELSE f[u]]
<1>1. Size[v] \in Nat /\ us \subseteq Offsets /\ 0 .. Size[v] - 1 \subseteq Offsets
  BY DownloadInputs DEF Offsets
<1>2. g \in Files
  BY DEF Files
<1>3. Pure(g, v)
  BY <1>1 DEF Pure
<1>4. \A u \in us : g[u] = v
  BY <1>1
<1>5. \A u \in Offsets : f[u] = v => g[u] = v
  OBVIOUS
<1>6. ASSUME NEW c \in Checkpoints, c.ver = v, Backs(f, c) PROVE Backs(g, c)
  BY <1>1, <1>5, <1>6 DEF Backs, chunkRange
<1> QED
  BY <1>2, <1>3, <1>4, <1>5, <1>6

-----------------------------------------------------------------------------
(* Who works on the .part file.                                             *)

\* A run that has looked at its .part file and not let go of its lock.
Working(p) == held[p] # 0 /\ pc[p] # "load"

\* A lock file that is old, or unlinked, has a lower number than the next new one,
\* and no two runs of one object hold the same lock file.
LockInv ==
    /\ \A o \in Objects :
        lockFile[o] <= ages + 1 /\ (o \in oldLocks => lockFile[o] \in 1 .. ages)
    /\ \A p \in Procs : held[p] # 0 =>
        /\ held[p] <= ages + 1
        /\ job[p].obj \in oldLocks \/ lockFile[job[p].obj] = 0 => held[p] <= ages
    /\ \A p, q \in Procs :
        held[p] # 0 /\ held[p] = held[q] /\ job[p].obj = job[q].obj => p = q

\* The lock is held from the look at the checkpoint to the end; requests and an
\* open file are the pool's.
InStep(p) ==
    /\ pc[p] \in Locking => held[p] # 0
    /\ held[p] # 0 => pc[p] \in Locking \cup {"exit"}
    /\ outcome[p] = "done" => held[p] # 0 /\ pc[p] = "exit" /\ job[p].ver # None
    /\ outcome[p] = "failed" => pc[p] \in {"pool", "exit"} /\ (held[p] # 0 \/ excused[p])
    /\ pc[p] # "pool" => flight[p] = AllQuiet /\ fd[p] = "none"

\* A run that nothing hit downloads what the service holds.
Current(p) ==
    ~ excused[p] =>
        /\ pc[p] \in Informed => remote[job[p].obj] = job[p].ver
        /\ \A n \in ChunkNo : flight[p][n] # "failed"

\* A .part file that is not mixed has one run at work on it at most, of the object
\* it was last taken for; whoever has the destination open was one of two.
ApartInv ==
    /\ ~ mixed => \A p \in Procs : Working(p) =>
        job[p].obj = partOf /\ \A q \in Procs : Working(q) => q = p
    /\ \A p \in Procs : fd[p] = "dest" => destMixed

BaseInv == TypeInv /\ LockInv /\ ApartInv /\ \A p \in Procs : InStep(p) /\ Current(p)

LEMMA QuietIs ==
    /\ \A n \in ChunkNo : AllQuiet[n] = "quiet"
    /\ "quiet" \notin Versions /\ "sent" \notin Versions /\ "acked" \notin Versions
    /\ "failed" \notin Versions
  BY NoneIsNothing DEF AllQuiet, FlightStates

LEMMA BaseInit == Init => BaseInv
<1> SUFFICES ASSUME Init PROVE BaseInv
  OBVIOUS
<1>1. TypeInv
  BY TypeInvInit
<1>2. LockInv /\ ApartInv
  BY DEF Init, LockInv, ApartInv, Working
<1>3. \A p \in Procs : InStep(p) /\ Current(p)
  BY QuietIs DEF Init, InStep, Current, Informed, Locking
<1> QED
  BY <1>1, <1>2, <1>3 DEF BaseInv

\* Process q stays where it is.
Unmoved(q) ==
    /\ pc'[q] = pc[q] /\ job'[q] = job[q] /\ mem'[q] = mem[q] /\ flight'[q] = flight[q]
    /\ held'[q] = held[q] /\ outcome'[q] = outcome[q]
    /\ excused[q] => excused'[q]
    /\ fd[q] = "none" => fd'[q] = "none"
    /\ fd'[q] = "dest" => fd[q] = "dest" \/ fd[q] = "part"

Entry(p) ==
    \/ runResumableDownload(p) \/ runLsBrowser(p) \/ browseDownload(p)
    \/ gcDownloadCheckpoints(p) \/ gcCheckpoints(p) \/ HeadObject(p)

\* What a process does moves no other one.
LEMMA OneMoves ==
    ASSUME TypeInv, NEW p \in Procs, Entry(p) \/ RunStep(p) \/ Crash(p)
    PROVE  \A q \in Procs \ {p} : Unmoved(q)
<1> SUFFICES ASSUME NEW q \in Procs, q # p PROVE Unmoved(q)
  OBVIOUS
<1> USE DEF disk, files, locks, blame, counters, Unmoved, Goto, End
<1>0. /\ pc \in [Procs -> Steps] /\ job \in [Procs -> Jobs \cup {None}]
      /\ mem \in [Procs -> Checkpoints \cup {None}] /\ fd \in [Procs -> {"none", "part", "dest", "gone"}]
      /\ flight \in [Procs -> [ChunkNo -> FlightStates \cup Versions]] /\ held \in [Procs -> Nat]
      /\ outcome \in [Procs -> Results] /\ excused \in [Procs -> BOOLEAN]
  BY DEF TypeInv, TypeOK, Results
<1>1. Mishap(p) \/ Calm => (excused[q] => excused'[q])
  BY Blames
<1>2. CASE runResumableDownload(p) \/ browseDownload(p)
  BY <1>0, <1>2 DEF runResumableDownload, browseDownload, Begin
<1>3. CASE runLsBrowser(p) \/ gcDownloadCheckpoints(p) \/ gcCheckpoints(p)
  BY <1>0, <1>3 DEF runLsBrowser, gcDownloadCheckpoints, gcCheckpoints, CollectStale, CollectLocks
<1>4. CASE HeadObject(p) \/ acquireTransferLock(p)
  BY <1>0, <1>1, <1>4 DEF HeadObject, acquireTransferLock
<1>5. CASE loadOrResetDownloadCheckpoint(p)
  BY <1>0, <1>5 DEF loadOrResetDownloadCheckpoint, RemovePart
<1>6. CASE SaveFresh(p) \/ OpenPart(p)
  BY <1>0, <1>1, <1>6 DEF SaveFresh, OpenPart
<1>7. ASSUME NEW n \in ChunkNo,
             \/ downloadOneChunk(p, n) \/ GetObject(p, n) \/ WriteSome(p, n) \/ WriteChunk(p, n)
             \/ CallFails(p, n) \/ RecordChunk(p, n) \/ CollectError(p, n) \/ GiveUp(p, n)
      PROVE  Unmoved(q)
  <2>1. (Mishap(p) \/ Calm) /\ UNCHANGED <<pc, job, fd, held>>
    BY <1>7 DEF downloadOneChunk, GetObject, WriteSome, WriteChunk, CallFails, RecordChunk, CollectError, GiveUp, Calm
  <2>2. flight'[q] = flight[q]
    BY <1>0, <1>7 DEF downloadOneChunk, GetObject, WriteSome, WriteChunk, CallFails, RecordChunk, CollectError,
                      GiveUp, SetFlight
  <2>3. mem'[q] = mem[q] /\ outcome'[q] = outcome[q]
    BY <1>0, <1>7 DEF downloadOneChunk, GetObject, WriteSome, WriteChunk, CallFails, RecordChunk, CollectError,
                      GiveUp
  <2> QED
    BY <1>1, <2>1, <2>2, <2>3
<1>8. CASE downloadMissingChunks(p)
  BY <1>0, <1>1, <1>8 DEF downloadMissingChunks
<1>9. CASE RenamePart(p) \/ deleteDownloadCheckpoint(p)
  BY <1>0, <1>1, <1>9 DEF RenamePart, deleteDownloadCheckpoint
<1>10. CASE release(p) \/ Crash(p)
  BY <1>0, <1>1, <1>10 DEF release, Crash, Reset
<1> QED
  BY <1>2, <1>3, <1>4, <1>5, <1>6, <1>7, <1>8, <1>9, <1>10 DEF Entry, RunStep, PoolStep

LEMMA Aside ==
    ASSUME BaseInv, NEW q \in Procs, Unmoved(q), remote' = remote \/ excused'[q] \/ pc[q] = "idle"
    PROVE  InStep(q)' /\ Current(q)'
<1>1. InStep(q) /\ Current(q)
  BY DEF BaseInv
<1>2. InStep(q)'
  BY <1>1 DEF InStep, Unmoved
<1>3. Current(q)'
  BY <1>1 DEF Current, Unmoved, Informed, Locking
<1> QED
  BY <1>2, <1>3

\* Locks that stay or are let go.
LEMMA LockSame ==
    ASSUME BaseInv, UNCHANGED <<lockFile, oldLocks, ages>>,
           \A q \in Procs : held'[q] # 0 => held'[q] = held[q] /\ job'[q].obj = job[q].obj
    PROVE  LockInv'
<1>1. LockInv
  BY DEF BaseInv
<1> QED
  BY <1>1 DEF LockInv

\* Runs at work that stay at work or stop.
LEMMA ApartSame ==
    ASSUME BaseInv, UNCHANGED <<partOf, mixed>>,
           \A q \in Procs : Working(q)' => Working(q) /\ job'[q].obj = job[q].obj,
           \A q \in Procs : fd'[q] = "dest" => destMixed'
    PROVE  ApartInv'
  BY DEF BaseInv, ApartInv

\* A step of process p keeps the base invariant if it keeps its locks and is in step.
LEMMA BaseKept ==
    ASSUME BaseInv, NEW p \in Procs, TypeInv', \A q \in Procs \ {p} : Unmoved(q),
           UNCHANGED <<remote, lockFile, oldLocks, ages, partOf, mixed, destMixed>>,
           held'[p] # 0 => held'[p] = held[p] /\ job'[p].obj = job[p].obj,
           held'[p] # 0 /\ pc'[p] # "load" => pc[p] # "load",
           fd'[p] = "dest" => fd[p] = "dest",
           \A q \in Procs \ {p} : fd'[q] = "dest" => fd[q] = "dest",
           InStep(p)', Current(p)'
    PROVE  BaseInv'
<1>1. \A q \in Procs : held'[q] # 0 => held'[q] = held[q] /\ job'[q].obj = job[q].obj
  BY DEF Unmoved
<1>2. LockInv'
  BY <1>1, LockSame
<1>3. \A q \in Procs : Working(q)' => Working(q) /\ job'[q].obj = job[q].obj
  BY <1>1 DEF Working, Unmoved
<1>4. \A q \in Procs : fd'[q] = "dest" => destMixed'
  BY DEF BaseInv, ApartInv
<1>5. ApartInv'
  BY <1>3, <1>4, ApartSame
<1>6. \A q \in Procs : InStep(q)' /\ Current(q)'
  BY Aside
<1> QED
  BY <1>2, <1>5, <1>6 DEF BaseInv

\* A process before its lock, or on its way out.
LEMMA AtRest ==
    ASSUME NEW p \in Procs, pc'[p] \in {"idle", "gc", "locks", "head", "lock", "exit"}, outcome'[p] # "done",
           held'[p] # 0 => pc'[p] = "exit", flight'[p] = AllQuiet, fd'[p] = "none",
           outcome'[p] = "failed" => pc'[p] = "exit" /\ (held'[p] # 0 \/ excused'[p]),
           pc'[p] = "lock" => excused'[p] \/ remote'[job'[p].obj] = job'[p].ver
    PROVE  InStep(p)' /\ Current(p)'
  BY QuietIs DEF InStep, Current, Informed, Locking

\* What a process brings along to a step outside the pool.
LEMMA Stands ==
    ASSUME BaseInv, NEW p \in Procs
    PROVE  /\ TypeInv /\ InStep(p) /\ Current(p)
           /\ pc[p] # "pool" => flight[p] = AllQuiet /\ fd[p] = "none"
           /\ pc[p] \notin {"pool", "exit"} => outcome[p] \notin {"done", "failed"}
           /\ pc[p] \in {"idle", "gc", "locks", "head", "lock"} => held[p] = 0
           /\ pc[p] \in Locking => held[p] # 0
           /\ pc[p] # "idle" => job[p] \in Jobs /\ job[p].obj \in Objects
           /\ pc[p] \in Informed => job[p].ver \in Versions
<1>1. TypeInv /\ InStep(p) /\ Current(p)
  BY DEF BaseInv
<1>2. pc[p] # "idle" => job[p] \in Jobs /\ job[p].obj \in Objects
  BY <1>1 DEF TypeInv, TypeOK, ProcShape, Jobs
<1>3. pc[p] \in Informed => job[p].ver \in Versions
  BY <1>1, <1>2 DEF TypeInv, ProcShape, Informed, Locking, Jobs
<1>4. /\ pc[p] # "pool" => flight[p] = AllQuiet /\ fd[p] = "none"
      /\ pc[p] \notin {"pool", "exit"} => outcome[p] \notin {"done", "failed"}
      /\ pc[p] \in {"idle", "gc", "locks", "head", "lock"} => held[p] = 0
      /\ pc[p] \in Locking => held[p] # 0
  BY <1>1 DEF InStep, Locking
<1> QED
  BY <1>1, <1>2, <1>3, <1>4

\* Steps before the lock.
LEMMA EntryBase == ASSUME BaseInv, NEW p \in Procs, Entry(p) PROVE BaseInv'
<1> USE DEF disk, files, locks, history, counters
<1>1. /\ TypeInv /\ TypeInv' /\ pc[p] \in {"idle", "gc", "locks", "head"}
      /\ \A q \in Procs \ {p} : Unmoved(q)
  BY EntryType, OneMoves DEF BaseInv, Entry, runResumableDownload, runLsBrowser, browseDownload, gcDownloadCheckpoints,
     gcCheckpoints, HeadObject, Begin
<1>2. /\ flight[p] = AllQuiet /\ fd[p] = "none" /\ outcome[p] \notin {"done", "failed"} /\ held[p] = 0
      /\ UNCHANGED <<remote, part, dest, mem, fd, flight, held, ages, history>>
  BY <1>1, Stands DEF Entry, runResumableDownload, runLsBrowser, browseDownload, gcDownloadCheckpoints,
     gcCheckpoints, HeadObject, Begin, CollectLocks, CollectStale
<1>3. InStep(p)' /\ Current(p)'
  <2>1. CASE runResumableDownload(p) \/ browseDownload(p)
    <3>1. pc'[p] \in {"gc", "head"} /\ outcome' = outcome
      BY <1>1, <2>1 DEF runResumableDownload, browseDownload, Begin, Goto, TypeInv, TypeOK
    <3> QED
      BY <1>2, <3>1, AtRest
  <2>2. CASE runLsBrowser(p) \/ gcDownloadCheckpoints(p) \/ gcCheckpoints(p)
    <3>1. pc'[p] \in {"idle", "locks", "head"} /\ outcome' = outcome
      BY <1>1, <2>2 DEF runLsBrowser, gcDownloadCheckpoints, gcCheckpoints, Goto, TypeInv, TypeOK
    <3> QED
      BY <1>2, <3>1, AtRest
  <2>3. CASE HeadObject(p)
    <3>1. CASE job' = [job EXCEPT ![p].ver = remote[job[p].obj]] /\ Goto(p, "lock") /\ Calm /\ UNCHANGED outcome
      <4>1. job[p] \in Jobs
        BY <2>3, Stands DEF HeadObject
      <4>2. job'[p].ver = remote[job'[p].obj] /\ pc'[p] = "lock"
        BY <1>1, <3>1, <4>1 DEF TypeInv, TypeOK, Goto, Jobs
      <4> QED
        BY <1>2, <3>1, <4>2, AtRest
    <3>2. CASE Mishap(p) /\ End(p, "failed") /\ UNCHANGED job
      <4>1. pc'[p] = "exit" /\ outcome'[p] = "failed" /\ excused'[p]
        BY <1>1, <3>2, Blames DEF TypeInv, TypeOK, End, Goto
      <4> QED
        BY <1>2, <4>1, AtRest
    <3> QED
      BY <2>3, <3>1, <3>2 DEF HeadObject
  <2> QED
    BY <2>1, <2>2, <2>3 DEF Entry
<1>4. \A q \in Procs : held'[q] # 0 => held'[q] = held[q] /\ job'[q].obj = job[q].obj
  BY <1>1, <1>2 DEF Unmoved
<1>5. LockInv'
  <2>1. CASE CollectLocks
    <3>1. /\ lockFile' = [o \in Objects |-> IF o \in oldLocks THEN 0 ELSE lockFile[o]]
          /\ oldLocks' = {} /\ ages' = ages /\ ages \in Nat
      BY <1>1, <1>2, <2>1 DEF CollectLocks, TypeInv, TypeOK
    <3>2. \A q \in Procs : held[q] # 0 => job[q].obj \in Objects
      BY Stands DEF InStep, Locking
    <3> QED
      BY <1>4, <3>1, <3>2 DEF BaseInv, LockInv
  <2>2. CASE UNCHANGED <<lockFile, oldLocks>>
    BY <1>2, <1>4, <2>2, LockSame
  <2> QED
    BY <2>1, <2>2 DEF Entry, runResumableDownload, runLsBrowser, browseDownload, gcDownloadCheckpoints,
       gcCheckpoints, HeadObject, Begin
<1>6. ApartInv'
  <2>1. \A q \in Procs : Working(q)' => Working(q) /\ job'[q].obj = job[q].obj
    BY <1>1, <1>4 DEF Working, Unmoved
  <2>2. \A q \in Procs : fd'[q] = "dest" => destMixed'
    BY <1>2 DEF BaseInv, ApartInv
  <2> QED
    BY <1>2, <2>1, <2>2, ApartSame
<1>7. \A q \in Procs : InStep(q)' /\ Current(q)'
  BY <1>1, <1>2, <1>3, Aside
<1> QED
  BY <1>1, <1>5, <1>6, <1>7 DEF BaseInv

\* A new lock file has a number that no one holds, and so has one that no other run
\* of the object has locked.
LEMMA LockBase == ASSUME BaseInv, NEW p \in Procs, acquireTransferLock(p) PROVE BaseInv'
<1> DEFINE o == job[p].obj
           i == OpenedLock(o)
<1>1. /\ TypeInv /\ TypeInv' /\ pc[p] = "lock" /\ \A q \in Procs \ {p} : Unmoved(q)
      /\ UNCHANGED <<remote, disk, job, mem, fd, flight, oldLocks, history, ages>> /\ (Mishap(p) \/ Calm)
  BY EntryType, OneMoves DEF BaseInv, RunStep, acquireTransferLock, counters
<1>2. /\ flight[p] = AllQuiet /\ fd[p] = "none" /\ outcome[p] \notin {"done", "failed"} /\ held[p] = 0
      /\ o \in Objects /\ job[p].ver \in Versions /\ i \in Nat \ {0}
      /\ excused[p] \/ remote[o] = job[p].ver
  BY <1>1, Stands, OpenedIs DEF Informed, Current
<1>3. held \in [Procs -> Nat] /\ lockFile \in [Objects -> Nat] /\ ages \in Nat
  BY <1>1 DEF TypeInv, TypeOK
<1>4. CASE lockFile' = [lockFile EXCEPT ![o] = i] /\ ~ Locked(p) /\ held' = [held EXCEPT ![p] = i]
           /\ Goto(p, "load") /\ Calm /\ UNCHANGED outcome
  <2>1. pc'[p] = "load" /\ held'[p] = i /\ \A q \in Procs \ {p} : held'[q] = held[q]
    BY <1>1, <1>3, <1>4 DEF Goto, TypeInv, TypeOK
  <2>2. \A q \in Procs : job[q].obj = o => held[q] # i
    BY <1>4 DEF Locked
  <2>3. i <= ages + 1 /\ (o \in oldLocks => i <= ages) /\ lockFile'[o] = i
        /\ \A x \in Objects \ {o} : lockFile'[x] = lockFile[x]
    BY <1>2, <1>3, <1>4 DEF OpenedLock, BaseInv, LockInv
  <2>4. \A x \in Objects : lockFile'[x] <= ages + 1 /\ (x \in oldLocks => lockFile'[x] \in 1 .. ages)
    BY <1>2, <1>3, <2>3 DEF BaseInv, LockInv
  <2>5. \A q \in Procs : held[q] # 0 => job[q].obj \in Objects
    BY Stands DEF InStep, Locking
  <2>6. \A q \in Procs : held'[q] # 0 =>
            /\ held'[q] <= ages + 1
            /\ job[q].obj \in oldLocks \/ lockFile'[job[q].obj] = 0 => held'[q] <= ages
    <3>1. ASSUME NEW q \in Procs \ {p}, held[q] # 0
          PROVE  /\ held[q] <= ages + 1
                 /\ job[q].obj \in oldLocks \/ lockFile'[job[q].obj] = 0 => held[q] <= ages
      BY <1>2, <2>3, <2>5, <3>1 DEF BaseInv, LockInv
    <3> QED
      BY <1>2, <2>1, <2>3, <3>1
  <2>7. \A q, r \in Procs : held'[q] # 0 /\ held'[q] = held'[r] /\ job[q].obj = job[r].obj => q = r
    BY <2>1, <2>2 DEF BaseInv, LockInv
  <2>8. LockInv'
    BY <1>1, <2>4, <2>6, <2>7 DEF LockInv
  <2>9. InStep(p)'
    BY <1>1, <1>2, <1>4, <2>1 DEF InStep, Locking
  <2>10. Current(p)'
    BY <1>1, <1>2, <1>4, QuietIs DEF Current, Calm, blame
  <2>11. \A q \in Procs : Working(q)' => Working(q) /\ job'[q].obj = job[q].obj
    BY <1>1, <2>1 DEF Working, Unmoved
  <2>12. ApartInv'
    BY <1>1, <2>11, ApartSame DEF BaseInv, ApartInv, history
  <2> QED
    BY <1>1, <2>8, <2>9, <2>10, <2>12, Aside DEF BaseInv
<1>5. CASE /\ \/ lockFile' = [lockFile EXCEPT ![o] = i] /\ Locked(p) /\ End(p, "refused") /\ Calm
              \/ UNCHANGED lockFile /\ Mishap(p) /\ End(p, "failed")
           /\ UNCHANGED held
  <2>1. pc'[p] = "exit" /\ outcome'[p] # "done" /\ (outcome'[p] = "failed" => excused'[p])
    BY <1>1, <1>5, Blames DEF End, Goto, TypeInv, TypeOK
  <2>2. InStep(p)' /\ Current(p)'
    BY <1>1, <1>2, <1>5, <2>1, AtRest
  <2>3. lockFile' = lockFile
    <3>1. CASE Locked(p)
      <4>1. PICK q \in Procs : held[q] = i /\ job[q].obj = o
        BY <3>1 DEF Locked
      <4>2. lockFile[o] # 0
        <5> SUFFICES ASSUME lockFile[o] = 0 PROVE FALSE
          OBVIOUS
        <5>1. i = ages + 1
          BY DEF OpenedLock
        <5>2. held[q] <= ages
          BY <1>2, <4>1 DEF BaseInv, LockInv
        <5> QED
          BY <1>3, <4>1, <5>1, <5>2
      <4>3. i = lockFile[o]
        BY <4>2 DEF OpenedLock
      <4> QED
        BY <1>2, <1>3, <1>5, <4>3
    <3> QED
      BY <1>5, <3>1
  <2> QED
    BY <1>1, <1>2, <1>5, <2>1, <2>2, <2>3, BaseKept DEF history
<1> QED
  BY <1>1, <1>4, <1>5 DEF acquireTransferLock

\* Whoever takes the .part file alone is alone with it.
LEMMA LoadBase == ASSUME BaseInv, NEW p \in Procs, loadOrResetDownloadCheckpoint(p) PROVE BaseInv'
<1>1. /\ TypeInv /\ TypeInv' /\ pc[p] = "load" /\ \A q \in Procs \ {p} : Unmoved(q)
      /\ UNCHANGED <<remote, ckpt, stale, job, flight, lockFile, oldLocks, held, outcome, excused, ages>>
      /\ pc'[p] \in {"open", "save"} /\ \A q \in Procs : fd'[q] = fd[q] \/ fd'[q] \in {"gone", "none"}
  <2>1. pc' \in [Procs -> Steps] /\ pc'[p] \in {"open", "save"}
    BY DEF loadOrResetDownloadCheckpoint, Goto, BaseInv, TypeInv, TypeOK, Steps
  <2> QED
    BY <2>1, OpenType, OneMoves DEF loadOrResetDownloadCheckpoint, RunStep, BaseInv, files, RemovePart, TypeInv, TypeOK,
       locks, counters, blame
<1>2. /\ flight[p] = AllQuiet /\ fd[p] = "none" /\ outcome[p] \notin {"done", "failed"} /\ held[p] # 0
      /\ job[p].obj \in Objects /\ (excused[p] \/ remote[job[p].obj] = job[p].ver)
  BY <1>1, Stands DEF Informed, Current, Locking
<1>3. InStep(p)'
  <2>1. fd'[p] = "none"
    BY <1>2 DEF loadOrResetDownloadCheckpoint, RemovePart, files, BaseInv, TypeInv, TypeOK
  <2> QED
    BY <1>1, <1>2, <2>1 DEF InStep, Locking
<1>4. Current(p)'
  BY <1>1, <1>2, QuietIs DEF Current
<1>5. LockInv'
  BY <1>1, LockSame
<1>6. ApartInv'
  <2>1. \A q \in Procs : fd'[q] = "dest" => destMixed'
    BY <1>1 DEF BaseInv, ApartInv, loadOrResetDownloadCheckpoint, TakePart
  <2>2. ASSUME ~ mixed', NEW q \in Procs, Working(q)' PROVE q = p /\ job'[q].obj = partOf'
    <3>1. partOf' = job[p].obj /\ Others(p) = {}
      BY <2>2 DEF loadOrResetDownloadCheckpoint, TakePart
    <3>2. ASSUME q # p PROVE FALSE
      <4>1. held[q] # 0 /\ pc[q] # "load"
        BY <1>1, <2>2, <3>2 DEF Working, Unmoved
      <4>2. held[q] = held[p] /\ job[q].obj = job[p].obj
        BY <3>1, <4>1 DEF Others
      <4> QED
        BY <1>2, <3>2, <4>1, <4>2 DEF BaseInv, LockInv
    <3> QED
      BY <1>1, <3>1, <3>2
  <2> QED
    BY <2>1, <2>2 DEF ApartInv
<1> QED
  BY <1>1, <1>3, <1>4, <1>5, <1>6, Aside DEF BaseInv

\* The steps that a run at work takes with its files.
LEMMA WorkBase ==
    ASSUME BaseInv, NEW p \in Procs,
           SaveFresh(p) \/ OpenPart(p) \/ downloadMissingChunks(p) \/ deleteDownloadCheckpoint(p)
    PROVE  BaseInv'
<1> USE DEF disk, files, locks, history, counters
<1>1. /\ TypeInv /\ TypeInv' /\ \A q \in Procs \ {p} : Unmoved(q)
      /\ pc[p] \in {"save", "open", "pool", "delete"} /\ (Mishap(p) \/ Calm)
      /\ UNCHANGED <<remote, job, flight, lockFile, oldLocks, held, ages, partOf, mixed, destMixed>>
  BY OpenType, PoolType, EndType, OneMoves
     DEF BaseInv, RunStep, PoolStep, SaveFresh, OpenPart, downloadMissingChunks, deleteDownloadCheckpoint
<1>2. /\ held[p] # 0 /\ job[p].obj \in Objects /\ job[p].ver \in Versions /\ job[p].ver # None
      /\ excused[p] \/ (remote[job[p].obj] = job[p].ver /\ \A n \in ChunkNo : flight[p][n] # "failed")
      /\ InStep(p)
  BY <1>1, Stands, NoneIsNothing DEF Informed, Current, Locking
<1>3. flight[p] = AllQuiet
  <2>1. CASE downloadMissingChunks(p)
    <3>1. \A n \in ChunkNo : flight[p][n] = "quiet"
      BY <2>1 DEF downloadMissingChunks, Busy
    <3> QED
      BY <1>1, <3>1 DEF AllQuiet, TypeInv, TypeOK
  <2> QED
    BY <1>2, <2>1 DEF SaveFresh, OpenPart, deleteDownloadCheckpoint, InStep
<1>4. /\ excused[p] => excused'[p]
      /\ pc'[p] \in {"open", "pool", "rename", "exit"} /\ (pc'[p] # "pool" => fd'[p] = "none")
      /\ fd'[p] # "dest" /\ \A q \in Procs \ {p} : fd'[q] = fd[q]
      /\ outcome'[p] = "done" => pc'[p] = "exit"
      /\ outcome'[p] = "failed" => pc'[p] = "exit"
  <2>1. fd \in [Procs -> {"none", "part", "dest", "gone"}] /\ pc \in [Procs -> Steps]
        /\ outcome \in [Procs -> Results]
    BY <1>1 DEF TypeInv, TypeOK, Results
  <2>2. excused[p] => excused'[p]
    BY <1>1, Blames
  <2>3. CASE SaveFresh(p) \/ deleteDownloadCheckpoint(p)
    BY <1>2, <2>1, <2>2, <2>3 DEF SaveFresh, deleteDownloadCheckpoint, Goto, End, InStep
  <2>4. CASE OpenPart(p)
    BY <1>2, <2>1, <2>2, <2>4 DEF OpenPart, Goto, End, InStep
  <2>5. CASE downloadMissingChunks(p)
    BY <1>2, <2>1, <2>2, <2>5 DEF downloadMissingChunks, Goto, End, InStep
  <2> QED
    BY <2>3, <2>4, <2>5
<1>5. InStep(p)'
  BY <1>1, <1>2, <1>3, <1>4 DEF InStep, Locking
<1>6. Current(p)'
  BY <1>1, <1>2, <1>3, <1>4, QuietIs DEF Current
<1> QED
  BY <1>1, <1>4, <1>5, <1>6, BaseKept

LEMMA FlightIs ==
    ASSUME TypeInv, NEW p \in Procs, NEW n \in ChunkNo, NEW s, SetFlight(p, n, s)
    PROVE  /\ flight'[p][n] = s /\ \A m \in ChunkNo \ {n} : flight'[p][m] = flight[p][m]
           /\ \A q \in Procs \ {p} : flight'[q] = flight[q]
  BY DEF SetFlight, TypeInv, TypeOK

\* Requests fail because something outside the code went wrong.
LEMMA PoolBase ==
    ASSUME BaseInv, NEW p \in Procs, NEW n \in ChunkNo,
           \/ downloadOneChunk(p, n) \/ GetObject(p, n) \/ WriteSome(p, n) \/ WriteChunk(p, n)
           \/ CallFails(p, n) \/ RecordChunk(p, n) \/ CollectError(p, n) \/ GiveUp(p, n)
    PROVE  BaseInv'
<1> USE DEF disk, files, locks, history, counters
<1>0. PoolStep(p) /\ RunStep(p)
  BY DEF PoolStep, RunStep
<1>1. /\ TypeInv /\ TypeInv' /\ \A q \in Procs \ {p} : Unmoved(q)
      /\ pc[p] = "pool" /\ (Mishap(p) \/ Calm)
      /\ UNCHANGED <<remote, job, fd, pc, lockFile, oldLocks, held, ages, partOf, mixed, destMixed>>
  BY <1>0, PoolType, OneMoves DEF BaseInv, downloadOneChunk, GetObject, WriteSome, WriteChunk, CallFails, RecordChunk,
     CollectError, GiveUp, Calm
<1>2. /\ held[p] # 0 /\ job[p].obj \in Objects /\ job[p].ver \in Versions
      /\ excused[p] \/ (remote[job[p].obj] = job[p].ver /\ \A m \in ChunkNo : flight[p][m] # "failed")
      /\ InStep(p) /\ (excused[p] => excused'[p])
  BY <1>1, Stands, Blames DEF Informed, Current, Locking
<1>3. outcome'[p] # "done"
  BY <1>1, <1>2 DEF InStep, downloadOneChunk, GetObject, WriteSome, WriteChunk, CallFails, RecordChunk,
     CollectError, GiveUp, TypeInv, TypeOK
<1>4. excused'[p] \/ \A m \in ChunkNo : flight'[p][m] # "failed"
  <2>1. UNCHANGED flight \/ \E s : SetFlight(p, n, s) /\ (s # "failed" \/ excused'[p])
    <3>1. Served(p) # "failed" \/ excused[p]
      BY <1>2, QuietIs DEF Served
    <3> QED
      BY <1>1, <1>2, <3>1, Blames DEF downloadOneChunk, GetObject, WriteSome, WriteChunk, CallFails, RecordChunk,
         CollectError, GiveUp
  <2> QED
    BY <1>1, <1>2, <2>1, FlightIs
<1>5. InStep(p)'
  BY <1>1, <1>2, <1>3 DEF InStep, Locking
<1>6. Current(p)'
  BY <1>1, <1>2, <1>4 DEF Current
<1> QED
  BY <1>1, <1>5, <1>6, BaseKept

\* The rename: whoever else has the file open shares it.
LEMMA RenameBase == ASSUME BaseInv, NEW p \in Procs, RenamePart(p) PROVE BaseInv'
<1> USE DEF disk, files, locks, counters
<1>1. /\ TypeInv /\ TypeInv' /\ \A q \in Procs \ {p} : Unmoved(q)
      /\ pc[p] = "rename" /\ (Mishap(p) \/ Calm)
      /\ UNCHANGED <<remote, job, flight, lockFile, oldLocks, held, ages, partOf, mixed>>
  BY EndType, OneMoves DEF BaseInv, RunStep, RenamePart, history
<1>2. /\ held[p] # 0 /\ job[p].obj \in Objects /\ job[p].ver \in Versions /\ fd[p] = "none"
      /\ flight[p] = AllQuiet /\ outcome[p] \notin {"done", "failed"}
      /\ excused[p] \/ remote[job[p].obj] = job[p].ver
  BY <1>1, Stands DEF Informed, Current, Locking
<1>3. /\ excused[p] => excused'[p]
      /\ pc'[p] \in {"delete", "exit"} /\ fd'[p] = "none"
      /\ outcome'[p] # "done"
      /\ outcome'[p] = "failed" => pc'[p] = "exit"
  <2>1. excused[p] => excused'[p]
    BY <1>1, Blames
  <2> QED
    BY <1>1, <1>2, <2>1 DEF RenamePart, Goto, End, TypeInv, TypeOK
<1>4. InStep(p)'
  BY <1>1, <1>2, <1>3 DEF InStep, Locking
<1>5. Current(p)'
  BY <1>1, <1>2, <1>3, QuietIs DEF Current
<1>6. LockInv'
  BY <1>1, LockSame
<1>7. ApartInv'
  <2>1. \A q \in Procs : Working(q)' => Working(q) /\ job'[q].obj = job[q].obj
    BY <1>1, <1>2, <1>3 DEF Working, Unmoved
  <2>2. ASSUME NEW q \in Procs, fd'[q] = "dest" PROVE destMixed'
    <3>1. CASE UNCHANGED <<files, history>>
      BY <2>2, <3>1 DEF BaseInv, ApartInv, history
    <3>2. CASE /\ destMixed' = mixed
               /\ fd' = [r \in Procs |-> IF fd[r] = "part" THEN "dest"
                                         ELSE IF fd[r] = "dest" THEN "gone" ELSE fd[r]]
      <4>1. fd[q] = "part"
        BY <2>2, <3>2
      <4>2. q # p /\ pc[q] = "pool"
        BY <1>2, <4>1 DEF BaseInv, InStep
      <4>3. Working(q) /\ Working(p)
        BY <1>1, <1>2, <4>2 DEF Working, BaseInv, InStep, Locking
      <4> QED
        BY <3>2, <4>2, <4>3 DEF BaseInv, ApartInv
    <3> QED
      BY <3>1, <3>2 DEF RenamePart
  <2> QED
    BY <1>1, <2>1, <2>2, ApartSame
<1> QED
  BY <1>1, <1>4, <1>5, <1>6, <1>7, Aside DEF BaseInv

\* The end of a run, or the death of its process.
LEMMA ResetBase == ASSUME BaseInv, NEW p \in Procs, release(p) \/ Crash(p) PROVE BaseInv'
<1>1. Reset(p) /\ (Mishap(p) \/ Calm) /\ TypeInv /\ TypeInv' /\ \A q \in Procs \ {p} : Unmoved(q)
  BY EndType, OneMoves DEF release, Crash, BaseInv, RunStep
<1>2. /\ UNCHANGED <<remote, part, dest, ckpt, lockFile, oldLocks, ages, partOf, mixed, destMixed>>
      /\ pc'[p] = "idle" /\ outcome'[p] = "none"
      /\ flight'[p] = AllQuiet /\ fd'[p] = "none" /\ held'[p] = 0
      /\ \A q \in Procs \ {p} : fd'[q] = fd[q]
  BY <1>1 DEF Reset, Goto, disk, history, counters, TypeInv, TypeOK
<1>3. InStep(p)' /\ Current(p)'
  BY <1>2, AtRest
<1> QED
  BY <1>1, <1>2, <1>3, BaseKept

\* The environment.
LEMMA WorldBase ==
    ASSUME BaseInv, (\E o \in Objects : ReplaceObject(o)) \/ Age \/ Finished \/ UNCHANGED vars
    PROVE  BaseInv'
<1> USE DEF disk, locks, history, blame, counters
<1>1. /\ TypeInv /\ TypeInv' /\ UNCHANGED <<part, dest, ckpt, fd, held, lockFile, partOf, mixed, destMixed>>
      /\ UNCHANGED <<pc, job, mem, flight, outcome>>
  BY WorldType DEF BaseInv, ReplaceObject, Age, Finished, vars
<1>2. ASSUME NEW q \in Procs PROVE InStep(q)' /\ Current(q)'
  <2>1. CASE \E o \in Objects : ReplaceObject(o)
    <3>1. PICK o \in Objects : ReplaceObject(o)
      BY <2>1
    <3>2. /\ excused'[q] = (excused[q] \/ (pc[q] # "idle" /\ job[q].obj = o))
          /\ \A x \in Objects \ {o} : remote'[x] = remote[x]
      BY <1>1, <3>1 DEF ReplaceObject, TypeInv, TypeOK
    <3>3. pc[q] \in Informed => pc[q] # "idle" /\ job[q].obj \in Objects
      BY Stands DEF Informed, Locking
    <3> QED
      BY <1>1, <1>2, <3>2, <3>3 DEF BaseInv, InStep, Current
  <2>2. CASE Age \/ Finished \/ UNCHANGED vars
    BY <1>1, <1>2, <2>2, Aside DEF Age, Finished, vars, Unmoved
  <2> QED
    BY <2>1, <2>2
<1>3. ApartInv'
  BY <1>1 DEF BaseInv, ApartInv, Working
<1>4. LockInv'
  <2>1. CASE Age
    <3>1. ages' = ages + 1 /\ oldLocks' = {o \in Objects : lockFile[o] # 0}
      BY <2>1 DEF Age
    <3>2. ages \in Nat /\ held \in [Procs -> Nat] /\ lockFile \in [Objects -> Nat]
      BY <1>1 DEF TypeInv, TypeOK
    <3> QED
      BY <1>1, <3>1, <3>2 DEF BaseInv, LockInv
  <2>2. CASE UNCHANGED <<oldLocks, ages>>
    BY <1>1, <2>2, LockSame
  <2> QED
    BY <2>1, <2>2 DEF ReplaceObject, Finished, vars
<1> QED
  BY <1>1, <1>2, <1>3, <1>4 DEF BaseInv

LEMMA BaseStep == ASSUME BaseInv, [Next]_vars PROVE BaseInv'
<1>1. ASSUME NEW p \in Procs, RunStep(p) PROVE BaseInv'
  BY <1>1, EntryBase, LockBase, LoadBase, WorkBase, PoolBase, RenameBase, ResetBase DEF RunStep, PoolStep, Entry
<1>2. CASE Environment
  BY <1>2, EntryBase, ResetBase, WorldBase DEF Environment, Entry
<1> QED
  BY <1>1, <1>2, WorldBase DEF Next

-----------------------------------------------------------------------------
(* What the files hold.                                                     *)

\* A .part file that is not mixed carries the checkpoint of the download it was
\* last taken for.
OnDisk ==
    part # None /\ ~ mixed =>
        partOf # None /\ (ckpt[partOf] # None => Carries(part, ckpt[partOf]))

\* So it does the checkpoint in the memory of the process at work on it, which is
\* one of the download it was asked for, and which the one on disk trails.
InMemory(p) ==
    /\ pc[p] \in InHand => mem[p].ver = job[p].ver /\ mem[p].ps = job[p].ps
    /\ pc[p] = "save" => part = None /\ mem[p].chunks = {}
    /\ pc[p] = "open" /\ part = None => mem[p].chunks = {}
    /\ pc[p] \in {"pool", "rename"} => part # None
    /\ pc[p] = "pool" => fd[p] = "part"
    /\ pc[p] \in {"open", "pool", "rename"} =>
        /\ part # None => Carries(part, mem[p])
        /\ LET c == ckpt[job[p].obj]
           IN  c # None => /\ c.ver = mem[p].ver /\ c.ps = mem[p].ps
                           /\ c.chunks \subseteq mem[p].chunks
    /\ pc[p] = "rename" => Missing(p) = {}

\* What is on its way to the file is of the version asked for, and a chunk whose
\* worker has reported it is there.
InFlight(p) ==
    \A n \in ChunkNo :
        /\ flight[p][n] \in Versions => flight[p][n] = job[p].ver
        /\ flight[p][n] = "acked" => \A u \in Chunk(p, n) : part[u] = job[p].ver

WorkInv(p) == InMemory(p) /\ InFlight(p)
AtWorkInv == ~ mixed => \A p \in Procs : Working(p) => WorkInv(p)

DataInv == OnDisk /\ AtWorkInv /\ DestWhole /\ SuccessMeansDest /\ UndisturbedRunSucceeds

IntegrityInv == BaseInv /\ DataInv

LEMMA IntegrityInit == Init => IntegrityInv
  BY BaseInit DEF Init, IntegrityInv, DataInv, OnDisk, AtWorkInv, Working, DestWhole, SuccessMeansDest,
     UndisturbedRunSucceeds

\* Whoever works on a .part file that is not mixed works on it alone.
LEMMA Alone ==
    ASSUME IntegrityInv, ~ mixed, NEW p \in Procs, pc[p] \in InHand
    PROVE  /\ TypeInv /\ Working(p) /\ WorkInv(p) /\ job[p].obj = partOf
           /\ \A q \in Procs \ {p} : ~ Working(q)
           /\ job[p].obj \in Objects /\ job[p].ver \in Versions /\ job[p].ver # None
           /\ mem[p] \in Checkpoints /\ mem[p].ver = job[p].ver /\ mem[p].ps = job[p].ps
           /\ outcome[p] # "done" /\ (outcome[p] = "failed" => excused[p])
           /\ part # None /\ ckpt[job[p].obj] # None => Carries(part, ckpt[job[p].obj])
<1>1. TypeInv /\ Working(p)
  BY Stands DEF IntegrityInv, Working, InHand, Locking
<1>2. WorkInv(p) /\ job[p].obj = partOf /\ \A q \in Procs \ {p} : ~ Working(q)
  BY <1>1 DEF IntegrityInv, BaseInv, ApartInv, DataInv, AtWorkInv
<1>3. job[p].obj \in Objects /\ job[p].ver \in Versions /\ job[p].ver # None
  BY Stands, NoneIsNothing DEF IntegrityInv, InHand, Informed, Locking
<1>4. mem[p] \in Checkpoints /\ mem[p].ver = job[p].ver /\ mem[p].ps = job[p].ps
  BY <1>1, <1>2 DEF WorkInv, InMemory, TypeInv, TypeOK, ProcShape
<1>5. outcome[p] # "done"
  BY Stands DEF IntegrityInv, InStep, InHand
<1>6. outcome[p] = "failed" => excused[p]
  BY DEF IntegrityInv, DataInv, UndisturbedRunSucceeds
<1>7. part # None /\ ckpt[job[p].obj] # None => Carries(part, ckpt[job[p].obj])
  BY <1>2 DEF IntegrityInv, DataInv, OnDisk
<1> QED
  BY <1>1, <1>2, <1>3, <1>4, <1>5, <1>6, <1>7

\* It is enough to look at the process at work, its object's checkpoint and its file.
LEMMA WorkKeeps ==
    ASSUME IntegrityInv, BaseInv', ~ mixed, NEW p \in Procs, pc[p] \in InHand,
           \A q \in Procs \ {p} : Unmoved(q), UNCHANGED <<partOf, mixed, job>>,
           pc'[p] \in InHand => WorkInv(p)', pc'[p] # "load",
           pc'[p] = "exit" => flight'[p] = AllQuiet,
           part' # None /\ ckpt'[job[p].obj] # None => Carries(part', ckpt'[job[p].obj]),
           \/ /\ UNCHANGED <<dest, destMixed>>
              /\ pc'[p] = "delete" => pc[p] = "delete"
              /\ outcome'[p] = "done" => pc[p] = "delete"
           \/ dest' = Whole(job[p].ver),
           outcome'[p] = "failed" => excused'[p]
    PROVE  DataInv'
<1>1. /\ Working(p) /\ job[p].obj = partOf /\ job[p].obj \in Objects /\ job[p].ver \in Versions
      /\ \A q \in Procs \ {p} : ~ Working(q)
  BY Alone
<1>2. OnDisk'
  BY <1>1, NoneIsNothing DEF OnDisk
<1>3. AtWorkInv'
  <2>1. ASSUME NEW q \in Procs, Working(q)' PROVE q = p
    BY <1>1, <2>1 DEF Working, Unmoved
  <2>2. ASSUME Working(p)', pc'[p] \notin InHand PROVE WorkInv(p)'
    <3>1. pc'[p] = "exit"
      BY <2>2 DEF Working, BaseInv, InStep, Locking, InHand
    <3> QED
      BY <3>1, QuietIs DEF WorkInv, InMemory, InFlight, InHand
  <2> QED
    BY <2>1, <2>2 DEF AtWorkInv
<1>4. DestWhole'
  BY <1>1 DEF DestWhole, IntegrityInv, DataInv
<1>5. SuccessMeansDest'
  <2> SUFFICES ASSUME NEW q \in Procs, pc'[q] = "delete" \/ outcome'[q] = "done", ~ destMixed'
               PROVE  dest' = Whole(job'[q].ver)
    BY DEF SuccessMeansDest
  <2>1. CASE q # p
    <3>1. pc[q] = "delete" \/ outcome[q] = "done"
      BY <2>1 DEF Unmoved
    <3>2. Working(q)
      BY <3>1 DEF IntegrityInv, BaseInv, InStep, Working, Locking
    <3> QED
      BY <1>1, <2>1, <3>2
  <2>2. CASE q = p
    BY <2>2 DEF IntegrityInv, DataInv, SuccessMeansDest
  <2> QED
    BY <2>1, <2>2
<1>6. UndisturbedRunSucceeds'
  <2>1. ASSUME NEW q \in Procs, outcome'[q] = "failed" PROVE excused'[q]
    BY <2>1 DEF Unmoved, IntegrityInv, DataInv, UndisturbedRunSucceeds
  <2> QED
    BY <2>1 DEF UndisturbedRunSucceeds
<1> QED
  BY <1>2, <1>3, <1>4, <1>5, <1>6 DEF DataInv

\* A run at work that ends because something outside the code went wrong.
LEMMA FailsAtWork ==
    ASSUME IntegrityInv, BaseInv', ~ mixed, NEW p \in Procs, pc[p] \in InHand,
           \A q \in Procs \ {p} : Unmoved(q), Mishap(p), End(p, "failed"),
           UNCHANGED <<part, dest, ckpt, job, history>>, flight'[p] = AllQuiet
    PROVE  DataInv'
<1>1. pc'[p] = "exit" /\ outcome'[p] = "failed" /\ excused'[p]
  BY Blames DEF IntegrityInv, BaseInv, TypeInv, TypeOK, End, Goto
<1> QED
  BY <1>1, Alone, WorkKeeps DEF InHand, history

\* Steps that leave the files and whoever works on them as they are, but for
\* checkpoints that disappear.
LEMMA Bystanders ==
    ASSUME IntegrityInv, BaseInv',
           UNCHANGED <<part, dest, partOf, mixed, destMixed>>,
           \A o \in Objects : ckpt'[o] \in {ckpt[o], None},
           \A q \in Procs : Working(q)' => Unmoved(q) /\ fd'[q] = fd[q],
           \A q \in Procs : outcome'[q] = "failed" => excused'[q] \/ (outcome[q] = "failed" /\ ~ excused[q])
    PROVE  DataInv'
<1>1. TypeInv /\ TypeInv'
  BY DEF IntegrityInv, BaseInv
<1>2. OnDisk'
  <2>1. partOf \in Objects \cup {None}
    BY <1>1 DEF TypeInv, TypeOK
  <2> QED
    BY <2>1 DEF OnDisk, IntegrityInv, DataInv
<1>3. AtWorkInv'
  <2> SUFFICES ASSUME ~ mixed, NEW q \in Procs, Working(q)' PROVE WorkInv(q)'
    BY DEF AtWorkInv
  <2>1. Unmoved(q) /\ fd'[q] = fd[q] /\ Working(q)
    BY DEF Working, Unmoved
  <2>2. WorkInv(q) /\ pc[q] # "idle" /\ job[q].obj \in Objects
    BY <2>1, Stands DEF IntegrityInv, DataInv, AtWorkInv, Working, InStep, Locking
  <2>3. Missing(q)' = Missing(q)
    BY <2>1 DEF Missing, Unmoved
  <2>4. ckpt'[job[q].obj] # None => ckpt'[job[q].obj] = ckpt[job[q].obj]
    BY <2>2
  <2>5. InMemory(q)'
    BY <2>1, <2>2, <2>3, <2>4 DEF WorkInv, InMemory, Unmoved
  <2>6. InFlight(q)'
    BY <2>1, <2>2 DEF WorkInv, InFlight, Unmoved, Chunk
  <2> QED
    BY <2>5, <2>6 DEF WorkInv
<1>4. DestWhole'
  BY DEF DestWhole, IntegrityInv, DataInv
<1>5. SuccessMeansDest'
  <2> SUFFICES ASSUME NEW q \in Procs, pc'[q] = "delete" \/ outcome'[q] = "done", ~ destMixed
               PROVE  dest = Whole(job'[q].ver)
    BY DEF SuccessMeansDest
  <2>1. Working(q)'
    BY DEF BaseInv, InStep, Working, Locking
  <2> QED
    BY <2>1 DEF Unmoved, IntegrityInv, DataInv, SuccessMeansDest
<1>6. UndisturbedRunSucceeds'
  BY DEF UndisturbedRunSucceeds, IntegrityInv, DataInv
<1> QED
  BY <1>2, <1>3, <1>4, <1>5, <1>6 DEF DataInv

\* Of a .part file that is mixed nothing is claimed, and a file that it may have
\* become is left alone.
LEMMA MixedKeeps ==
    ASSUME IntegrityInv, mixed, UNCHANGED <<mixed>>,
           UNCHANGED <<dest, destMixed>> \/ destMixed',
           \A q \in Procs : pc'[q] = "delete" \/ outcome'[q] = "done" =>
                destMixed' \/ ((pc[q] = "delete" \/ outcome[q] = "done") /\ job'[q] = job[q])
    PROVE  DataInv'
<1>1. OnDisk' /\ AtWorkInv' /\ UndisturbedRunSucceeds'
  BY DEF OnDisk, AtWorkInv, UndisturbedRunSucceeds
<1>2. DestWhole'
  BY DEF DestWhole, IntegrityInv, DataInv
<1>3. SuccessMeansDest'
  BY DEF SuccessMeansDest, IntegrityInv, DataInv
<1> QED
  BY <1>1, <1>2, <1>3 DEF DataInv

\* Steps before the .part file is taken, which leave the files alone and may discard
\* checkpoints.
LEMMA EntryKeeps ==
    ASSUME IntegrityInv, BaseInv', NEW p \in Procs, Entry(p) \/ acquireTransferLock(p)
    PROVE  DataInv'
<1> USE DEF disk, files, history
<1>1. /\ TypeInv /\ pc[p] \in {"idle", "gc", "locks", "head", "lock"}
      /\ \A q \in Procs \ {p} : Unmoved(q)
      /\ UNCHANGED <<part, dest, mem, fd, flight, history>>
      /\ \A o \in Objects : ckpt'[o] \in {ckpt[o], None}
  BY OneMoves DEF IntegrityInv, BaseInv, TypeInv, TypeOK, Entry, runResumableDownload, runLsBrowser, browseDownload,
     gcDownloadCheckpoints, gcCheckpoints, HeadObject, Begin, acquireTransferLock, RunStep, CollectStale, CollectLocks
<1>2. held[p] = 0 /\ outcome[p] \notin {"done", "failed"}
  BY <1>1, Stands DEF IntegrityInv
<1>3. ~ Working(p)' /\ (outcome'[p] = "failed" => excused'[p])
  <2>1. CASE Entry(p)
    <3>1. held'[p] = 0
      BY <1>2, <2>1 DEF Entry, runResumableDownload, runLsBrowser, browseDownload, gcDownloadCheckpoints,
         gcCheckpoints, HeadObject, Begin, CollectLocks, locks
    <3> QED
      BY <3>1 DEF Working, BaseInv, InStep
  <2>2. CASE acquireTransferLock(p)
    <3>1. CASE held' = [held EXCEPT ![p] = OpenedLock(job[p].obj)] /\ Goto(p, "load") /\ UNCHANGED outcome
      BY <1>1, <1>2, <3>1 DEF Working, Goto, TypeInv, TypeOK
    <3>2. CASE UNCHANGED held
      BY <1>2, <3>2 DEF Working, BaseInv, InStep
    <3> QED
      BY <2>2, <3>1, <3>2 DEF acquireTransferLock
  <2> QED
    BY <2>1, <2>2
<1>4. \A q \in Procs : Working(q)' => Unmoved(q) /\ fd'[q] = fd[q]
  BY <1>1, <1>3
<1>5. \A q \in Procs : outcome'[q] = "failed" => excused'[q] \/ (outcome[q] = "failed" /\ ~ excused[q])
  BY <1>1, <1>3 DEF Unmoved
<1> QED
  BY <1>1, <1>4, <1>5, Bystanders

\* The end of a run, or the death of its process.
LEMMA ResetKeeps ==
    ASSUME IntegrityInv, BaseInv', NEW p \in Procs, release(p) \/ Crash(p)
    PROVE  DataInv'
<1>1. Reset(p) /\ TypeInv /\ \A q \in Procs \ {p} : Unmoved(q)
  BY OneMoves DEF release, Crash, IntegrityInv, BaseInv, RunStep
<1>2. /\ UNCHANGED <<part, dest, ckpt, partOf, mixed, destMixed>>
      /\ outcome'[p] = "none" /\ held'[p] = 0 /\ \A q \in Procs \ {p} : fd'[q] = fd[q]
  BY <1>1 DEF Reset, disk, history, TypeInv, TypeOK
<1>3. \A q \in Procs : Working(q)' => Unmoved(q) /\ fd'[q] = fd[q]
  BY <1>1, <1>2 DEF Working
<1>4. \A q \in Procs : outcome'[q] = "failed" => excused'[q] \/ (outcome[q] = "failed" /\ ~ excused[q])
  BY <1>1, <1>2 DEF Unmoved
<1> QED
  BY <1>2, <1>3, <1>4, Bystanders

\* The environment.
LEMMA WorldKeeps ==
    ASSUME IntegrityInv, BaseInv', (\E o \in Objects : ReplaceObject(o)) \/ Age \/ Finished \/ UNCHANGED vars
    PROVE  DataInv'
<1> USE DEF disk, locks, history, blame, counters
<1>1. /\ UNCHANGED <<part, dest, ckpt, fd, held, partOf, mixed, destMixed>>
      /\ UNCHANGED <<pc, job, mem, flight, outcome>>
      /\ \A q \in Procs : excused[q] => excused'[q]
  BY DEF ReplaceObject, Age, Finished, vars
<1>2. \A q \in Procs : Working(q)' => Unmoved(q) /\ fd'[q] = fd[q]
  BY <1>1 DEF Unmoved
<1>3. \A q \in Procs : outcome'[q] = "failed" => excused'[q] \/ (outcome[q] = "failed" /\ ~ excused[q])
  BY <1>1
<1> QED
  BY <1>1, <1>2, <1>3, Bystanders

\* Whatever is done to a .part file that is mixed.
LEMMA MixedStep ==
    ASSUME IntegrityInv, BaseInv', mixed, NEW p \in Procs, RunStep(p),
           pc[p] \in InHand
    PROVE  DataInv'
<1> USE DEF disk, files, history, locks
<1>1. TypeInv /\ \A q \in Procs \ {p} : Unmoved(q)
  BY OneMoves DEF IntegrityInv, BaseInv
<1>2. fd[p] = "dest" => destMixed
  BY DEF IntegrityInv, BaseInv, ApartInv
<1>3. CASE SaveFresh(p) \/ OpenPart(p) \/ downloadMissingChunks(p)
  <2>1. UNCHANGED <<dest, job, history>> /\ pc'[p] # "delete" /\ outcome'[p] # "done"
    BY <1>1, <1>3, Stands DEF SaveFresh, OpenPart, downloadMissingChunks, Goto, End, TypeInv, TypeOK, IntegrityInv, InStep
  <2> QED
    BY <1>1, <2>1, MixedKeeps DEF Unmoved
<1>4. ASSUME NEW n \in ChunkNo,
             \/ downloadOneChunk(p, n) \/ GetObject(p, n) \/ WriteSome(p, n) \/ WriteChunk(p, n)
             \/ CallFails(p, n) \/ RecordChunk(p, n) \/ CollectError(p, n) \/ GiveUp(p, n)
      PROVE  DataInv'
  <2>1. /\ UNCHANGED <<job, pc, history>> /\ pc[p] = "pool"
        /\ UNCHANGED dest \/ fd[p] = "dest"
    BY <1>4 DEF downloadOneChunk, GetObject, WriteSome, WriteChunk, CallFails, RecordChunk, CollectError, GiveUp, Write
  <2>2. outcome'[p] # "done"
    BY <2>1 DEF BaseInv, InStep
  <2> QED
    BY <1>1, <1>2, <2>1, <2>2, MixedKeeps DEF Unmoved
<1>5. CASE RenamePart(p)
  <2>1. CASE destMixed' = mixed /\ UNCHANGED <<partOf, mixed>>
    BY <1>1, <2>1, MixedKeeps
  <2>2. CASE UNCHANGED <<files, history>> /\ End(p, "failed")
    <3>1. pc'[p] = "exit" /\ outcome'[p] = "failed" /\ job' = job
      BY <1>1, <1>5, <2>2 DEF RenamePart, End, Goto, TypeInv, TypeOK
    <3> QED
      BY <1>1, <2>2, <3>1, MixedKeeps DEF Unmoved
  <2> QED
    BY <1>5, <2>1, <2>2 DEF RenamePart
<1>6. CASE deleteDownloadCheckpoint(p)
  BY <1>1, <1>6, MixedKeeps DEF Unmoved, deleteDownloadCheckpoint
<1> QED
  BY <1>3, <1>4, <1>5, <1>6 DEF RunStep, PoolStep, InHand, gcDownloadCheckpoints, gcCheckpoints, HeadObject,
     acquireTransferLock, loadOrResetDownloadCheckpoint, release

\* Taking the .part file: as the checkpoint has it, or afresh.
LEMMA LoadKeeps ==
    ASSUME IntegrityInv, BaseInv', NEW p \in Procs, loadOrResetDownloadCheckpoint(p)
    PROVE  DataInv'
<1> DEFINE o == job[p].obj
           c == ckpt[o]
           fresh == [ver |-> job[p].ver, ps |-> job[p].ps, chunks |-> {}]
<1>1. /\ TypeInv /\ pc[p] = "load" /\ \A q \in Procs \ {p} : Unmoved(q)
      /\ UNCHANGED <<remote, dest, ckpt, job, flight, held, outcome, excused, destMixed>>
      /\ flight[p] = AllQuiet /\ outcome[p] \notin {"done", "failed"} /\ o \in Objects
  BY OneMoves, Stands DEF loadOrResetDownloadCheckpoint, RunStep, IntegrityInv, BaseInv, files, RemovePart, TakePart, locks,
     blame
<1>2. pc'[p] \in {"open", "save"} /\ held'[p] # 0
  BY <1>1, Stands DEF loadOrResetDownloadCheckpoint, Goto, TypeInv, TypeOK, IntegrityInv, Locking
<1>3. partOf' = o /\ (mixed' = (Others(p) # {} \/ (Reusable(c, job[p]) /\ (mixed \/ partOf # o))))
  BY DEF loadOrResetDownloadCheckpoint, TakePart
<1>4. \A q \in Procs : pc'[q] = "delete" \/ outcome'[q] = "done" => pc[q] = "delete" \/ outcome[q] = "done"
  BY <1>1, <1>2 DEF Unmoved
<1>5. DestWhole' /\ SuccessMeansDest'
  BY <1>1, <1>4 DEF DestWhole, SuccessMeansDest, IntegrityInv, DataInv
<1>6. UndisturbedRunSucceeds'
  <2> SUFFICES ASSUME NEW q \in Procs, outcome[q] = "failed", ~ excused[q], ~ mixed' PROVE FALSE
    BY <1>1 DEF UndisturbedRunSucceeds
  <2>1. pc[q] \in {"pool", "exit"} /\ held[q] # 0 /\ q # p
    BY <1>1 DEF IntegrityInv, BaseInv, InStep, Locking
  <2>2. Working(q)' /\ Working(p)'
    BY <1>1, <1>2, <2>1 DEF Working, Unmoved
  <2> QED
    BY <2>1, <2>2 DEF BaseInv, ApartInv
<1>7. OnDisk' /\ AtWorkInv'
  <2> SUFFICES ASSUME ~ mixed'
               PROVE  /\ part' # None => o # None /\ (c # None => Carries(part', c))
                      /\ \A q \in Procs : Working(q)' => WorkInv(q)'
    BY <1>1, <1>3 DEF OnDisk, AtWorkInv
  <2>1. ASSUME NEW q \in Procs, Working(q)' PROVE q = p
    BY <1>2, <2>1 DEF Working, BaseInv, ApartInv
  <2>2. InFlight(p)'
    BY <1>1, QuietIs DEF InFlight
  <2>3. CASE Reusable(c, job[p]) /\ mem' = [mem EXCEPT ![p] = c] /\ Goto(p, "open") /\ UNCHANGED files
    <3>1. ~ mixed /\ partOf = o /\ part # None /\ part' = part /\ c # None /\ c.ver = job[p].ver /\ c.ps = job[p].ps
      BY <1>3, <2>3 DEF Reusable, files
    <3>2. o # None /\ Carries(part, c)
      BY <3>1 DEF IntegrityInv, DataInv, OnDisk
    <3>3. mem'[p] = c /\ pc'[p] = "open"
      BY <1>1, <2>3 DEF TypeInv, TypeOK, Goto
    <3>4. InMemory(p)'
      BY <1>1, <3>1, <3>2, <3>3 DEF InMemory, InHand
    <3> QED
      BY <2>1, <2>2, <3>1, <3>2, <3>4 DEF WorkInv
  <2>4. CASE mem' = [mem EXCEPT ![p] = fresh] /\ RemovePart /\ Goto(p, "save")
    <3>1. part' = None /\ mem'[p] = fresh /\ pc'[p] = "save"
      BY <1>1, <2>4 DEF RemovePart, TypeInv, TypeOK, Goto
    <3>2. InMemory(p)'
      BY <1>1, <3>1 DEF InMemory, InHand
    <3> QED
      BY <2>1, <2>2, <3>1, <3>2 DEF WorkInv
  <2> QED
    BY <2>3, <2>4 DEF loadOrResetDownloadCheckpoint
<1> QED
  BY <1>5, <1>6, <1>7 DEF DataInv

LEMMA SaveKeeps ==
    ASSUME IntegrityInv, BaseInv', ~ mixed, NEW p \in Procs, SaveFresh(p)
    PROVE  DataInv'
<1>1. /\ pc[p] = "save" /\ pc[p] \in InHand /\ TypeInv /\ \A q \in Procs \ {p} : Unmoved(q)
      /\ UNCHANGED <<remote, part, dest, fd, job, mem, flight, history>>
  BY OneMoves DEF SaveFresh, RunStep, InHand, IntegrityInv, BaseInv, files
<1>2. /\ flight[p] = AllQuiet /\ outcome[p] \notin {"done", "failed"} /\ job[p].obj \in Objects
      /\ mem[p].ver = job[p].ver /\ mem[p].ps = job[p].ps
      /\ part = None /\ mem[p].chunks = {}
  BY <1>1, Alone, Stands DEF IntegrityInv, WorkInv, InMemory
<1>3. CASE saveDownloadCheckpoint(job[p].obj, mem[p]) /\ Goto(p, "open") /\ Calm /\ UNCHANGED outcome
  <2>1. pc'[p] = "open" /\ ckpt'[job[p].obj] = mem[p]
    BY <1>1, <1>2, <1>3 DEF Goto, saveDownloadCheckpoint, TypeInv, TypeOK
  <2>2. WorkInv(p)'
    BY <1>1, <1>2, <2>1, QuietIs DEF WorkInv, InMemory, InFlight, InHand
  <2> QED
    BY <1>1, <1>2, <1>3, <2>1, <2>2, WorkKeeps DEF history
<1>4. CASE Mishap(p) /\ End(p, "failed") /\ UNCHANGED <<ckpt, stale>>
  BY <1>1, <1>2, <1>4, FailsAtWork DEF history
<1> QED
  BY <1>3, <1>4 DEF SaveFresh

LEMMA OpenKeeps ==
    ASSUME IntegrityInv, BaseInv', ~ mixed, NEW p \in Procs, OpenPart(p)
    PROVE  DataInv'
<1> DEFINE c == ckpt[job[p].obj]
<1>1. /\ pc[p] = "open" /\ pc[p] \in InHand /\ TypeInv /\ \A q \in Procs \ {p} : Unmoved(q)
      /\ UNCHANGED <<remote, dest, ckpt, job, mem, flight, history>>
  BY OneMoves DEF OpenPart, RunStep, InHand, IntegrityInv, BaseInv
<1>2. /\ flight[p] = AllQuiet /\ outcome[p] \notin {"done", "failed"} /\ job[p].obj \in Objects
      /\ mem[p] \in Checkpoints /\ mem[p].ver = job[p].ver /\ mem[p].ps = job[p].ps
      /\ part = None => mem[p].chunks = {}
      /\ part # None => Carries(part, mem[p])
      /\ c # None => c.ver = mem[p].ver /\ c.ps = mem[p].ps /\ c.chunks \subseteq mem[p].chunks
      /\ part # None /\ c # None => Carries(part, c)
  BY <1>1, Alone, Stands DEF IntegrityInv, WorkInv, InMemory
<1>3. CASE /\ part' = IF part = None THEN Blank ELSE part
           /\ fd' = [fd EXCEPT ![p] = "part"]
           /\ Goto(p, "pool") /\ Calm /\ UNCHANGED outcome
  <2>1. pc'[p] = "pool" /\ fd'[p] = "part"
    BY <1>1, <1>3 DEF Goto, TypeInv, TypeOK
  <2>2. part' # None /\ Carries(part', mem[p]) /\ (c # None => Carries(part', c))
    <3>1. CASE part = None
      <4>1. \A k \in Checkpoints : k.chunks = {} => Carries(Blank, k)
        BY DEF Carries, Pure, Backs, Blank
      <4>2. c \in Checkpoints \cup {None} /\ (c # None => c.chunks = {})
        BY <1>1, <1>2, <3>1 DEF TypeInv, TypeOK
      <4>3. part' = Blank /\ Blank # None
        BY <1>3, <3>1, NoneIsNothing DEF Blank, Files
      <4> QED
        BY <1>2, <3>1, <4>1, <4>2, <4>3
    <3>2. CASE part # None
      BY <1>2, <1>3, <3>2
    <3> QED
      BY <3>1, <3>2
  <2>3. WorkInv(p)'
    BY <1>1, <1>2, <2>1, <2>2, QuietIs DEF WorkInv, InMemory, InFlight, InHand
  <2> QED
    BY <1>1, <1>2, <1>3, <2>1, <2>2, <2>3, WorkKeeps DEF history
<1>4. CASE Mishap(p) /\ End(p, "failed") /\ UNCHANGED <<part, fd>>
  BY <1>1, <1>2, <1>4, FailsAtWork DEF history
<1> QED
  BY <1>3, <1>4 DEF OpenPart

\* A checkpoint on disk that trails the one in memory is carried with it.
LEMMA CarriesLess ==
    ASSUME NEW f, NEW c, NEW m, Carries(f, m), c.ver = m.ver, c.ps = m.ps, c.chunks \subseteq m.chunks
    PROVE  Carries(f, c)
  BY DEF Carries, Backs

LEMMA InPool ==
    ASSUME IntegrityInv, ~ mixed, NEW p \in Procs, pc[p] = "pool"
    PROVE  /\ TypeInv /\ WorkInv(p) /\ pc[p] \in InHand
           /\ part \in Files /\ part # None /\ fd[p] = "part"
           /\ flight[p] \in [ChunkNo -> FlightStates \cup Versions]
           /\ job[p].obj \in Objects /\ job[p].ver \in Versions
           /\ mem[p] \in Checkpoints /\ mem[p].ver = job[p].ver /\ mem[p].ps = job[p].ps
           /\ Carries(part, mem[p])
           /\ ckpt[job[p].obj] # None =>
                /\ ckpt[job[p].obj].ver = mem[p].ver /\ ckpt[job[p].obj].ps = mem[p].ps
                /\ ckpt[job[p].obj].chunks \subseteq mem[p].chunks
           /\ outcome[p] # "done" /\ (outcome[p] = "failed" => excused[p])
<1>1. pc[p] \in InHand
  BY DEF InHand
<1> QED
  BY <1>1, Alone DEF WorkInv, InMemory, TypeInv, TypeOK

\* Steps of the pool, between its start and its end.
LEMMA PoolKeeps ==
    ASSUME IntegrityInv, BaseInv', ~ mixed, NEW p \in Procs, pc[p] = "pool",
           UNCHANGED <<pc, job, dest, fd, history>>,
           \A q \in Procs \ {p} : Unmoved(q),
           part' # None, mem'[p].ver = mem[p].ver, mem'[p].ps = mem[p].ps,
           Carries(part', mem'[p]),
           ckpt'[job[p].obj] # None =>
                /\ ckpt'[job[p].obj].ver = mem[p].ver /\ ckpt'[job[p].obj].ps = mem[p].ps
                /\ ckpt'[job[p].obj].chunks \subseteq mem'[p].chunks,
           InFlight(p)', outcome'[p] = "failed" => excused'[p]
    PROVE  DataInv'
<1>1. mem[p].ver = job[p].ver /\ mem[p].ps = job[p].ps /\ fd[p] = "part"
  BY InPool
<1>2. WorkInv(p)'
  BY <1>1 DEF WorkInv, InMemory, InHand
<1>3. ckpt'[job[p].obj] # None => Carries(part', ckpt'[job[p].obj])
  BY CarriesLess
<1>4. outcome'[p] # "done"
  BY DEF BaseInv, InStep
<1> QED
  BY <1>2, <1>3, <1>4, WorkKeeps DEF InHand, history

\* A worker's request, its answer or its failure, and the collector's errors.
LEMMA RequestKeeps ==
    ASSUME IntegrityInv, BaseInv', ~ mixed, NEW p \in Procs, NEW n \in ChunkNo,
           \/ downloadOneChunk(p, n) \/ GetObject(p, n) \/ CallFails(p, n)
           \/ CollectError(p, n) \/ GiveUp(p, n)
    PROVE  DataInv'
<1>0. RunStep(p)
  BY DEF PoolStep, RunStep
<1>1. /\ pc[p] = "pool" /\ UNCHANGED <<remote, disk, pc, job, mem, fd, history>>
      /\ Mishap(p) \/ Calm
      /\ \A q \in Procs \ {p} : Unmoved(q)
  BY <1>0, OneMoves DEF IntegrityInv, BaseInv, Calm, downloadOneChunk, GetObject, CallFails, CollectError, GiveUp
<1>2. /\ TypeInv /\ WorkInv(p) /\ job[p].ver \in Versions /\ part # None /\ Carries(part, mem[p])
      /\ outcome[p] = "failed" => excused[p]
      /\ excused[p] \/ \A m \in ChunkNo : flight[p][m] # "failed"
      /\ ckpt[job[p].obj] # None =>
            /\ ckpt[job[p].obj].ver = mem[p].ver /\ ckpt[job[p].obj].ps = mem[p].ps
            /\ ckpt[job[p].obj].chunks \subseteq mem[p].chunks
  BY <1>1, InPool DEF IntegrityInv, BaseInv, Current
<1>3. excused[p] => excused'[p]
  BY <1>1, <1>2, Blames
<1>4. ASSUME NEW s, SetFlight(p, n, s), s \in {"quiet", "sent", "failed", job[p].ver},
             UNCHANGED outcome \/ (outcome' = [outcome EXCEPT ![p] = "failed"] /\ excused'[p])
      PROVE  DataInv'
  <2>1. flight'[p][n] = s /\ \A m \in ChunkNo \ {n} : flight'[p][m] = flight[p][m]
    BY <1>2, <1>4, FlightIs
  <2>2. InFlight(p)'
    BY <1>1, <1>2, <1>4, <2>1, QuietIs DEF WorkInv, InFlight, Chunk, disk
  <2>3. outcome'[p] = "failed" => excused'[p]
    BY <1>2, <1>3, <1>4
  <2> QED
    BY <1>1, <1>2, <2>2, <2>3, PoolKeeps DEF disk
<1>5. CASE downloadOneChunk(p, n)
  BY <1>4, <1>5 DEF downloadOneChunk
<1>6. CASE GetObject(p, n)
  <2>1. Served(p) \in {"failed", job[p].ver}
    BY DEF Served
  <2> QED
    BY <1>4, <1>6, <2>1 DEF GetObject
<1>7. CASE CallFails(p, n)
  BY <1>4, <1>7 DEF CallFails
<1>8. CASE CollectError(p, n)
  BY <1>2, <1>3, <1>4, <1>8 DEF CollectError
<1>9. CASE GiveUp(p, n)
  BY <1>4, <1>9 DEF GiveUp
<1> QED
  BY <1>5, <1>6, <1>7, <1>8, <1>9

\* Bytes that reach the file.
LEMMA WriteKeeps ==
    ASSUME IntegrityInv, BaseInv', ~ mixed, NEW p \in Procs, NEW n \in ChunkNo,
           WriteSome(p, n) \/ WriteChunk(p, n)
    PROVE  DataInv'
<1> DEFINE v == job[p].ver
           Over(us) == [u \in Offsets |-> IF u \in us THEN v ELSE part[u]]
<1>0. RunStep(p)
  BY DEF PoolStep, RunStep
<1>1. /\ pc[p] = "pool" /\ UNCHANGED <<remote, ckpt, pc, job, mem, fd, history, outcome, excused>>
      /\ \A q \in Procs \ {p} : Unmoved(q)
  BY <1>0, OneMoves DEF IntegrityInv, BaseInv, WriteSome, WriteChunk, blame
<1>2. /\ TypeInv /\ WorkInv(p) /\ v \in Versions /\ part \in Files /\ part # None /\ Carries(part, mem[p])
      /\ mem[p] \in Checkpoints /\ mem[p].ver = v /\ fd[p] = "part"
      /\ outcome[p] = "failed" => excused[p]
      /\ ckpt[job[p].obj] # None =>
            /\ ckpt[job[p].obj].ver = mem[p].ver /\ ckpt[job[p].obj].ps = mem[p].ps
            /\ ckpt[job[p].obj].chunks \subseteq mem[p].chunks
  BY <1>1, InPool
<1>3. flight[p][n] = v
  BY <1>2 DEF WriteSome, WriteChunk, WorkInv, InFlight
<1>4. ASSUME NEW us \in SUBSET Chunk(p, n), Write(p, v, us),
             UNCHANGED flight \/ (us = Chunk(p, n) /\ SetFlight(p, n, "acked"))
      PROVE  DataInv'
  <2>1. dest' = dest /\ part' = Over(us)
    BY <1>2, <1>4 DEF Write
  <2>2. us \in SUBSET (0 .. Size[v] - 1)
    BY <1>4 DEF Chunk, chunkRange
  <2>3. Pure(part, v) /\ Backs(part, mem[p])
    BY <1>2 DEF Carries
  <2>4. /\ part' \in Files /\ Pure(part', v)
        /\ \A u \in us : part'[u] = v
        /\ \A u \in Offsets : part[u] = v => part'[u] = v
        /\ \A c \in Checkpoints : c.ver = v /\ Backs(part, c) => Backs(part', c)
    BY <1>2, <2>1, <2>2, <2>3, WriteCarries
  <2>5. part' # None /\ Carries(part', mem[p])
    BY <1>2, <2>3, <2>4, NoneIsNothing DEF Carries
  <2>6. /\ flight'[p] = flight[p] \/ (us = Chunk(p, n) /\ flight'[p][n] = "acked")
        /\ \A m \in ChunkNo \ {n} : flight'[p][m] = flight[p][m]
    BY <1>2, <1>4, FlightIs
  <2>7. \A m \in ChunkNo : Chunk(p, m) \subseteq Offsets
    BY <1>2, DownloadInputs DEF Chunk, chunkRange, Offsets
  <2>8. InFlight(p)'
    <3> SUFFICES ASSUME NEW m \in ChunkNo
                 PROVE  /\ flight'[p][m] \in Versions => flight'[p][m] = v
                        /\ flight'[p][m] = "acked" => \A u \in Chunk(p, m) : part'[u] = v
      BY <1>1 DEF InFlight, Chunk
    <3>1. /\ flight[p][m] \in Versions => flight[p][m] = v
          /\ flight[p][m] = "acked" => \A u \in Chunk(p, m) : part[u] = v
      BY <1>2 DEF WorkInv, InFlight
    <3> QED
      BY <2>4, <2>6, <2>7, <3>1, QuietIs
  <2> QED
    BY <1>1, <1>2, <2>1, <2>5, <2>8, PoolKeeps
<1>5. CASE WriteSome(p, n)
  BY <1>3, <1>4, <1>5 DEF WriteSome
<1>6. CASE WriteChunk(p, n)
  BY <1>3, <1>4, <1>6 DEF WriteChunk
<1> QED
  BY <1>5, <1>6

\* The collector's record of a chunk.
LEMMA RecordKeeps ==
    ASSUME IntegrityInv, BaseInv', ~ mixed, NEW p \in Procs, NEW n \in ChunkNo, RecordChunk(p, n)
    PROVE  DataInv'
<1> DEFINE o == job[p].obj
<1>0. RunStep(p)
  BY DEF PoolStep, RunStep
<1>1. /\ pc[p] = "pool" /\ UNCHANGED <<remote, part, dest, fd, pc, job, history>>
      /\ Mishap(p) \/ Calm
      /\ flight[p][n] = "acked" /\ SetFlight(p, n, "quiet")
      /\ mem' = [mem EXCEPT ![p].chunks = @ \cup {n}]
      /\ \A q \in Procs \ {p} : Unmoved(q)
  BY <1>0, OneMoves DEF IntegrityInv, BaseInv, RecordChunk, files
<1>2. /\ TypeInv /\ WorkInv(p) /\ part # None /\ Carries(part, mem[p]) /\ o \in Objects
      /\ mem[p] \in Checkpoints /\ mem[p].ver = job[p].ver /\ mem[p].ps = job[p].ps
      /\ outcome[p] = "failed" => excused[p]
      /\ ckpt[o] # None => /\ ckpt[o].ver = mem[p].ver /\ ckpt[o].ps = mem[p].ps
                           /\ ckpt[o].chunks \subseteq mem[p].chunks
  BY <1>1, InPool
<1>3. mem'[p].ver = mem[p].ver /\ mem'[p].ps = mem[p].ps /\ mem'[p].chunks = mem[p].chunks \cup {n}
  <2>1. [mem[p] EXCEPT !.chunks = @ \cup {n}] =
            [ver |-> mem[p].ver, ps |-> mem[p].ps, chunks |-> mem[p].chunks \cup {n}]
    BY <1>2 DEF Checkpoints
  <2> QED
    BY <1>1, <1>2, <2>1 DEF TypeInv, TypeOK
<1>4. \A u \in Chunk(p, n) : part[u] = job[p].ver
  BY <1>1, <1>2 DEF WorkInv, InFlight
<1>5. Carries(part, mem'[p])
  BY <1>2, <1>3, <1>4 DEF Carries, Backs, Chunk
<1>6. flight'[p][n] = "quiet" /\ \A m \in ChunkNo \ {n} : flight'[p][m] = flight[p][m]
  BY <1>1, <1>2, FlightIs
<1>7. InFlight(p)'
  BY <1>1, <1>2, <1>6, QuietIs DEF WorkInv, InFlight, Chunk
<1>8. /\ ckpt'[o] \in {mem'[p], ckpt[o]}
      /\ UNCHANGED outcome \/ (Mishap(p) /\ outcome' = [outcome EXCEPT ![p] = "failed"])
  BY <1>2 DEF RecordChunk, saveDownloadCheckpoint, TypeInv, TypeOK
<1>9. outcome'[p] = "failed" => excused'[p]
  BY <1>1, <1>2, <1>8, Blames
<1> QED
  BY <1>1, <1>2, <1>3, <1>5, <1>7, <1>8, <1>9, PoolKeeps

\* The pool ends: with every chunk on record, or with an error.
LEMMA PoolEndKeeps ==
    ASSUME IntegrityInv, BaseInv', ~ mixed, NEW p \in Procs, downloadMissingChunks(p)
    PROVE  DataInv'
<1> DEFINE c == ckpt[job[p].obj]
<1>0. RunStep(p)
  BY DEF PoolStep, RunStep
<1>1. /\ pc[p] = "pool" /\ UNCHANGED <<remote, disk, job, mem, flight, history>>
      /\ Busy(p) = {} /\ \A q \in Procs \ {p} : Unmoved(q)
  BY <1>0, OneMoves DEF IntegrityInv, BaseInv, downloadMissingChunks
<1>2. /\ TypeInv /\ pc[p] \in InHand /\ part # None /\ Carries(part, mem[p])
      /\ mem[p].ver = job[p].ver /\ mem[p].ps = job[p].ps
      /\ outcome[p] # "done" /\ (outcome[p] = "failed" => excused[p])
      /\ flight[p] \in [ChunkNo -> FlightStates \cup Versions]
      /\ c # None => c.ver = mem[p].ver /\ c.ps = mem[p].ps /\ c.chunks \subseteq mem[p].chunks
      /\ c # None => Carries(part, c)
  BY <1>1, InPool, CarriesLess
<1>3. flight[p] = AllQuiet
  <2>1. \A n \in ChunkNo : flight[p][n] = "quiet"
    BY <1>1 DEF Busy
  <2> QED
    BY <1>2, <2>1 DEF AllQuiet
<1>4. CASE outcome[p] = "failed" /\ Goto(p, "exit") /\ Calm /\ UNCHANGED outcome
  <2>1. pc'[p] = "exit" /\ excused'[p]
    BY <1>2, <1>4 DEF Goto, Calm, blame, TypeInv, TypeOK
  <2> QED
    BY <1>1, <1>2, <1>3, <1>4, <2>1, WorkKeeps DEF disk, history, InHand
<1>5. CASE outcome[p] = "none" /\ Missing(p) = {} /\ Goto(p, "rename") /\ Calm /\ UNCHANGED outcome
  <2>1. pc'[p] = "rename" /\ UNCHANGED outcome
    BY <1>2, <1>5 DEF Goto, TypeInv, TypeOK
  <2>2. Missing(p)' = {}
    BY <1>1, <1>5 DEF Missing
  <2>3. WorkInv(p)'
    BY <1>1, <1>2, <1>3, <2>1, <2>2, QuietIs DEF WorkInv, InMemory, InFlight, InHand, disk
  <2> QED
    BY <1>1, <1>2, <1>5, <2>1, <2>3, WorkKeeps DEF disk, history
<1>6. CASE Mishap(p) /\ End(p, "failed")
  BY <1>1, <1>2, <1>3, <1>6, FailsAtWork DEF disk
<1> QED
  BY <1>4, <1>5, <1>6 DEF downloadMissingChunks

\* The rename puts a whole version at the destination.
LEMMA RenameKeeps ==
    ASSUME IntegrityInv, BaseInv', ~ mixed, NEW p \in Procs, RenamePart(p)
    PROVE  DataInv'
<1>1. /\ pc[p] = "rename" /\ pc[p] \in InHand /\ UNCHANGED <<remote, ckpt, job, mem, flight>>
      /\ \A q \in Procs \ {p} : Unmoved(q)
  BY OneMoves DEF RenamePart, RunStep, InHand, IntegrityInv, BaseInv
<1>2. /\ TypeInv /\ part # None /\ part \in Files /\ Carries(part, mem[p])
      /\ flight[p] = AllQuiet /\ outcome[p] \notin {"done", "failed"}
      /\ mem[p] \in Checkpoints /\ mem[p].ver = job[p].ver /\ mem[p].ps = job[p].ps
      /\ Missing(p) = {}
  BY <1>1, Alone, Stands DEF IntegrityInv, WorkInv, InMemory, TypeInv, TypeOK
<1>3. CASE /\ dest' = part /\ part' = None
           /\ destMixed' = mixed /\ UNCHANGED <<partOf, mixed>>
           /\ Goto(p, "delete") /\ Calm /\ UNCHANGED outcome
  <2>1. 1 .. numChunks(Size[mem[p].ver], mem[p].ps) \subseteq mem[p].chunks
    BY <1>2 DEF Missing
  <2>2. dest' = Whole(job[p].ver)
    BY <1>2, <1>3, <2>1, CarriesAll
  <2>3. pc'[p] = "delete" /\ UNCHANGED outcome
    BY <1>2, <1>3 DEF Goto, TypeInv, TypeOK
  <2>4. WorkInv(p)'
    BY <1>1, <1>2, <2>3, QuietIs DEF WorkInv, InMemory, InFlight, InHand
  <2> QED
    BY <1>1, <1>2, <1>3, <2>2, <2>3, <2>4, WorkKeeps
<1>4. CASE Mishap(p) /\ End(p, "failed") /\ UNCHANGED <<files, history>>
  BY <1>1, <1>2, <1>4, FailsAtWork DEF files
<1> QED
  BY <1>2, <1>3, <1>4 DEF RenamePart

LEMMA DeleteKeeps ==
    ASSUME IntegrityInv, BaseInv', ~ mixed, NEW p \in Procs, deleteDownloadCheckpoint(p)
    PROVE  DataInv'
<1>1. /\ pc[p] = "delete" /\ pc[p] \in InHand /\ End(p, "done") /\ TypeInv
      /\ UNCHANGED <<remote, part, dest, fd, job, mem, flight, history>>
      /\ \A q \in Procs \ {p} : Unmoved(q)
  BY OneMoves DEF deleteDownloadCheckpoint, RunStep, InHand, IntegrityInv, BaseInv, files
<1>2. /\ flight[p] = AllQuiet /\ job[p].obj \in Objects
      /\ part # None /\ ckpt[job[p].obj] # None => Carries(part, ckpt[job[p].obj])
  BY <1>1, Alone, Stands DEF IntegrityInv
<1>3. ckpt'[job[p].obj] \in {None, ckpt[job[p].obj]}
  BY <1>1, <1>2 DEF deleteDownloadCheckpoint, saveDownloadCheckpoint, TypeInv, TypeOK
<1>4. pc'[p] = "exit" /\ outcome'[p] = "done"
  BY <1>1 DEF End, Goto, TypeInv, TypeOK
<1> QED
  BY <1>1, <1>2, <1>3, <1>4, WorkKeeps DEF history, InHand

LEMMA IntegrityStep == ASSUME IntegrityInv, [Next]_vars PROVE IntegrityInv'
<1>0. BaseInv'
  BY BaseStep DEF IntegrityInv
<1>1. ASSUME NEW p \in Procs, RunStep(p) PROVE DataInv'
  <2>1. CASE Entry(p) \/ acquireTransferLock(p) \/ loadOrResetDownloadCheckpoint(p) \/ release(p)
    BY <1>0, <2>1, EntryKeeps, LoadKeeps, ResetKeeps
  <2>2. CASE /\ pc[p] \in InHand
             /\ \/ SaveFresh(p) \/ OpenPart(p) \/ PoolStep(p) \/ RenamePart(p) \/ deleteDownloadCheckpoint(p)
    <3>1. CASE mixed
      BY <1>0, <1>1, <2>2, <3>1, MixedStep
    <3>2. CASE ~ mixed
      BY <1>0, <2>2, <3>2, SaveKeeps, OpenKeeps, RequestKeeps, WriteKeeps, RecordKeeps, PoolEndKeeps, RenameKeeps,
         DeleteKeeps DEF PoolStep
    <3> QED
      BY <3>1, <3>2
  <2>3. SaveFresh(p) \/ OpenPart(p) \/ RenamePart(p) \/ deleteDownloadCheckpoint(p) => pc[p] \in InHand
    BY DEF SaveFresh, OpenPart, RenamePart, deleteDownloadCheckpoint, InHand
  <2>4. PoolStep(p) => pc[p] \in InHand
    BY DEF PoolStep, downloadOneChunk, GetObject, WriteSome, WriteChunk, CallFails, RecordChunk, CollectError, GiveUp,
       downloadMissingChunks, InHand
  <2> QED
    BY <1>1, <2>1, <2>2, <2>3, <2>4 DEF RunStep, Entry
<1>2. ASSUME NEW p \in Procs, Entry(p) \/ Crash(p) PROVE DataInv'
  BY <1>0, <1>2, EntryKeeps, ResetKeeps
<1>3. (\E o \in Objects : ReplaceObject(o)) \/ Age \/ Finished \/ UNCHANGED vars => DataInv'
  BY <1>0, WorldKeeps
<1>4. DataInv'
  BY <1>1, <1>2, <1>3 DEF Next, Environment, Entry
<1> QED
  BY <1>0, <1>4 DEF IntegrityInv

LEMMA IntegrityInvariant == Spec => []IntegrityInv
<1>1. IntegrityInv /\ [Next]_vars => IntegrityInv'
  BY IntegrityStep
<1> QED
  BY <1>1, IntegrityInit, PTL DEF Spec

\* Whatever was interrupted, resumed, replaced or re-cut in between, what stands at
\* the destination is one version of one object from its first byte to its last,
\* unless two downloads wrote the .part it was made from.
THEOREM DestIsWhole == Spec => []DestWhole
<1>1. IntegrityInv => DestWhole
  BY DEF IntegrityInv, DataInv
<1> QED
  BY <1>1, IntegrityInvariant, PTL

\* A run past its rename, and one that reports success, has put there the version
\* that HeadObject told it, under the same condition.
THEOREM SuccessIsDest == Spec => []SuccessMeansDest
<1>1. IntegrityInv => SuccessMeansDest
  BY DEF IntegrityInv, DataInv
<1> QED
  BY <1>1, IntegrityInvariant, PTL

\* The .part file has the bytes of every chunk on record for the download it was last
\* taken for, whichever objects had the path before, unless another download had a
\* hand in it.
THEOREM PartIsItsOwn == Spec => []PartBelongs
<1>1. IntegrityInv => PartBelongs
  BY DEF IntegrityInv, DataInv, OnDisk, PartBelongs, Carries
<1> QED
  BY <1>1, IntegrityInvariant, PTL

\* A run fails only if a crash, a failed call or a replaced object hit that very run,
\* or another download its .part file.
THEOREM UndisturbedSucceeds == Spec => []UndisturbedRunSucceeds
<1>1. IntegrityInv => UndisturbedRunSucceeds
  BY DEF IntegrityInv, DataInv
<1> QED
  BY <1>1, IntegrityInvariant, PTL

\* No step asks again for a chunk that the checkpoint on disk has on record, unless
\* another download had a hand in the .part file.
THEOREM NoneFetchedTwice == Spec => NoChunkFetchedTwice
<1> DEFINE Fresh == \A p \in Procs : \A n \in ChunkNo :
                        flight[p][n] = "quiet" /\ flight'[p][n] = "sent" /\ ~ mixed =>
                            ~ (ckpt[job[p].obj] # None /\ n \in ckpt[job[p].obj].chunks)
<1>1. IntegrityInv /\ [Next]_vars => [Fresh]_vars
  <2> SUFFICES ASSUME IntegrityInv, Next, NEW p \in Procs, NEW n \in ChunkNo,
                      flight[p][n] = "quiet", flight'[p][n] = "sent", ~ mixed
               PROVE  ~ (ckpt[job[p].obj] # None /\ n \in ckpt[job[p].obj].chunks)
    OBVIOUS
  <2>1. downloadOneChunk(p, n)
    <3>1. flight \in [Procs -> [ChunkNo -> FlightStates \cup Versions]] /\ TypeInv
      BY DEF IntegrityInv, BaseInv, TypeInv, TypeOK
    <3>2. flight' # flight
      OBVIOUS
    <3>3. ASSUME NEW q \in Procs, NEW m \in ChunkNo, NEW s, s # "sent", SetFlight(q, m, s) PROVE FALSE
      BY <3>1, <3>3, FlightIs
    <3>4. ASSUME NEW q \in Procs, Reset(q) PROVE FALSE
      BY <3>1, <3>4, QuietIs DEF Reset
    <3>5. ASSUME NEW q \in Procs, RunStep(q), ~ PoolStep(q) PROVE FALSE
      BY <3>2, <3>4, <3>5 DEF RunStep, gcDownloadCheckpoints, gcCheckpoints, HeadObject, acquireTransferLock,
         loadOrResetDownloadCheckpoint, SaveFresh, OpenPart, RenamePart, deleteDownloadCheckpoint, release
    <3>6. ~ Environment
      BY <3>2, <3>4 DEF Environment, runResumableDownload, browseDownload, Begin, runLsBrowser, Crash,
         ReplaceObject, Age, Finished, vars
    <3>7. PICK q \in Procs : PoolStep(q)
      BY <3>5, <3>6 DEF Next
    <3>8. PICK m \in ChunkNo : downloadOneChunk(q, m) \/ GetObject(q, m)
      BY <3>2, <3>3, <3>7 DEF PoolStep, WriteSome, WriteChunk, CallFails, RecordChunk, CollectError, GiveUp,
         downloadMissingChunks
    <3>9. ~ GetObject(q, m)
      <4>1. Served(q) # "sent" \/ Served(q) = job[q].ver
        BY DEF Served
      <4>2. pc[q] = "pool" => job[q].ver \in Versions
        BY <3>1 DEF TypeInv, TypeOK, ProcShape, Informed, Locking, Jobs
      <4> QED
        BY <3>3, <4>1, <4>2, QuietIs DEF GetObject
    <3> QED
      BY <3>1, <3>8, <3>9, FlightIs DEF downloadOneChunk
  <2>2. pc[p] = "pool"
    BY <2>1 DEF downloadOneChunk
  <2>3. ckpt[job[p].obj] # None => ckpt[job[p].obj].chunks \subseteq mem[p].chunks
    BY <2>2, InPool
  <2> QED
    BY <2>1, <2>3 DEF downloadOneChunk, Missing
<1> QED
  BY <1>1, IntegrityInvariant, PTL DEF Spec, NoChunkFetchedTwice

=============================================================================
