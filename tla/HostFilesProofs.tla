-------------------------- MODULE HostFilesProofs --------------------------
(***************************************************************************)
(* HostFiles for every set of releases and of processes, any number of     *)
(* commands and crashes: the binary on the disk is whole, the skill files  *)
(* are those of the release on record, the user's text in an agent's       *)
(* document stays, and a configuration file that no two commands disturbed *)
(* holds what each of them put there and everything the others left alone. *)
(***************************************************************************)
EXTENDS HostFiles, FiniteSetTheorems, TLAPS

-----------------------------------------------------------------------------
(* The binary.                                                             *)

\* What an update in hand is about; it is a release, sound unless waived, and
\* the destination is removed first on Windows only.
UpdateType ==
    /\ bin \in [Paths -> [ver : Releases \cup {0}, sound : BOOLEAN]]
    /\ upd.dst \in Paths
    /\ upd \in [step : {"idle", "download", "write", "remove", "rename", "skills", "child", "migrate"},
                exe : Paths, target : Nat, skip : BOOLEAN, sound : BOOLEAN, dst : Paths]
    /\ trusting \in BOOLEAN
UpdateInv ==
    /\ UpdateType
    /\ upd.step # "idle" => upd.target \in Releases
    /\ upd.sound \/ trusting
    /\ upd.step = "remove" => host.windows
    /\ BinaryWhole

LEMMA UpdateInvInit == Init => UpdateInv
<1> SUFFICES ASSUME Init PROVE UpdateInv
  OBVIOUS
<1>1. PICK first \in Paths, v \in Releases :
         bin = [p \in Paths |-> IF p = first THEN [ver |-> v, sound |-> TRUE] ELSE NoBinary]
  BY DEF Init, UpdateInit
<1>2. bin \in [Paths -> [ver : Releases \cup {0}, sound : BOOLEAN]]
  BY <1>1, SelfUpdateAssumption DEF NoBinary
<1>3. BinaryWhole
  BY <1>1, SelfUpdateAssumption DEF NoBinary, BinaryWhole
<1> QED
  BY <1>2, <1>3 DEF Init, UpdateInit, UpdateInv, UpdateType, NoUpdate, Paths

\* A step of the update itself.
LEMMA UpdateStepKeeps == UpdateInv /\ UpdateStep => UpdateInv'
<1> SUFFICES ASSUME UpdateInv, UpdateStep PROVE UpdateInv'
  OBVIOUS
<1> USE SelfUpdateAssumption DEF UpdateInv, UpdateType, BinaryWhole, NoUpdate, NoBinary, Paths
<1>1. ASSUME NEW archive \in {"sound", "broken"}, NEW sums \in {"listed", "missing"},
             DownloadRelease(archive, sums)
      PROVE  UpdateInv'
  <2>1. /\ upd.step = "download" /\ (upd.skip \/ archive = "sound")
        /\ upd' = [upd EXCEPT !.step = "write", !.sound = (archive = "sound")]
        /\ trusting' = (trusting \/ (upd.skip /\ archive # "sound"))
        /\ bin' = bin /\ host' = host
    BY <1>1 DEF DownloadRelease, Accepts
  <2>2. (archive = "sound") \in BOOLEAN /\ (trusting => trusting') /\ trusting' \in BOOLEAN
    BY <2>1
  <2>3. CASE archive = "sound"
    BY <2>1, <2>2, <2>3
  <2>4. CASE archive # "sound"
    BY <2>1, <2>2, <2>4
  <2> QED
    BY <2>3, <2>4
<1>2. CASE DownloadRefused
  BY <1>2 DEF DownloadRefused
<1>3. CASE WriteTemp
  BY <1>3 DEF WriteTemp
<1>4. CASE RemoveDestination
  <2>1. /\ upd.step = "remove" /\ host.windows
        /\ bin' \in {bin, [bin EXCEPT ![upd.dst] = NoBinary]}
        /\ upd' = [upd EXCEPT !.step = "rename"]
        /\ host' = host /\ trusting' = trusting
    BY <1>4 DEF RemoveDestination
  <2>2. bin' \in [Paths -> [ver : Releases \cup {0}, sound : BOOLEAN]] /\ \A q \in Paths : bin'[q].sound \/ trusting
    <3>1. CASE bin' = bin
      BY <3>1
    <3>2. CASE bin' = [bin EXCEPT ![upd.dst] = [ver |-> 0, sound |-> TRUE]]
      <4>1. \A q \in Paths : bin'[q] = IF q = upd.dst THEN [ver |-> 0, sound |-> TRUE] ELSE bin[q]
        BY <3>2
      <4>2. [ver |-> 0, sound |-> TRUE] \in [ver : Releases \cup {0}, sound : BOOLEAN]
        OBVIOUS
      <4> QED
        BY <3>2, <4>1, <4>2
    <3> QED
      BY <2>1, <3>1, <3>2
  <2> QED
    BY <2>1, <2>2
<1>5. CASE Rename
  BY <1>5 DEF Rename
<1>6. CASE ReplaceFails
  BY <1>6 DEF ReplaceFails
<1>7. CASE Migrate
  BY <1>7 DEF Migrate
<1> QED
  BY <1>1, <1>2, <1>3, <1>4, <1>5, <1>6, <1>7 DEF UpdateStep

LEMMA UpdateInvStep == UpdateInv /\ [Next]_vars => UpdateInv'
<1> SUFFICES ASSUME UpdateInv, [Next]_vars PROVE UpdateInv'
  OBVIOUS
<1>1. CASE UNCHANGED updateVars
  BY <1>1 DEF UpdateInv, UpdateType, BinaryWhole, updateVars
<1>2. CASE Update
  <2>1. PICK exe \in Paths, target \in Releases, skip \in BOOLEAN : StartUpdate(exe, target, skip)
    BY <1>2 DEF Update, Types
  <2> QED
    BY <2>1, SelfUpdateAssumption
       DEF StartUpdate, UpdateInv, UpdateType, BinaryWhole, NoUpdate, Paths
<1>3. CASE UpdateInstalledSkills
  BY <1>3 DEF UpdateInstalledSkills, UpdateInv, UpdateType, BinaryWhole
<1>4. CASE ChildEnds
  BY <1>4 DEF ChildEnds, UpdateInv, UpdateType, BinaryWhole
<1>5. CASE Crash
  BY <1>5 DEF Crash, UpdateInv, UpdateType, BinaryWhole, NoUpdate, Paths
<1>6. CASE UpdateStep
  BY <1>6, UpdateStepKeeps
<1> QED
  BY <1>1, <1>2, <1>3, <1>4, <1>5, <1>6
     DEF Next, InstalledNext, Install, Uninstall, vars

\* Whatever fails and wherever an update dies, the binary on the disk is a
\* release whole and as its sums say, unless the user waived the check
\* (replaceBinary, verifyReleaseArchive).
THEOREM BinaryStaysWhole == Spec => []BinaryWhole
<1>1. UpdateInv => BinaryWhole
  BY DEF UpdateInv
<1> QED
  BY <1>1, UpdateInvInit, UpdateInvStep, PTL DEF Spec

-----------------------------------------------------------------------------
(* The skills.                                                             *)

\* What skills.json holds of the last install.
Recorded == IF recorded = NoVersion THEN {} ELSE SkillsOf[recorded]
States == [readable : BOOLEAN, version : Versions \cup {NoVersion}, agents : SUBSET Agents,
           skills : SUBSET Names]

IsJob(j) ==
    j \in [cmd : {"none", "install", "uninstall"},
           step : {"none", "agent", "copy", "fill", "document", "save"},
           ver : Versions \cup {NoVersion}, agents : SUBSET Agents, todo : SUBSET Agents,
           names : SUBSET Names, at : Agents \cup {"none"}, left : SUBSET SkillFiles,
           stuck : SUBSET CopyAgents,
           text : {j.text}, was : States]

SkillsType ==
    /\ state \in States
    /\ \A a \in CopyAgents : DOMAIN dir[a] = SkillFiles
    /\ DOMAIN dir = CopyAgents
    /\ placed \in [CopyAgents -> SUBSET Versions]
    /\ recorded \in Versions \cup {NoVersion}
    /\ IsJob(job)

\* A file in a directory is one of a version written there.
Written ==
    \A a \in CopyAgents, f \in SkillFiles :
        dir[a][f] # 0 => \E v \in placed[a] : f \in Dests(v, a, SkillsOf[v])

\* The names on record are those of the version on record; a command has them.
NamesKnown ==
    /\ state.readable => state.skills = Recorded
    /\ job.step = "save" => job.was.skills = Recorded
    /\ job.step \notin {"none", "save"} => state.readable
    /\ job.cmd = "install" => job.names = Recorded
    /\ job.cmd = "uninstall" => job.names = IF Recorded = {} THEN DefaultSkills ELSE Recorded

\* No file of another release than v is in the way at the agent a.
Clear(v, a) == placed[a] \subseteq {v, recorded} /\ FindsRecord(v, a) /\ a \notin job.stuck

\* The directory a command is at, and those it is done with.
AtWork ==
    /\ (job.cmd = "none") <=> (job.step = "none")
    /\ job.cmd = "install" => job.ver \in Versions
    /\ job.step = "document" => job.at \in AppendAgents
    /\ job.step \in {"copy", "fill"} =>
        /\ job.cmd = "install" /\ job.at \in CopyAgents \cap job.todo
        /\ job.ver \in placed[job.at]
        /\ job.left \subseteq Dests(job.ver, job.at, SkillsOf[job.ver])
        /\ \A f \in Dests(job.ver, job.at, SkillsOf[job.ver]) \ job.left : dir[job.at][f] = job.ver
        /\ Clear(job.ver, job.at) =>
              \A f \in SkillFiles \ Dests(job.ver, job.at, SkillsOf[job.ver]) : dir[job.at][f] = 0
Done(a) ==
    /\ job.cmd = "install" =>
          /\ \A f \in Dests(job.ver, a, SkillsOf[job.ver]) : dir[a][f] = job.ver
          /\ Clear(job.ver, a) => Exact(dir[a], a, job.ver)
    /\ job.cmd = "uninstall" /\ placed[a] \subseteq {recorded} /\ SameNames(job.ver, a)
          => Empty(dir[a])

SkillsInv ==
    /\ SkillsType /\ Written /\ NamesKnown /\ AtWork
    /\ \A a \in (job.agents \cap CopyAgents) \ job.todo : Done(a)

LEMMA NamesOfVersion == \A v \in Versions : SkillsOf[v] \subseteq Names
BY DEF Names
LEMMA FilesOfNames ==
  ASSUME NEW v \in Versions, NEW a \in CopyAgents, NEW names \in SUBSET Names
  PROVE  Dests(v, a, names) \subseteq SkillFiles
<1> SUFFICES ASSUME NEW n \in names PROVE DestName(v, a, n) \in SkillFiles
  BY DEF Dests
<1>1. DestName(v, a, n) \in Dests(v, a, Names)
  BY DEF Dests
<1> QED
  BY <1>1 DEF SkillFiles

LEMMA SkillsInvInit == Init => SkillsInv
<1> SUFFICES ASSUME Init PROVE SkillsInv
  OBVIOUS
<1> USE DEF Init, SkillsInit, NoState, NoJob, NoVersion
<1>1. SkillsType
  BY DEF SkillsType, States, IsJob
<1>2. Written /\ NamesKnown /\ AtWork
  BY DEF Written, NamesKnown, AtWork, Recorded
<1> QED
  BY <1>1, <1>2 DEF SkillsInv

\* No command runs.
LEMMA IdleKeeps ==
  ASSUME SkillsInv, job' = NoJob, UNCHANGED <<state, dir, placed, recorded>>
  PROVE  SkillsInv'
<1>1. SkillsType'
  BY DEF SkillsInv, SkillsType, NoJob, NoState, NoVersion, States, IsJob
<1>2. Written' /\ NamesKnown'
  BY DEF SkillsInv, Written, NamesKnown, Recorded, NoJob
<1>3. AtWork'
  BY DEF AtWork, NoJob
<1> QED
  BY <1>1, <1>2, <1>3 DEF SkillsInv, NoJob

LEMMA StartInstallKeeps ==
  ASSUME SkillsInv, NEW v \in Versions, NEW agents \in SUBSET Agents, StartInstall(v, agents)
  PROVE  SkillsInv'
<1>1. /\ state.readable /\ UNCHANGED <<state, dir, placed, recorded>>
      /\ job' = [NoJob EXCEPT !.cmd = "install", !.step = "agent", !.ver = v,
                              !.agents = agents, !.todo = agents, !.names = state.skills]
  BY DEF StartInstall, Files, Record
<1>2. /\ job'.cmd = "install" /\ job'.step = "agent" /\ job'.ver = v
      /\ job'.agents = agents /\ job'.todo = agents /\ job'.names = state.skills
      /\ IsJob(job')
  BY <1>1 DEF SkillsInv, SkillsType, NoJob, NoState, NoVersion, States, IsJob
<1>3. SkillsType'
  BY <1>1, <1>2 DEF SkillsInv, SkillsType
<1>4. Written' /\ NamesKnown' /\ AtWork'
  BY <1>1, <1>2 DEF SkillsInv, Written, NamesKnown, AtWork, Recorded
<1> QED
  BY <1>2, <1>3, <1>4 DEF SkillsInv

LEMMA StartUninstallKeeps ==
  ASSUME SkillsInv, NEW v \in Versions, NEW agents \in SUBSET Agents, StartUninstall(v, agents)
  PROVE  SkillsInv'
<1> DEFINE names == IF state.skills = {} THEN DefaultSkills ELSE state.skills
<1>1. /\ state.readable /\ UNCHANGED <<state, dir, placed, recorded>>
      /\ job' = [NoJob EXCEPT !.cmd = "uninstall", !.step = "agent", !.ver = v,
                              !.agents = agents, !.todo = agents, !.names = names]
  BY DEF StartUninstall, Files, Record
<1>2. names \in SUBSET Names
  <2>1. state.skills \in SUBSET Names
    BY DEF SkillsInv, SkillsType, States
  <2>2. DefaultSkills \in SUBSET Names
    BY DEF Names
  <2> QED
    BY <2>1, <2>2
<1>3. names = IF Recorded = {} THEN DefaultSkills ELSE Recorded
  BY <1>1 DEF SkillsInv, NamesKnown
<1> HIDE DEF names
<1>4. /\ job'.cmd = "uninstall" /\ job'.step = "agent"
      /\ job'.agents = agents /\ job'.todo = agents /\ job'.names = names
      /\ IsJob(job')
  BY <1>1, <1>2 DEF NoJob, NoState, NoVersion, States, IsJob
<1>5. SkillsType'
  BY <1>1, <1>4 DEF SkillsInv, SkillsType
<1>6. Written' /\ NamesKnown' /\ AtWork'
  BY <1>1, <1>3, <1>4 DEF SkillsInv, Written, NamesKnown, AtWork, Recorded
<1> QED
  BY <1>4, <1>5, <1>6 DEF SkillsInv

\* A file of the release on record that the release v does not write is stale to v.
LEMMA StaleFound ==
  ASSUME NEW v \in Versions, NEW a \in CopyAgents, recorded # NoVersion, FindsRecord(v, a),
         NEW f \in Dests(recorded, a, SkillsOf[recorded]), f \notin Dests(v, a, SkillsOf[v])
  PROVE  f \in Stale(v, a, SkillsOf[recorded])
<1>1. PICK n \in SkillsOf[recorded] : f = DestName(recorded, a, n)
  BY DEF Dests
<1>2. CASE DestName(v, a, n) = DestName(recorded, a, n)
  BY <1>1, <1>2 DEF Stale, Dests
<1>3. CASE DestName(recorded, a, n) = n /\ DestName(v, a, n) \in Dests(v, a, SkillsOf[v])
  BY <1>1, <1>3 DEF Stale
<1> QED
  BY <1>1, <1>2, <1>3 DEF FindsRecord

LEMMA CleanUpKeeps ==
  ASSUME SkillsInv, NEW a \in Agents, CleanUp(a)
  PROVE  SkillsInv'
<1> DEFINE now == Dests(job.ver, a, SkillsOf[job.ver])
<1> DEFINE stale == {f \in Stale(job.ver, a, job.names) : dir[a][f] # 0}
<1>1. /\ a \in job.todo /\ a \in CopyAgents /\ job.cmd = "install" /\ job.step = "agent"
      /\ placed' = [placed EXCEPT ![a] = @ \cup {job.ver}]
      /\ UNCHANGED <<state, recorded>>
  BY DEF CleanUp, Record
<1>2. PICK gone \in SUBSET stale :
         /\ dir' = [dir EXCEPT ![a] = Without(@, gone)]
         /\ job' = [job EXCEPT !.step = "copy", !.at = a, !.left = now,
                               !.stuck = IF gone = stale THEN @ ELSE @ \cup {a}]
  BY DEF CleanUp
<1>3. /\ SkillsType /\ Written /\ NamesKnown /\ AtWork /\ IsJob(job) /\ job.ver \in Versions
      /\ job.names = Recorded
  BY <1>1 DEF SkillsInv, SkillsType, NamesKnown, AtWork
<1>4. now \subseteq SkillFiles
  BY <1>1, <1>3, NamesOfVersion, FilesOfNames
<1>5. job'.stuck = IF gone = stale THEN job.stuck ELSE job.stuck \cup {a}
  BY <1>2, <1>3 DEF IsJob
<1>6. /\ IsJob(job') /\ job'.cmd = "install" /\ job'.step = "copy" /\ job'.ver = job.ver
      /\ job'.agents = job.agents /\ job'.todo = job.todo /\ job'.names = job.names
      /\ job'.at = a /\ job'.left = now
  <2> HIDE DEF now, stale
  <2>1. (IF gone = stale THEN job.stuck ELSE job.stuck \cup {a}) \in SUBSET CopyAgents
    BY <1>1, <1>3 DEF IsJob
  <2> QED
    BY <1>1, <1>2, <1>3, <1>4, <2>1 DEF IsJob
<1>7. /\ DOMAIN dir' = CopyAgents
      /\ dir'[a] = [f \in SkillFiles |-> IF f \in gone THEN 0 ELSE dir[a][f]]
      /\ \A b \in CopyAgents \ {a} : dir'[b] = dir[b]
  BY <1>1, <1>2, <1>3 DEF SkillsType, Without
<1>8. /\ placed' \in [CopyAgents -> SUBSET Versions]
      /\ placed'[a] = placed[a] \cup {job.ver}
      /\ \A b \in CopyAgents \ {a} : placed'[b] = placed[b]
  BY <1>1, <1>3 DEF SkillsType
<1>9. SkillsType'
  <2>1. DOMAIN dir'[a] = SkillFiles
    BY <1>7
  <2> QED
    BY <1>1, <1>3, <1>6, <1>7, <1>8, <2>1 DEF SkillsType
<1>10. Written'
  <2> SUFFICES ASSUME NEW b \in CopyAgents, NEW f \in SkillFiles, dir'[b][f] # 0
               PROVE  \E v \in placed'[b] : f \in Dests(v, b, SkillsOf[v])
    BY DEF Written
  <2>1. dir[b][f] # 0
    BY <1>1, <1>7
  <2> QED
    BY <1>1, <1>3, <1>8, <2>1 DEF Written
<1>11. NamesKnown'
  BY <1>1, <1>3, <1>6 DEF NamesKnown, Recorded
<1>12. ASSUME Clear(job.ver, a)', NEW f \in SkillFiles \ now
       PROVE  dir'[a][f] = 0
  <2>1. placed'[a] \subseteq {job.ver, recorded} /\ a \notin job'.stuck /\ FindsRecord(job.ver, a)
    BY <1>1, <1>6, <1>12 DEF Clear, FindsRecord
  <2>2. gone = stale
    BY <1>5, <2>1
  <2>3. ASSUME dir[a][f] # 0 PROVE f \in stale
    <3>1. PICK v \in placed[a] : f \in Dests(v, a, SkillsOf[v])
      BY <1>1, <1>3, <2>3 DEF Written
    <3>2. v = recorded /\ v # NoVersion
      BY <1>1, <1>3, <1>8, <1>12, <2>1, <3>1, AgentSkillsAssumption DEF SkillsType
    <3>3. f \in Stale(job.ver, a, SkillsOf[recorded])
      BY <1>1, <1>3, <1>12, <2>1, <3>1, <3>2, StaleFound
    <3> QED
      BY <1>3, <2>3, <3>2, <3>3 DEF Recorded
  <2> QED
    BY <1>7, <2>2, <2>3
<1>13. AtWork'
  <2>1. job'.ver = job.ver /\ job'.at = a
    BY <1>6
  <2> QED
    BY <1>1, <1>3, <1>6, <1>8, <1>12 DEF AtWork, Clear, FindsRecord
<1>14. ASSUME NEW b \in (job'.agents \cap CopyAgents) \ job'.todo
       PROVE  Done(b)'
  <2>1. b # a /\ Done(b)
    BY <1>1, <1>6, <1>14 DEF SkillsInv
  <2>2. b \notin job'.stuck => b \notin job.stuck
    BY <1>5, <2>1
  <2>3. dir'[b] = dir[b] /\ placed'[b] = placed[b]
    BY <1>7, <1>8, <1>14, <2>1
  <2> QED
    BY <1>1, <1>6, <2>1, <2>2, <2>3 DEF Done, Clear, FindsRecord, SameNames
<1> QED
  BY <1>9, <1>10, <1>11, <1>13, <1>14 DEF SkillsInv

\* os.WriteFile on the file f of the directory at hand: what its two halves share.
Wrote(f, x) ==
    /\ DOMAIN dir' = CopyAgents
    /\ \A b \in CopyAgents : DOMAIN dir'[b] = SkillFiles
    /\ \A b \in CopyAgents \ {job.at} : dir'[b] = dir[b]
    /\ dir'[job.at][f] = x
    /\ \A g \in SkillFiles \ {f} : dir'[job.at][g] = dir[job.at][g]
LEMMA FileKeeps ==
  ASSUME SkillsInv, NEW f \in SkillFiles, f \in job.left, NEW x, job.step \in {"copy", "fill"},
         Wrote(f, x),
         IsJob(job'), job'.step \in {"copy", "fill"}, job'.cmd = job.cmd, job'.ver = job.ver,
         job'.agents = job.agents, job'.todo = job.todo, job'.names = job.names, job'.at = job.at,
         job'.stuck = job.stuck,
         \/ job'.left = job.left
         \/ job'.left = job.left \ {f} /\ x = job.ver,
         UNCHANGED <<placed, state, recorded>>
  PROVE  SkillsInv'
<1> DEFINE now == Dests(job.ver, job.at, SkillsOf[job.ver])
<1>1. /\ SkillsType /\ Written /\ NamesKnown /\ AtWork /\ IsJob(job)
      /\ job.cmd = "install" /\ job.at \in CopyAgents /\ job.at \in job.todo
      /\ job.ver \in placed[job.at] /\ f \in now /\ job.ver \in Versions
      /\ job.left \subseteq now /\ now \subseteq SkillFiles
  <2>1. /\ SkillsType /\ Written /\ NamesKnown /\ AtWork /\ IsJob(job)
        /\ job.cmd = "install" /\ job.at \in CopyAgents /\ job.at \in job.todo
        /\ job.ver \in placed[job.at] /\ f \in now /\ job.ver \in Versions
        /\ job.left \subseteq now
    BY DEF SkillsInv, SkillsType, AtWork
  <2> QED
    BY <2>1, NamesOfVersion, FilesOfNames
<1>2. /\ DOMAIN dir' = CopyAgents
      /\ \A b \in CopyAgents : DOMAIN dir'[b] = SkillFiles
      /\ \A b \in CopyAgents \ {job.at} : dir'[b] = dir[b]
      /\ dir'[job.at][f] = x
      /\ \A g \in SkillFiles \ {f} : dir'[job.at][g] = dir[job.at][g]
  BY DEF Wrote
<1>3. SkillsType'
  BY <1>1, <1>2 DEF SkillsType
<1>4. Written'
  <2> SUFFICES ASSUME NEW a \in CopyAgents, NEW g \in SkillFiles, dir'[a][g] # 0
               PROVE  \E v \in placed[a] : g \in Dests(v, a, SkillsOf[v])
    BY DEF Written
  <2>1. CASE a = job.at /\ g = f
    BY <1>1, <2>1
  <2>2. CASE ~(a = job.at /\ g = f)
    BY <1>1, <1>2, <2>2 DEF Written
  <2> QED
    BY <2>1, <2>2
<1>5. NamesKnown'
  BY <1>1 DEF NamesKnown, Recorded
<1>6. AtWork'
  <2>1. job'.left \subseteq now
    BY <1>1
  <2>2. ASSUME NEW g \in now \ job'.left
        PROVE  dir'[job.at][g] = job.ver
    <3>1. CASE g = f
      BY <1>1, <1>2, <2>2, <3>1
    <3>2. CASE g # f
      BY <1>1, <1>2, <2>2, <3>2 DEF AtWork
    <3> QED
      BY <3>1, <3>2
  <2>3. ASSUME Clear(job.ver, job.at), NEW g \in SkillFiles \ now
        PROVE  dir'[job.at][g] = 0
    BY <1>1, <1>2, <2>3 DEF AtWork
  <2>4. Clear(job.ver, job.at)' => Clear(job.ver, job.at)
    BY DEF Clear, FindsRecord
  <2> QED
    BY <1>1, <2>1, <2>2, <2>3, <2>4 DEF AtWork
<1>7. ASSUME NEW b \in (job'.agents \cap CopyAgents) \ job'.todo
      PROVE  Done(b)'
  <2>1. b # job.at /\ Done(b)
    BY <1>1, <1>7 DEF SkillsInv
  <2> QED
    BY <1>2, <1>7, <2>1 DEF Done, Clear, FindsRecord, SameNames
<1> QED
  BY <1>3, <1>4, <1>5, <1>6, <1>7 DEF SkillsInv

LEMMA TruncateSkillKeeps ==
  ASSUME SkillsInv, NEW f \in SkillFiles, Truncate(f)
  PROVE  SkillsInv'
<1>1. /\ job.step = "copy" /\ f \in job.left
      /\ dir' = [dir EXCEPT ![job.at][f] = Torn]
      /\ job' = [job EXCEPT !.step = "fill"]
      /\ UNCHANGED <<placed, state, recorded>>
  BY DEF Truncate, Record
<1>2. /\ IsJob(job') /\ job'.step = "fill" /\ job'.cmd = job.cmd /\ job'.ver = job.ver
      /\ job'.agents = job.agents /\ job'.todo = job.todo /\ job'.names = job.names
      /\ job'.at = job.at /\ job'.left = job.left /\ job'.stuck = job.stuck
  BY <1>1 DEF SkillsInv, SkillsType, IsJob
<1>3. job.step \in {"copy", "fill"} /\ job'.step \in {"copy", "fill"}
  BY <1>1, <1>2
<1>4. Wrote(f, Torn)
  BY <1>1 DEF SkillsInv, SkillsType, AtWork, Wrote
<1> QED
  BY <1>1, <1>2, <1>3, <1>4, FileKeeps

LEMMA FillSkillKeeps ==
  ASSUME SkillsInv, NEW f \in SkillFiles, Fill(f)
  PROVE  SkillsInv'
<1>1. /\ job.step = "fill" /\ f \in job.left
      /\ dir' = [dir EXCEPT ![job.at][f] = job.ver]
      /\ job' = [job EXCEPT !.step = "copy", !.left = @ \ {f}]
      /\ UNCHANGED <<placed, state, recorded>>
  BY DEF Fill, Record
<1>2. /\ IsJob(job') /\ job'.step = "copy" /\ job'.cmd = job.cmd /\ job'.ver = job.ver
      /\ job'.agents = job.agents /\ job'.todo = job.todo /\ job'.names = job.names
      /\ job'.at = job.at /\ job'.left = job.left \ {f} /\ job'.stuck = job.stuck
  BY <1>1 DEF SkillsInv, SkillsType, IsJob
<1>3. job.step \in {"copy", "fill"} /\ job'.step \in {"copy", "fill"}
  BY <1>1, <1>2
<1>4. Wrote(f, job.ver)
  BY <1>1 DEF SkillsInv, SkillsType, AtWork, Wrote
<1> QED
  BY <1>1, <1>2, <1>3, <1>4, FileKeeps

\* The command is done with the agent a, whose directory is as it should be
\* if it is one and still counts.
LEMMA AgentDoneKeeps ==
  ASSUME SkillsInv, NEW a \in job.todo, job.cmd # "none",
         UNCHANGED <<state, dir, placed, recorded>>, job.step \notin {"none", "save"},
         IsJob(job'), job'.step = "agent", job'.cmd = job.cmd, job'.ver = job.ver,
         job'.names = job.names, job'.todo = job.todo \ {a}, job'.agents = job.agents,
         job'.stuck = job.stuck,
         a \in CopyAgents => Done(a)
  PROVE  SkillsInv'
<1>1. SkillsType' /\ Written' /\ NamesKnown' /\ AtWork'
  BY DEF SkillsInv, SkillsType, Written, NamesKnown, AtWork, Recorded
<1>2. ASSUME NEW b \in (job'.agents \cap CopyAgents) \ job'.todo
      PROVE  Done(b)'
  <2>1. Done(b)
    BY <1>2 DEF SkillsInv
  <2> QED
    BY <2>1 DEF Done, Clear, FindsRecord, SameNames
<1> QED
  BY <1>1, <1>2 DEF SkillsInv

LEMMA CopiedKeeps ==
  ASSUME SkillsInv, Copied
  PROVE  SkillsInv'
<1>1. /\ job.step = "copy" /\ job.left = {}
      /\ job' = [job EXCEPT !.step = "agent", !.todo = @ \ {job.at}]
      /\ UNCHANGED <<dir, placed, state, recorded>>
  BY DEF Copied, Files, Record
<1>2. IsJob(job) /\ job.cmd = "install" /\ job.at \in CopyAgents /\ job.at \in job.todo
  BY <1>1 DEF SkillsInv, SkillsType, AtWork
<1>3. Done(job.at)
  BY <1>1, <1>2, NamesOfVersion, FilesOfNames DEF SkillsInv, AtWork, Done, Exact
<1>4. /\ IsJob(job') /\ job'.step = "agent" /\ job'.cmd = job.cmd /\ job'.ver = job.ver
      /\ job'.agents = job.agents /\ job'.todo = job.todo \ {job.at} /\ job'.names = job.names
      /\ job'.stuck = job.stuck
  BY <1>1, <1>2 DEF IsJob
<1> QED
  BY <1>1, <1>2, <1>3, <1>4, AgentDoneKeeps

LEMMA ReadDocumentKeeps ==
  ASSUME SkillsInv, NEW a \in Agents, ReadDocument(a)
  PROVE  SkillsInv'
<1>1. /\ job.step = "agent" /\ a \in AppendAgents
      /\ job' = [job EXCEPT !.step = "document", !.at = a, !.text = doc]
      /\ UNCHANGED <<dir, placed, state, recorded>>
  BY DEF ReadDocument, Files, Record
<1>2. /\ IsJob(job') /\ job'.step = "document" /\ job'.cmd = job.cmd /\ job'.ver = job.ver
      /\ job'.agents = job.agents /\ job'.todo = job.todo /\ job'.names = job.names
      /\ job'.at = a /\ job'.stuck = job.stuck
  BY <1>1 DEF SkillsInv, SkillsType, IsJob
<1>3. SkillsType' /\ Written' /\ NamesKnown' /\ AtWork'
  BY <1>1, <1>2 DEF SkillsInv, SkillsType, Written, NamesKnown, AtWork, Recorded
<1>4. ASSUME NEW b \in (job'.agents \cap CopyAgents) \ job'.todo
      PROVE  Done(b)'
  BY <1>1, <1>2, <1>4 DEF SkillsInv, Done, Clear, FindsRecord, SameNames
<1> QED
  BY <1>3, <1>4 DEF SkillsInv

LEMMA WriteDocumentKeeps ==
  ASSUME SkillsInv, WriteDocument
  PROVE  SkillsInv'
<1>1. /\ job.step = "document"
      /\ job' = [job EXCEPT !.step = "agent", !.todo = @ \ {job.at}]
      /\ UNCHANGED <<dir, placed, state, recorded>>
  BY DEF WriteDocument, Files, Record
<1>2. IsJob(job) /\ job.at \in AppendAgents /\ job.cmd # "none" /\ job.at \notin CopyAgents
  BY <1>1, AgentSkillsAssumption DEF SkillsInv, SkillsType, AtWork
<1>3. /\ IsJob(job') /\ job'.step = "agent" /\ job'.cmd = job.cmd /\ job'.ver = job.ver
      /\ job'.agents = job.agents /\ job'.todo = job.todo \ {job.at} /\ job'.names = job.names
      /\ job'.stuck = job.stuck
  BY <1>1, <1>2 DEF IsJob
<1>4. SkillsType' /\ Written' /\ NamesKnown' /\ AtWork'
  BY <1>1, <1>3 DEF SkillsInv, SkillsType, Written, NamesKnown, AtWork, Recorded
<1>5. ASSUME NEW b \in (job'.agents \cap CopyAgents) \ job'.todo
      PROVE  Done(b)'
  BY <1>1, <1>2, <1>3, <1>5 DEF SkillsInv, Done, Clear, FindsRecord, SameNames
<1> QED
  BY <1>4, <1>5 DEF SkillsInv

LEMMA UninstallAppendNothingKeeps ==
  ASSUME SkillsInv, NEW a \in Agents, UninstallAppendNothing(a)
  PROVE  SkillsInv'
<1>1. /\ job.step = "agent" /\ job.cmd = "uninstall" /\ a \in job.todo /\ a \in AppendAgents
      /\ job' = [job EXCEPT !.todo = @ \ {a}]
      /\ UNCHANGED <<dir, placed, state, recorded>>
  BY DEF UninstallAppendNothing, Files, Record
<1>2. a \notin CopyAgents
  BY <1>1, AgentSkillsAssumption
<1>3. /\ IsJob(job') /\ job'.step = "agent" /\ job'.cmd = job.cmd /\ job'.ver = job.ver
      /\ job'.agents = job.agents /\ job'.todo = job.todo \ {a} /\ job'.names = job.names
      /\ job'.stuck = job.stuck
  BY <1>1 DEF SkillsInv, SkillsType, IsJob
<1> QED
  BY <1>1, <1>2, <1>3, AgentDoneKeeps

LEMMA UninstallCopyKeeps ==
  ASSUME SkillsInv, NEW a \in Agents, UninstallCopy(a)
  PROVE  SkillsInv'
<1>1. /\ job.cmd = "uninstall" /\ job.step = "agent" /\ a \in job.todo /\ a \in CopyAgents
      /\ UNCHANGED <<placed, state, recorded>>
  BY DEF UninstallCopy, Record
<1> DEFINE files == {f \in Dests(job.ver, a, job.names) : dir[a][f] # 0}
<1>2. PICK gone \in SUBSET files :
          /\ dir' = [dir EXCEPT ![a] = Without(@, gone)]
          /\ job' = [job EXCEPT !.todo = @ \ {a},
                                !.agents = IF gone = files THEN @ ELSE @ \ {a}]
  BY DEF UninstallCopy
<1>3. /\ SkillsType /\ Written /\ NamesKnown /\ AtWork /\ IsJob(job)
      /\ job.names = IF Recorded = {} THEN DefaultSkills ELSE Recorded
  BY <1>1 DEF SkillsInv, SkillsType, NamesKnown
<1>4. /\ IsJob(job') /\ job'.step = "agent" /\ job'.cmd = "uninstall" /\ job'.ver = job.ver
      /\ job'.names = job.names /\ job'.todo = job.todo \ {a}
      /\ job'.agents = IF gone = files THEN job.agents ELSE job.agents \ {a}
  <2> HIDE DEF files
  <2> QED
    BY <1>1, <1>2, <1>3 DEF IsJob
<1>5. /\ DOMAIN dir' = CopyAgents
      /\ dir'[a] = [f \in SkillFiles |-> IF f \in gone THEN 0 ELSE dir[a][f]]
      /\ \A b \in CopyAgents \ {a} : dir'[b] = dir[b]
  BY <1>1, <1>2, <1>3 DEF SkillsType, Without
<1>6. SkillsType'
  <2>1. DOMAIN dir'[a] = SkillFiles
    BY <1>5
  <2> QED
    BY <1>1, <1>3, <1>4, <1>5, <2>1 DEF SkillsType
<1>7. Written'
  <2> SUFFICES ASSUME NEW b \in CopyAgents, NEW f \in SkillFiles, dir'[b][f] # 0
               PROVE  \E v \in placed[b] : f \in Dests(v, b, SkillsOf[v])
    BY <1>1 DEF Written
  <2>1. dir[b][f] # 0
    BY <1>1, <1>5
  <2> QED
    BY <1>3, <2>1 DEF Written
<1>8. NamesKnown' /\ AtWork'
  BY <1>1, <1>3, <1>4 DEF NamesKnown, AtWork, Recorded
<1>9. ASSUME NEW b \in (job'.agents \cap CopyAgents) \ job'.todo
      PROVE  Done(b)'
  <2>1. CASE b # a
    <3>1. Done(b)
      BY <1>4, <1>9, <2>1 DEF SkillsInv
    <3> QED
      BY <1>1, <1>4, <1>5, <1>9, <2>1, <3>1 DEF Done, SameNames
  <2>2. CASE b = a
    <3>1. gone = files
      BY <1>4, <1>9, <2>2
    <3>2. ASSUME placed[a] \subseteq {recorded}, SameNames(job.ver, a),
                 NEW f \in SkillFiles, dir[a][f] # 0
          PROVE  f \in gone
      <4>1. PICK v \in placed[a] : f \in Dests(v, a, SkillsOf[v])
        BY <1>1, <1>3, <3>2 DEF Written
      <4>2. v = recorded /\ v # NoVersion
        BY <1>1, <1>3, <3>2, <4>1, AgentSkillsAssumption DEF SkillsType
      <4>3. PICK n \in Recorded : f = DestName(recorded, a, n)
        BY <4>1, <4>2 DEF Recorded, Dests
      <4>4. f = DestName(job.ver, a, n)
        BY <3>2, <4>2, <4>3 DEF SameNames, Recorded
      <4> QED
        BY <1>3, <3>1, <3>2, <4>3, <4>4 DEF Dests
    <3>3. placed[a] \subseteq {recorded} /\ SameNames(job.ver, a) => Empty(dir[a])'
      BY <1>5, <3>2 DEF Empty
    <3>4. SameNames(job.ver, a)' => SameNames(job.ver, a)
      BY <1>1, <1>4 DEF SameNames
    <3> QED
      BY <1>1, <1>4, <2>2, <3>3, <3>4 DEF Done, SameNames
  <2> QED
    BY <2>1, <2>2
<1> QED
  BY <1>6, <1>7, <1>8, <1>9 DEF SkillsInv

LEMMA SaveStateKeeps ==
  ASSUME SkillsInv, SaveState
  PROVE  SkillsInv'
<1>1. /\ job.cmd # "none" /\ job.step = "agent" /\ job.todo = {}
      /\ job' = [job EXCEPT !.step = "save", !.was = state]
      /\ state' = Unreadable
      /\ UNCHANGED <<dir, placed, recorded>>
  BY DEF SaveState, AllDone, Files
<1>2. /\ IsJob(job') /\ job'.step = "save" /\ job'.cmd = job.cmd /\ job'.ver = job.ver
      /\ job'.agents = job.agents /\ job'.todo = job.todo /\ job'.names = job.names
      /\ job'.was = state /\ job'.stuck = job.stuck
  BY <1>1 DEF SkillsInv, SkillsType, IsJob
<1>3. state' \in States /\ ~state'.readable
  BY <1>1 DEF Unreadable, NoState, NoVersion, States
<1>4. SkillsType' /\ Written' /\ NamesKnown' /\ AtWork'
  BY <1>1, <1>2, <1>3 DEF SkillsInv, SkillsType, Written, NamesKnown, AtWork, Recorded
<1>5. ASSUME NEW b \in (job'.agents \cap CopyAgents) \ job'.todo
      PROVE  Done(b)'
  BY <1>1, <1>2, <1>5 DEF SkillsInv, Done, Clear, FindsRecord, SameNames
<1> QED
  BY <1>4, <1>5 DEF SkillsInv

LEMMA SaveRecordKeeps ==
  ASSUME SkillsInv, SaveRecord
  PROVE  SkillsInv'
<1>1. /\ job.step = "save" /\ job' = NoJob /\ UNCHANGED dir
      /\ state' = IF job.cmd = "install" THEN Installed(job.was, job.ver, job.agents)
                  ELSE Uninstalled(job.was, job.agents)
      /\ recorded' = IF job.cmd = "install" THEN job.ver ELSE recorded
      /\ placed' = [a \in CopyAgents |-> IF Empty(dir[a]) THEN {}
                                         ELSE IF job.cmd = "install" /\ Exact(dir[a], a, job.ver)
                                              THEN {job.ver} ELSE placed[a]]
  BY DEF SaveRecord
<1>2. /\ SkillsType /\ Written /\ IsJob(job) /\ job.was.skills = Recorded
      /\ job.was \in States /\ job.agents \in SUBSET Agents
      /\ job.cmd = "install" => job.ver \in Versions
  BY <1>1 DEF SkillsInv, SkillsType, NamesKnown, AtWork, IsJob
<1>3. state' \in States /\ state'.skills = Recorded'
  <2>1. CASE job.cmd = "install"
    <3>1. SkillsOf[job.ver] \in SUBSET Names /\ job.ver # NoVersion
      BY <1>2, <2>1, NamesOfVersion, AgentSkillsAssumption
    <3>2. state' = [job.was EXCEPT !.version = job.ver, !.skills = SkillsOf[job.ver],
                                   !.agents = @ \cup job.agents]
      BY <1>1, <2>1 DEF Installed
    <3>3. state' \in States /\ state'.skills = SkillsOf[job.ver]
      BY <1>2, <2>1, <3>1, <3>2 DEF States
    <3> QED
      BY <1>1, <2>1, <3>1, <3>3 DEF Recorded
  <2>2. CASE job.cmd # "install"
    <3> DEFINE v == IF job.was.agents \subseteq job.agents THEN NoVersion ELSE job.was.version
    <3>1. v \in Versions \cup {NoVersion}
      BY <1>2 DEF States
    <3>2. state' = [job.was EXCEPT !.agents = @ \ job.agents, !.version = v]
      BY <1>1, <1>2, <2>2 DEF Uninstalled, States
    <3> HIDE DEF v
    <3>3. state' \in States /\ state'.skills = job.was.skills
      BY <1>2, <3>1, <3>2 DEF States
    <3> QED
      BY <1>1, <1>2, <2>2, <3>3 DEF Recorded
  <2> QED
    BY <2>1, <2>2
<1>4. placed' \in [CopyAgents -> SUBSET Versions] /\ recorded' \in Versions \cup {NoVersion}
  BY <1>1, <1>2 DEF SkillsType
<1>5. IsJob(job')
  BY <1>1 DEF IsJob, NoJob, NoState, NoVersion, States
<1>6. SkillsType'
  BY <1>1, <1>2, <1>3, <1>4, <1>5 DEF SkillsType
<1>7. Written'
  <2> SUFFICES ASSUME NEW a \in CopyAgents, NEW f \in SkillFiles, dir[a][f] # 0
               PROVE  \E v \in placed'[a] : f \in Dests(v, a, SkillsOf[v])
    BY <1>1 DEF Written
  <2>1. ~Empty(dir[a])
    BY DEF Empty
  <2>2. CASE job.cmd = "install" /\ Exact(dir[a], a, job.ver)
    <3>1. placed'[a] = {job.ver}
      BY <1>1, <2>1, <2>2
    <3>2. f \in Dests(job.ver, a, SkillsOf[job.ver])
      BY <2>2 DEF Exact
    <3> QED
      BY <3>1, <3>2
  <2>3. CASE ~(job.cmd = "install" /\ Exact(dir[a], a, job.ver))
    <3>1. placed'[a] = placed[a]
      BY <1>1, <2>1, <2>3
    <3> QED
      BY <1>2, <3>1 DEF Written
  <2> QED
    BY <2>2, <2>3
<1>8. NamesKnown' /\ AtWork'
  BY <1>1, <1>3 DEF NamesKnown, AtWork, NoJob
<1> QED
  BY <1>1, <1>6, <1>7, <1>8 DEF SkillsInv, NoJob

LEMMA SkillsStepKeeps ==
  ASSUME SkillsInv, SkillsStep
  PROVE  SkillsInv'
<1>1. ASSUME NEW a \in Agents,
             CleanUp(a) \/ ReadDocument(a) \/ UninstallCopy(a) \/ UninstallAppendNothing(a)
      PROVE  SkillsInv'
  BY <1>1, CleanUpKeeps, ReadDocumentKeeps, UninstallCopyKeeps, UninstallAppendNothingKeeps
<1>2. ASSUME NEW f \in SkillFiles, Truncate(f) \/ Fill(f) PROVE SkillsInv'
  BY <1>2, TruncateSkillKeeps, FillSkillKeeps
<1>3. CASE Copied
  BY <1>3, CopiedKeeps
<1>4. CASE InstallFails \/ SaveFails
  BY <1>4, IdleKeeps DEF InstallFails, SaveFails, Files, Record
<1>5. CASE WriteDocument
  BY <1>5, WriteDocumentKeeps
<1>6. CASE SaveState
  BY <1>6, SaveStateKeeps
<1>7. CASE SaveRecord
  BY <1>7, SaveRecordKeeps
<1> QED
  BY <1>1, <1>2, <1>3, <1>4, <1>5, <1>6, <1>7 DEF SkillsStep

LEMMA SkillsInvFrame ==
  ASSUME SkillsInv, UNCHANGED <<job, state, dir, placed, recorded>>
  PROVE  SkillsInv'
BY DEF SkillsInv, SkillsType, Written, NamesKnown, AtWork, Recorded, Done, Clear, FindsRecord, SameNames

LEMMA SkillsInvStep == UpdateInv /\ SkillsInv /\ [Next]_vars => SkillsInv'
<1> SUFFICES ASSUME UpdateInv, SkillsInv, [Next]_vars PROVE SkillsInv'
  OBVIOUS
<1>1. CASE InstalledNext
  <2>1. CASE Install
    <3>1. PICK exe \in Paths, agents \in SUBSET Agents :
             Runs(exe) /\ StartInstall(bin[exe].ver, agents)
      BY <2>1 DEF Install, Types
    <3>2. bin[exe].ver \in Versions
      BY <3>1, HostFilesAssumption, SelfUpdateAssumption
         DEF UpdateInv, UpdateType, Runs, Paths
    <3> QED
      BY <3>1, <3>2, StartInstallKeeps
  <2>2. CASE Uninstall
    <3>1. PICK exe \in Paths, agents \in SUBSET Agents :
             Runs(exe) /\ StartUninstall(bin[exe].ver, agents)
      BY <2>2 DEF Uninstall, Types
    <3>2. bin[exe].ver \in Versions
      BY <3>1, HostFilesAssumption, SelfUpdateAssumption
         DEF UpdateInv, UpdateType, Runs, Paths
    <3> QED
      BY <3>1, <3>2, StartUninstallKeeps
  <2>3. CASE UpdateInstalledSkills
    <3>1. CASE Runs("home") /\ StartInstall(bin["home"].ver, state.agents)
      <4>1. bin["home"].ver \in Versions
        BY <3>1, HostFilesAssumption, SelfUpdateAssumption
           DEF UpdateInv, UpdateType, Runs, Paths
      <4>2. state.agents \in SUBSET Agents
        BY DEF SkillsInv, SkillsType, States
      <4> QED
        BY <3>1, <4>1, <4>2, StartInstallKeeps
    <3>2. CASE UNCHANGED skillsVars
      BY <3>2, SkillsInvFrame DEF skillsVars
    <3> QED
      BY <2>3, <3>1, <3>2 DEF UpdateInstalledSkills
  <2>4. CASE Crash
    <3>1. CASE UNCHANGED skillsVars
      BY <3>1, SkillsInvFrame DEF skillsVars
    <3>2. CASE SkillsCrash
      BY <3>2, IdleKeeps DEF SkillsCrash, Files, Record
    <3> QED
      BY <2>4, <3>1, <3>2 DEF Crash
  <2>5. CASE Update \/ ChildEnds
    BY <2>5, SkillsInvFrame DEF Update, ChildEnds, skillsVars
  <2>6. CASE UpdateStep /\ UNCHANGED <<skillsVars, commands, crashes>>
    BY <2>6, SkillsInvFrame DEF skillsVars
  <2>7. CASE SkillsStep
    BY <2>7, SkillsStepKeeps
  <2>8. CASE UserStep
    BY <2>8, SkillsInvFrame DEF UserStep, UserWrites, UserDropsMarker, Files, Record
  <2> QED
    BY <1>1, <2>1, <2>2, <2>3, <2>4, <2>5, <2>6, <2>7, <2>8 DEF InstalledNext
<1>2. CASE UNCHANGED skillsVars
  BY <1>2, SkillsInvFrame DEF skillsVars
<1> QED
  BY <1>1, <1>2 DEF Next, vars

\* Once every agent of an installation is done, its directory holds every file of
\* the release; and no other, or none at all after an uninstallation, if only that
\* release and the one on record wrote there since it was last in order, the one
\* that runs finds the files of the one on record, and no file refused to go
\* (cleanupStaleFiles, installCopy, uninstallCopy).
THEOREM SkillsStayInStep == Spec => []SkillsInStep
<1>1. SkillsInv => SkillsInStep
  BY DEF SkillsInv, SkillsInStep, AllDone, Done, Clear
<1> QED
  BY <1>1, UpdateInvInit, UpdateInvStep, SkillsInvInit, SkillsInvStep, PTL DEF Spec

-----------------------------------------------------------------------------
(* The user's text.                                                        *)

Parts == {Start, End} \cup {<<"skills", v>> : v \in Versions \cup {NoVersion}} \cup {Text(n) : n \in Nat}

\* The document, on the disk or in the hands of a command.
Page == IF job.step = "document" THEN job.text ELSE doc

\* Position i of d is the only one of a marker; nothing of the user's is between two
\* that are.
Only(d, mark, i) == i \in DOMAIN d /\ d[i] = mark /\ \A j \in DOMAIN d : d[j] = mark => j = i
OneBlock(d) ==
    \A i, j \in DOMAIN d : Only(d, Start, i) /\ Only(d, End, j) =>
        \A n \in Texts(d) : n < i \/ n > j

TextInv ==
    /\ typed \in Seq(Parts) /\ \A n \in DOMAIN typed : typed[n][1] = "text"
    /\ ~ hurt => Page \in Seq(Parts) /\ Holds(Page, typed) /\ OneBlock(Page)

LEMMA PartsDiffer ==
    /\ Start # End /\ Start[1] # "text" /\ End[1] # "text"
    /\ \A v : <<"skills", v>>[1] # "text" /\ <<"skills", v>> # Start /\ <<"skills", v>> # End
    /\ \A n : Text(n)[1] = "text" /\ Text(n) # Start /\ Text(n) # End
  BY DEF Start, End, Text

\* A marker that is counted once.
LEMMA CountedOnce ==
    ASSUME NEW d \in Seq(Parts), NEW mark, Count(d, mark) = 1
    PROVE  Only(d, mark, FirstAt(d, mark))
<1> DEFINE S == {i \in DOMAIN d : d[i] = mark}
<1>1. IsFiniteSet(S)
  <2>1. DOMAIN d = 1 .. Len(d) /\ Len(d) \in Int /\ 1 \in Int
    OBVIOUS
  <2>2. IsFiniteSet(DOMAIN d)
    BY <2>1, FS_Interval
  <2> QED
    BY <2>2, FS_Subset
<1>2. PICK i : S = {i}
  BY <1>1, FS_Singleton DEF Count
<1>3. Only(d, mark, i)
  BY <1>2 DEF Only
<1>4. i \in DOMAIN d /\ d[i] = mark /\ \A j \in 1 .. (i - 1) : d[j] # mark
  BY <1>3 DEF Only
<1>5. \A k \in DOMAIN d : d[k] = mark => k = i
  BY <1>3 DEF Only
<1>6. FirstAt(d, mark) = i
  BY <1>4, <1>5 DEF FirstAt
<1> QED
  BY <1>3, <1>6

\* The texts of d stand in e in the same order: at carries the one to the other.
LEMMA Carried ==
    ASSUME NEW d \in Seq(Parts), NEW e \in Seq(Parts), NEW ts \in Seq(Parts), Holds(d, ts),
           NEW to \in [Texts(d) -> Texts(e)],
           \A m, n \in Texts(d) : m < n => to[m] < to[n],
           \A n \in Texts(d) : e[to[n]] = d[n],
           \A n \in Texts(e) : \E m \in Texts(d) : to[m] = n
    PROVE  Holds(e, ts)
<1>1. PICK at \in [DOMAIN ts -> DOMAIN d] :
        /\ \A i, j \in DOMAIN ts : i < j => at[i] < at[j]
        /\ \A i \in DOMAIN ts : d[at[i]] = ts[i]
        /\ Texts(d) = {at[i] : i \in DOMAIN ts}
  BY DEF Holds
<1> DEFINE now == [i \in DOMAIN ts |-> to[at[i]]]
<1>2. now \in [DOMAIN ts -> DOMAIN e]
  BY <1>1 DEF Texts
<1>3. \A i, j \in DOMAIN ts : i < j => now[i] < now[j]
  BY <1>1
<1>4. \A i \in DOMAIN ts : e[now[i]] = ts[i]
  BY <1>1
<1>5. Texts(e) = {now[i] : i \in DOMAIN ts}
  BY <1>1
<1> HIDE DEF now
<1> QED
  BY <1>2, <1>3, <1>4, <1>5 DEF Holds

\* What stands from i to j in d, which is not text, gives way to k parts that are not.
LEMMA Replaced ==
    ASSUME NEW d \in Seq(Parts), NEW e \in Seq(Parts), NEW ts \in Seq(Parts), Holds(d, ts),
           NEW i \in Nat \ {0}, NEW j \in Nat, NEW k \in Nat, i <= j + 1, j <= Len(d),
           Len(e) = Len(d) - (j + 1 - i) + k,
           \A n \in Texts(d) : n < i \/ n > j,
           \A n \in 1 .. i - 1 : e[n] = d[n],
           \A n \in i .. i + k - 1 : e[n][1] # "text",
           \A n \in i + k .. Len(e) : e[n] = d[n - (i + k) + j + 1]
    PROVE  Holds(e, ts)
<1> DEFINE to == [n \in Texts(d) |-> IF n < i THEN n ELSE n - (j + 1) + i + k]
<1>1. /\ DOMAIN d = 1 .. Len(d) /\ DOMAIN e = 1 .. Len(e) /\ Len(d) \in Nat /\ Len(e) \in Nat
  OBVIOUS
<1>2. \A n \in Texts(d) : n \in 1 .. Len(d) /\ d[n][1] = "text"
  BY <1>1 DEF Texts
<1>3. \A n \in Texts(d) : to[n] \in 1 .. Len(e) /\ e[to[n]] = d[n]
  <2> SUFFICES ASSUME NEW n \in Texts(d)
               PROVE  to[n] \in 1 .. Len(e) /\ e[to[n]] = d[n]
    OBVIOUS
  <2>1. CASE n < i
    <3>1. to[n] = n /\ n \in 1 .. i - 1
      BY <1>2, <2>1
    <3>2. n \in 1 .. Len(e)
      BY <1>1, <3>1
    <3> QED
      BY <3>1, <3>2
  <2>2. CASE ~ (n < i)
    <3>1. n > j /\ n \in 1 .. Len(d)
      BY <1>2, <2>2
    <3>2. to[n] = n - (j + 1) + i + k
      BY <2>2
    <3>3. to[n] \in i + k .. Len(e) /\ to[n] - (i + k) + j + 1 = n
      BY <1>1, <3>1, <3>2
    <3>4. e[to[n]] = d[n]
      BY <3>3
    <3>5. to[n] \in 1 .. Len(e)
      BY <1>1, <3>3
    <3> QED
      BY <3>4, <3>5
  <2> QED
    BY <2>1, <2>2
<1>4. to \in [Texts(d) -> Texts(e)]
  BY <1>1, <1>2, <1>3 DEF Texts
<1>5. \A m, n \in Texts(d) : m < n => to[m] < to[n]
  BY <1>2
<1>6. ASSUME NEW n \in Texts(e) PROVE \E m \in Texts(d) : to[m] = n
  <2>1. n \in 1 .. Len(e) /\ e[n][1] = "text"
    BY <1>1 DEF Texts
  <2>2. CASE n < i
    <3>1. n \in Texts(d)
      BY <1>1, <2>1, <2>2 DEF Texts
    <3> QED
      BY <2>2, <3>1
  <2>3. CASE ~ (n < i)
    <3>1. n \in i + k .. Len(e)
      <4>1. n \notin i .. i + k - 1
        BY <2>1
      <4> QED
        BY <1>1, <2>1, <2>3, <4>1
    <3>2. n - (i + k) + j + 1 \in 1 .. Len(d) /\ n - (i + k) + j + 1 > j
      BY <1>1, <3>1
    <3>3. n - (i + k) + j + 1 \in Texts(d)
      BY <1>1, <2>1, <3>1, <3>2 DEF Texts
    <3>4. to[n - (i + k) + j + 1] = n
      BY <1>1, <3>1, <3>2, <3>3
    <3> QED
      BY <3>3, <3>4
  <2> QED
    BY <2>2, <2>3
<1> HIDE DEF to
<1> QED
  BY <1>3, <1>4, <1>5, <1>6, Carried

\* A marked document has its block where its markers are first.
LEMMA MarkedAt ==
    ASSUME NEW d \in Seq(Parts), Marked(d)
    PROVE  /\ Only(d, Start, FirstAt(d, Start)) /\ Only(d, End, FirstAt(d, End))
           /\ FirstAt(d, Start) \in 1 .. Len(d) /\ FirstAt(d, End) \in 1 .. Len(d)
           /\ FirstAt(d, Start) < FirstAt(d, End)
           /\ d[FirstAt(d, Start)] = Start /\ d[FirstAt(d, End)] = End
           /\ HasBoth(d)
<1>1. Only(d, Start, FirstAt(d, Start)) /\ Only(d, End, FirstAt(d, End))
  BY CountedOnce DEF Marked
<1>2. /\ FirstAt(d, Start) \in 1 .. Len(d) /\ FirstAt(d, End) \in 1 .. Len(d)
      /\ d[FirstAt(d, Start)] = Start /\ d[FirstAt(d, End)] = End
  BY <1>1 DEF Only
<1>3. HasBoth(d)
  BY <1>2 DEF HasBoth, ToSet
<1> QED
  BY <1>1, <1>2, <1>3 DEF Marked

LEMMA BlockIs ==
    ASSUME NEW v \in Versions \cup {NoVersion}
    PROVE  /\ Block(v) \in Seq(Parts) /\ Len(Block(v)) = 3
           /\ Block(v)[1] = Start /\ Block(v)[2] = <<"skills", v>> /\ Block(v)[3] = End
<1>1. Start \in Parts /\ <<"skills", v>> \in Parts /\ End \in Parts
  BY DEF Parts
<1> QED
  BY <1>1 DEF Block

\* Two sequences joined; and what is left of d around the positions i to j.
LEMMA Joined ==
    ASSUME NEW a \in Seq(Parts), NEW b \in Seq(Parts)
    PROVE  /\ a \o b \in Seq(Parts) /\ Len(a \o b) = Len(a) + Len(b)
           /\ Len(a) \in Nat /\ Len(b) \in Nat
           /\ \A n \in 1 .. Len(a) : (a \o b)[n] = a[n]
           /\ \A n \in Len(a) + 1 .. Len(a) + Len(b) : (a \o b)[n] = b[n - Len(a)]
  OBVIOUS

LEMMA Around ==
    ASSUME NEW d \in Seq(Parts), NEW i \in 1 .. Len(d), NEW j \in 1 .. Len(d)
    PROVE  /\ SubSeq(d, 1, i - 1) \in Seq(Parts) /\ Len(SubSeq(d, 1, i - 1)) = i - 1
           /\ \A n \in 1 .. i - 1 : SubSeq(d, 1, i - 1)[n] = d[n]
           /\ SubSeq(d, j + 1, Len(d)) \in Seq(Parts) /\ Len(SubSeq(d, j + 1, Len(d))) = Len(d) - j
           /\ \A n \in 1 .. Len(d) - j : SubSeq(d, j + 1, Len(d))[n] = d[n + j]
  OBVIOUS

\* installAppend and uninstallAppend take nothing of the user's from a document with
\* one block, or with no block at all.
LEMMA BlockInPlace ==
    ASSUME NEW d \in Seq(Parts), NEW ts \in Seq(Parts), Holds(d, ts), OneBlock(d), Marked(d),
           NEW v \in Versions \cup {NoVersion}, NEW e, e = WithBlock(d, v)
    PROVE  e \in Seq(Parts) /\ Holds(e, ts) /\ OneBlock(e)
<1> DEFINE i == FirstAt(d, Start)
           j == FirstAt(d, End)
<1>1. /\ Only(d, Start, i) /\ Only(d, End, j) /\ i \in 1 .. Len(d) /\ j \in 1 .. Len(d) /\ i < j
      /\ HasBoth(d)
  BY MarkedAt
<1>2. e = SubSeq(d, 1, i - 1) \o Block(v) \o SubSeq(d, j + 1, Len(d))
  BY <1>1 DEF WithBlock, Before, After
<1>3. /\ Block(v) \in Seq(Parts) /\ Len(Block(v)) = 3
      /\ Block(v)[1] = Start /\ Block(v)[2] = <<"skills", v>> /\ Block(v)[3] = End
  BY BlockIs
<1> HIDE DEF i, j
<1> DEFINE b == SubSeq(d, 1, i - 1)
           m == Block(v)
           a == SubSeq(d, j + 1, Len(d))
<1>4. /\ b \in Seq(Parts) /\ Len(b) = i - 1 /\ \A n \in 1 .. i - 1 : b[n] = d[n]
      /\ a \in Seq(Parts) /\ Len(a) = Len(d) - j /\ \A n \in 1 .. Len(d) - j : a[n] = d[n + j]
  BY <1>1, Around
<1>5. /\ m \in Seq(Parts) /\ Len(m) = 3 /\ m[1] = Start /\ m[2] = <<"skills", v>> /\ m[3] = End
      /\ e = b \o m \o a
  BY <1>2, <1>3
<1> HIDE DEF b, m, a
<1>6. /\ e \in Seq(Parts) /\ Len(e) = i + 2 + Len(d) - j
      /\ \A n \in 1 .. i - 1 : e[n] = d[n]
      /\ e[i] = Start /\ e[i + 1] = <<"skills", v>> /\ e[i + 2] = End
      /\ \A n \in i + 3 .. Len(e) : e[n] = d[n - (i + 3) + j + 1]
  <2>1. /\ b \o m \in Seq(Parts) /\ Len(b \o m) = i + 2
        /\ \A n \in 1 .. i - 1 : (b \o m)[n] = b[n]
        /\ \A n \in i .. i + 2 : (b \o m)[n] = m[n - (i - 1)]
    <3>1. Len(b) + 1 = i /\ Len(b) + Len(m) = i + 2
      BY <1>1, <1>4, <1>5
    <3>2. /\ b \o m \in Seq(Parts) /\ Len(b \o m) = Len(b) + Len(m)
          /\ \A n \in 1 .. Len(b) : (b \o m)[n] = b[n]
          /\ \A n \in Len(b) + 1 .. Len(b) + Len(m) : (b \o m)[n] = m[n - Len(b)]
      BY <1>4, <1>5, Joined
    <3> QED
      BY <1>4, <3>1, <3>2
  <2>2. /\ e \in Seq(Parts) /\ Len(e) = i + 2 + (Len(d) - j)
        /\ \A n \in 1 .. i + 2 : e[n] = (b \o m)[n]
        /\ \A n \in i + 3 .. i + 2 + (Len(d) - j) : e[n] = a[n - (i + 2)]
    <3>1. Len(b \o m) + 1 = i + 3 /\ Len(b \o m) + Len(a) = i + 2 + (Len(d) - j)
      BY <1>1, <1>4, <2>1
    <3> DEFINE c == b \o m
    <3>2. c \in Seq(Parts) /\ e = c \o a
      BY <1>5, <2>1
    <3> HIDE DEF c
    <3>3. /\ e \in Seq(Parts) /\ Len(e) = Len(c) + Len(a)
          /\ \A n \in 1 .. Len(c) : e[n] = c[n]
          /\ \A n \in Len(c) + 1 .. Len(c) + Len(a) : e[n] = a[n - Len(c)]
      BY <1>4, <3>2, Joined
    <3> QED
      BY <2>1, <3>1, <3>3 DEF c
  <2>3. \A n \in 1 .. i - 1 : e[n] = d[n]
    BY <1>1, <1>4, <2>1, <2>2
  <2>4. e[i] = Start /\ e[i + 1] = <<"skills", v>> /\ e[i + 2] = End
    <3>1. i \in i .. i + 2 /\ i + 1 \in i .. i + 2 /\ i + 2 \in i .. i + 2
          /\ i \in 1 .. i + 2 /\ i + 1 \in 1 .. i + 2 /\ i + 2 \in 1 .. i + 2
          /\ i - (i - 1) = 1 /\ (i + 1) - (i - 1) = 2 /\ (i + 2) - (i - 1) = 3
      BY <1>1
    <3>2. e[i] = m[1] /\ e[i + 1] = m[2] /\ e[i + 2] = m[3]
      BY <2>1, <2>2, <3>1
    <3> QED
      BY <1>5, <3>2
  <2>5. \A n \in i + 3 .. Len(e) : e[n] = d[n - (i + 3) + j + 1]
    <3> SUFFICES ASSUME NEW n \in i + 3 .. Len(e) PROVE e[n] = d[n - (i + 3) + j + 1]
      OBVIOUS
    <3>1. e[n] = a[n - (i + 2)] /\ n - (i + 2) \in 1 .. Len(d) - j
      BY <1>1, <2>2
    <3>2. n - (i + 2) + j = n - (i + 3) + j + 1
      BY <1>1
    <3> QED
      BY <1>4, <3>1, <3>2
  <2> QED
    BY <1>1, <2>2, <2>3, <2>4, <2>5
<1>7. \A n \in Texts(d) : n < i \/ n > j
  BY <1>1 DEF OneBlock
<1>8. \A n \in i .. i + 3 - 1 : e[n][1] # "text"
  <2>1. \A n \in i .. i + 3 - 1 : n = i \/ n = i + 1 \/ n = i + 2
    BY <1>1
  <2> QED
    BY <1>6, <2>1, PartsDiffer
<1>9. Holds(e, ts)
  <2>1. i \in Nat \ {0} /\ j \in Nat /\ 3 \in Nat /\ i <= j + 1 /\ j <= Len(d)
        /\ Len(e) = Len(d) - (j + 1 - i) + 3
    BY <1>1, <1>6
  <2>2. \A n \in i + 3 .. Len(e) : e[n] = d[n - (i + 3) + j + 1]
    BY <1>6
  <2> QED
    BY <1>6, <1>7, <1>8, <2>1, <2>2, Replaced
<1>10. OneBlock(e)
  <2> SUFFICES ASSUME NEW p \in DOMAIN e, NEW q \in DOMAIN e, Only(e, Start, p), Only(e, End, q),
                      NEW n \in Texts(e)
               PROVE  n < p \/ n > q
    BY DEF OneBlock
  <2>1. i \in DOMAIN e /\ i + 2 \in DOMAIN e
    BY <1>1, <1>6
  <2>2. p = i /\ q = i + 2
    BY <1>6, <2>1 DEF Only
  <2>3. n \notin i .. i + 2
    BY <1>1, <1>8 DEF Texts
  <2>4. n \in Nat
    BY <1>6 DEF Texts
  <2> QED
    BY <1>1, <2>2, <2>3, <2>4
<1> QED
  BY <1>6, <1>9, <1>10

LEMMA TakenOut ==
    ASSUME NEW d \in Seq(Parts), NEW ts \in Seq(Parts), Holds(d, ts),
           NEW i \in 1 .. Len(d), NEW j \in 1 .. Len(d), i <= j, \A n \in Texts(d) : n < i \/ n > j,
           NEW mark \in {Start, End}, \A n \in DOMAIN d : d[n] = mark => n \in i .. j,
           NEW e, e = SubSeq(d, 1, i - 1) \o SubSeq(d, j + 1, Len(d))
    PROVE  e \in Seq(Parts) /\ Holds(e, ts) /\ OneBlock(e)
<1> DEFINE b == SubSeq(d, 1, i - 1)
           a == SubSeq(d, j + 1, Len(d))
<1>1. /\ b \in Seq(Parts) /\ Len(b) = i - 1 /\ \A n \in 1 .. i - 1 : b[n] = d[n]
      /\ a \in Seq(Parts) /\ Len(a) = Len(d) - j /\ \A n \in 1 .. Len(d) - j : a[n] = d[n + j]
  BY Around
<1>2. e = b \o a
  OBVIOUS
<1> HIDE DEF b, a
<1>3. /\ e \in Seq(Parts) /\ Len(e) = Len(b) + Len(a)
      /\ \A n \in 1 .. Len(b) : e[n] = b[n]
      /\ \A n \in Len(b) + 1 .. Len(b) + Len(a) : e[n] = a[n - Len(b)]
  <2>1. b \in Seq(Parts) /\ a \in Seq(Parts)
    BY <1>1
  <2>2. /\ b \o a \in Seq(Parts) /\ Len(b \o a) = Len(b) + Len(a)
        /\ \A n \in 1 .. Len(b) : (b \o a)[n] = b[n]
        /\ \A n \in Len(b) + 1 .. Len(b) + Len(a) : (b \o a)[n] = a[n - Len(b)]
    BY ONLY <2>1, Joined
  <2> QED
    BY ONLY <1>2, <2>2
<1>n. Len(d) \in Nat /\ i \in Nat /\ j \in Nat /\ 1 <= i /\ i <= j /\ j <= Len(d)
  <2>1. Len(d) \in Nat
    BY ONLY d \in Seq(Parts)
  <2> QED
    BY ONLY <2>1, i \in 1 .. Len(d), j \in 1 .. Len(d), i <= j
<1>4. Len(e) = i - 1 + (Len(d) - j) /\ Len(d) \in Nat /\ Len(e) \in Nat
  BY ONLY <1>1, <1>3, <1>n
<1>5. \A n \in 1 .. i - 1 : e[n] = d[n]
  BY <1>1, <1>3
<1>6. \A n \in i .. Len(e) : e[n] = d[n - i + j + 1] /\ n - i + j + 1 \in 1 .. Len(d) /\ n - i + j + 1 > j
  <2> SUFFICES ASSUME NEW n \in i .. Len(e)
               PROVE  e[n] = d[n - i + j + 1] /\ n - i + j + 1 \in 1 .. Len(d) /\ n - i + j + 1 > j
    OBVIOUS
  <2>1. e[n] = a[n - (i - 1)] /\ n - (i - 1) \in 1 .. Len(d) - j
    BY ONLY <1>1, <1>3, <1>4, <1>n, n \in i .. Len(e)
  <2>2. n - (i - 1) + j = n - i + j + 1
    BY ONLY <1>4, <1>n, n \in i .. Len(e)
  <2>3. e[n] = d[n - i + j + 1]
    BY ONLY <1>1, <2>1, <2>2
  <2> QED
    BY ONLY <1>4, <1>n, <2>3, n \in i .. Len(e)
<1>7. Holds(e, ts)
  <2>1. /\ i \in Nat \ {0} /\ j \in Nat /\ 0 \in Nat /\ i <= j + 1 /\ j <= Len(d)
        /\ Len(e) = Len(d) - (j + 1 - i) + 0
    BY ONLY <1>4, <1>n
  <2>2. \A n \in i + 0 .. Len(e) : e[n] = d[n - (i + 0) + j + 1]
    BY ONLY <1>6, <1>n
  <2>3. \A n \in i .. i + 0 - 1 : e[n][1] # "text"
    OBVIOUS
  <2> QED
    BY <1>3, <1>5, <2>1, <2>2, <2>3, Replaced
<1>8. ASSUME NEW n \in DOMAIN e PROVE e[n] # mark
  <2>1. n \in 1 .. i - 1 \/ n \in i .. Len(e)
    <3>1. n \in 1 .. Len(e)
      BY ONLY <1>3, n \in DOMAIN e
    <3> QED
      BY ONLY <1>4, <1>n, <3>1
  <2>2. CASE n \in 1 .. i - 1
    <3>1. e[n] = d[n] /\ n \in DOMAIN d /\ n \notin i .. j
      BY <1>4, <1>5, <2>2
    <3> QED
      BY <3>1
  <2>3. CASE n \in i .. Len(e)
    <3>1. e[n] = d[n - i + j + 1] /\ n - i + j + 1 \in 1 .. Len(d) /\ n - i + j + 1 > j
      BY <1>6, <2>3
    <3>2. n - i + j + 1 \in DOMAIN d /\ n - i + j + 1 \notin i .. j
      <4>1. DOMAIN d = 1 .. Len(d)
        OBVIOUS
      <4> QED
        BY ONLY <1>n, <3>1, <4>1
    <3> QED
      BY <3>1, <3>2
  <2> QED
    BY <2>1, <2>2, <2>3
<1>9. OneBlock(e)
  BY <1>8 DEF OneBlock, Only
<1> QED
  BY <1>3, <1>7, <1>9

\* A block is written behind a document that has none.
LEMMA BlockAppended ==
    ASSUME NEW d \in Seq(Parts), NEW ts \in Seq(Parts), Holds(d, ts),
           NEW v \in Versions \cup {NoVersion}, NEW e, e = d \o Block(v)
    PROVE  e \in Seq(Parts) /\ Holds(e, ts) /\ OneBlock(e)
<1> DEFINE m == Block(v)
           i == Len(d) + 1
<1>1. /\ m \in Seq(Parts) /\ Len(m) = 3 /\ m[1] = Start /\ m[2] = <<"skills", v>> /\ m[3] = End
      /\ e = d \o m /\ Len(d) \in Nat
  BY BlockIs
<1> HIDE DEF m
<1>2. /\ e \in Seq(Parts) /\ Len(e) = Len(d) + Len(m)
      /\ \A n \in 1 .. Len(d) : e[n] = d[n]
      /\ \A n \in Len(d) + 1 .. Len(d) + Len(m) : e[n] = m[n - Len(d)]
  <2>1. m \in Seq(Parts) /\ e = d \o m
    BY <1>1
  <2>2. /\ d \o m \in Seq(Parts) /\ Len(d \o m) = Len(d) + Len(m)
        /\ \A n \in 1 .. Len(d) : (d \o m)[n] = d[n]
        /\ \A n \in Len(d) + 1 .. Len(d) + Len(m) : (d \o m)[n] = m[n - Len(d)]
    BY ONLY <2>1, d \in Seq(Parts), Joined
  <2> QED
    BY ONLY <2>1, <2>2
<1>3. Len(e) = Len(d) + 3 /\ i \in DOMAIN e /\ i + 2 \in DOMAIN e
  BY <1>1, <1>2
<1>4. e[i] = Start /\ e[i + 1] = <<"skills", v>> /\ e[i + 2] = End
  <2>1. /\ i \in Len(d) + 1 .. Len(d) + Len(m) /\ i + 1 \in Len(d) + 1 .. Len(d) + Len(m)
        /\ i + 2 \in Len(d) + 1 .. Len(d) + Len(m)
        /\ i - Len(d) = 1 /\ (i + 1) - Len(d) = 2 /\ (i + 2) - Len(d) = 3
    BY <1>1
  <2> QED
    BY <1>1, <1>2, <2>1
<1>5. \A n \in i .. i + 3 - 1 : e[n][1] # "text"
  <2>1. \A n \in i .. i + 3 - 1 : n = i \/ n = i + 1 \/ n = i + 2
    BY <1>1
  <2> QED
    BY <1>4, <2>1, PartsDiffer
<1>6. Holds(e, ts)
  <2>1. /\ i \in Nat \ {0} /\ Len(d) \in Nat /\ 3 \in Nat /\ i <= Len(d) + 1 /\ Len(d) <= Len(d)
        /\ Len(e) = Len(d) - (Len(d) + 1 - i) + 3
    BY <1>1, <1>3
  <2>2. \A n \in i + 3 .. Len(e) : e[n] = d[n - (i + 3) + Len(d) + 1]
    BY <1>1, <1>3
  <2>3. \A n \in Texts(d) : n < i \/ n > Len(d)
    BY <1>1 DEF Texts
  <2>4. \A n \in 1 .. i - 1 : e[n] = d[n]
    BY <1>1, <1>2
  <2> QED
    BY <1>2, <1>5, <2>1, <2>2, <2>3, <2>4, Replaced
<1>7. OneBlock(e)
  <2> SUFFICES ASSUME NEW p \in DOMAIN e, NEW q \in DOMAIN e, Only(e, Start, p), Only(e, End, q),
                      NEW n \in Texts(e)
               PROVE  n < p \/ n > q
    BY DEF OneBlock
  <2>1. p = i /\ q = i + 2
    BY <1>3, <1>4 DEF Only
  <2>2. n \notin i .. i + 2
    BY <1>1, <1>5 DEF Texts
  <2>3. n \in Nat
    BY <1>2 DEF Texts
  <2> QED
    BY <1>1, <2>1, <2>2, <2>3
<1> QED
  BY <1>2, <1>6, <1>7

\* The user writes at the end or at the beginning.
LEMMA TextAdded ==
    ASSUME NEW d \in Seq(Parts), NEW ts \in Seq(Parts), Holds(d, ts), OneBlock(d),
           NEW x \in Parts, x[1] = "text"
    PROVE  /\ Append(d, x) \in Seq(Parts) /\ Holds(Append(d, x), Append(ts, x)) /\ OneBlock(Append(d, x))
           /\ <<x>> \o d \in Seq(Parts) /\ Holds(<<x>> \o d, <<x>> \o ts) /\ OneBlock(<<x>> \o d)
<1>1. PICK at \in [DOMAIN ts -> DOMAIN d] :
        /\ \A i, j \in DOMAIN ts : i < j => at[i] < at[j]
        /\ \A i \in DOMAIN ts : d[at[i]] = ts[i]
        /\ Texts(d) = {at[i] : i \in DOMAIN ts}
  BY DEF Holds
<1>2. /\ DOMAIN d = 1 .. Len(d) /\ DOMAIN ts = 1 .. Len(ts) /\ Len(d) \in Nat /\ Len(ts) \in Nat
  OBVIOUS
<1>3. ASSUME NEW e, e = Append(d, x), NEW us, us = Append(ts, x)
      PROVE  e \in Seq(Parts) /\ Holds(e, us) /\ OneBlock(e)
  <2>1. /\ e \in Seq(Parts) /\ DOMAIN e = 1 .. Len(d) + 1 /\ e[Len(d) + 1] = x
        /\ \A n \in 1 .. Len(d) : e[n] = d[n]
    BY <1>2, <1>3
  <2>2. /\ DOMAIN us = 1 .. Len(ts) + 1 /\ us[Len(ts) + 1] = x /\ \A n \in 1 .. Len(ts) : us[n] = ts[n]
    BY <1>2, <1>3
  <2> DEFINE now == [i \in DOMAIN us |-> IF i = Len(ts) + 1 THEN Len(d) + 1 ELSE at[i]]
  <2>3. now \in [DOMAIN us -> DOMAIN e]
    BY <1>1, <1>2, <2>1, <2>2
  <2>4. \A i, j \in DOMAIN us : i < j => now[i] < now[j]
    BY <1>1, <1>2, <2>2
  <2>5. \A i \in DOMAIN us : e[now[i]] = us[i]
    BY <1>1, <1>2, <2>1, <2>2
  <2>6. Texts(e) = Texts(d) \cup {Len(d) + 1}
    BY <1>2, <2>1 DEF Texts
  <2>7. Texts(e) = {now[i] : i \in DOMAIN us}
    BY <1>1, <1>2, <2>2, <2>6
  <2>8. OneBlock(e)
    <3> SUFFICES ASSUME NEW p \in DOMAIN e, NEW q \in DOMAIN e, Only(e, Start, p), Only(e, End, q),
                        NEW n \in Texts(e)
                 PROVE  n < p \/ n > q
      BY DEF OneBlock
    <3>1. p # Len(d) + 1 /\ q # Len(d) + 1
      BY <2>1, PartsDiffer DEF Only
    <3>2. p \in DOMAIN d /\ q \in DOMAIN d
      BY <1>2, <2>1, <3>1
    <3>3. Only(d, Start, p) /\ Only(d, End, q)
      BY <1>2, <2>1, <3>2 DEF Only
    <3>4. CASE n = Len(d) + 1
      BY <1>2, <3>2, <3>4
    <3>5. CASE n \in Texts(d)
      BY <3>2, <3>3, <3>5 DEF OneBlock
    <3> QED
      BY <2>6, <3>4, <3>5
  <2> HIDE DEF now
  <2> QED
    BY <2>1, <2>3, <2>4, <2>5, <2>7, <2>8 DEF Holds
<1>4. ASSUME NEW e, e = <<x>> \o d, NEW us, us = <<x>> \o ts
      PROVE  e \in Seq(Parts) /\ Holds(e, us) /\ OneBlock(e)
  <2>1. /\ e \in Seq(Parts) /\ DOMAIN e = 1 .. Len(d) + 1 /\ e[1] = x
        /\ \A n \in 1 .. Len(d) : e[n + 1] = d[n]
        /\ \A n \in DOMAIN e : n = 1 \/ (n - 1 \in DOMAIN d /\ e[n] = d[n - 1])
    BY <1>2, <1>4
  <2>2. /\ DOMAIN us = 1 .. Len(ts) + 1 /\ us[1] = x
        /\ \A n \in DOMAIN us : n = 1 \/ (n - 1 \in DOMAIN ts /\ us[n] = ts[n - 1])
    BY <1>2, <1>4
  <2> DEFINE now == [i \in DOMAIN us |-> IF i = 1 THEN 1 ELSE at[i - 1] + 1]
  <2>3. now \in [DOMAIN us -> DOMAIN e]
    BY <1>1, <1>2, <2>1, <2>2
  <2>4. \A i, j \in DOMAIN us : i < j => now[i] < now[j]
    BY <1>1, <1>2, <2>2
  <2>5. \A i \in DOMAIN us : e[now[i]] = us[i]
    BY <1>1, <1>2, <2>1, <2>2
  <2>6. Texts(e) = {1} \cup {n + 1 : n \in Texts(d)}
    BY <1>2, <2>1 DEF Texts
  <2>7. Texts(e) = {now[i] : i \in DOMAIN us}
    <3>1. ASSUME NEW n \in Texts(d) PROVE \E i \in DOMAIN us : now[i] = n + 1
      <4>1. PICK i \in DOMAIN ts : at[i] = n
        BY <1>1
      <4>2. i + 1 \in DOMAIN us /\ i + 1 # 1 /\ (i + 1) - 1 = i
        BY <1>2, <2>2
      <4>3. now[i + 1] = n + 1
        BY <4>1, <4>2
      <4> QED
        BY <4>2, <4>3
    <3>2. 1 \in DOMAIN us /\ now[1] = 1
      BY <1>2, <2>2
    <3>3. ASSUME NEW i \in DOMAIN us PROVE now[i] \in Texts(e)
      BY <1>1, <2>2, <2>6, <3>3
    <3> QED
      BY <2>6, <3>1, <3>2, <3>3
  <2>8. OneBlock(e)
    <3> SUFFICES ASSUME NEW p \in DOMAIN e, NEW q \in DOMAIN e, Only(e, Start, p), Only(e, End, q),
                        NEW n \in Texts(e)
                 PROVE  n < p \/ n > q
      BY DEF OneBlock
    <3>1. p # 1 /\ q # 1
      BY <2>1, PartsDiffer DEF Only
    <3>2. p - 1 \in DOMAIN d /\ q - 1 \in DOMAIN d /\ d[p - 1] = Start /\ d[q - 1] = End
      BY <2>1, <3>1 DEF Only
    <3>3. ASSUME NEW k \in DOMAIN d PROVE k + 1 \in DOMAIN e /\ e[k + 1] = d[k] /\ k \in Nat
      BY <1>2, <2>1
    <3>4. Only(d, Start, p - 1) /\ Only(d, End, q - 1)
      <4>1. \A k \in DOMAIN d : (d[k] = Start => k + 1 = p) /\ (d[k] = End => k + 1 = q)
        BY <3>3 DEF Only
      <4>2. \A k \in DOMAIN d : (d[k] = Start => k = p - 1) /\ (d[k] = End => k = q - 1)
        BY <3>3, <4>1
      <4> QED
        BY <3>2, <4>2 DEF Only
    <3>5. CASE n = 1
      BY <2>1, <3>1, <3>5
    <3>6. ASSUME NEW k \in Texts(d), n = k + 1 PROVE n < p \/ n > q
      <4>1. k < p - 1 \/ k > q - 1
        BY <3>2, <3>4 DEF OneBlock
      <4> QED
        BY <1>2, <2>1, <3>6, <4>1 DEF Texts
    <3> QED
      BY <2>6, <3>5, <3>6
  <2> HIDE DEF now
  <2> QED
    BY <2>1, <2>3, <2>4, <2>5, <2>7, <2>8 DEF Holds
<1> QED
  BY <1>3, <1>4

\* The texts of a page are where they were, and those of a command that holds none
\* are the document's.
LEMMA TextFrame ==
    ASSUME TextInv, job.step # "document", job'.step # "document", UNCHANGED <<doc, typed, hurt>>
    PROVE  TextInv'
<1>1. Page = doc /\ Page' = doc
  BY DEF Page
<1> QED
  BY <1>1 DEF TextInv, Page

\* installAppend and uninstallAppend, from what they read to what they write.
LEMMA ReadDocumentKeepsText ==
    ASSUME SkillsInv, TextInv, NEW a \in Agents, ReadDocument(a)
    PROVE  TextInv'
<1>1. job.step = "agent" /\ job' = [job EXCEPT !.step = "document", !.at = a, !.text = doc] /\ IsJob(job)
  BY DEF ReadDocument, SkillsInv, SkillsType
<1>2. job'.step = "document" /\ job'.text = doc
  BY <1>1 DEF IsJob
<1>3. Page' = Page
  BY <1>1, <1>2 DEF Page
<1> QED
  BY <1>3 DEF TextInv, ReadDocument

LEMMA Rewritten ==
    ASSUME NEW d \in Seq(Parts), NEW ts \in Seq(Parts), Holds(d, ts), OneBlock(d), Marked(d) \/ ~ HasBoth(d),
           NEW v \in Versions \cup {NoVersion}
    PROVE  /\ WithBlock(d, v) \in Seq(Parts) /\ Holds(WithBlock(d, v), ts) /\ OneBlock(WithBlock(d, v))
           /\ WithoutBlock(d) \in Seq(Parts) /\ Holds(WithoutBlock(d), ts) /\ OneBlock(WithoutBlock(d))
<1>1. CASE Marked(d)
  <2> DEFINE i == FirstAt(d, Start)
             j == FirstAt(d, End)
             e == WithoutBlock(d)
  <2>1. /\ Only(d, Start, i) /\ Only(d, End, j) /\ i \in 1 .. Len(d) /\ j \in 1 .. Len(d) /\ i < j
        /\ HasBoth(d) /\ i \in DOMAIN d /\ j \in DOMAIN d
    BY <1>1, MarkedAt
  <2>2. e = SubSeq(d, 1, i - 1) \o SubSeq(d, j + 1, Len(d))
    BY <2>1 DEF WithoutBlock, Before, After
  <2> HIDE DEF i, j, e
  <2>3. \A n \in Texts(d) : n < i \/ n > j
    BY <2>1 DEF OneBlock
  <2>4. i <= j /\ \A n \in DOMAIN d : d[n] = Start => n \in i .. j
    <3>1. \A n \in DOMAIN d : d[n] = Start => n = i
      BY <2>1 DEF Only
    <3>2. i <= j /\ i \in i .. j
      BY ONLY <2>1
    <3> QED
      BY <3>1, <3>2
  <2>5. Start \in {Start, End}
    OBVIOUS
  <2>6. e \in Seq(Parts) /\ Holds(e, ts) /\ OneBlock(e)
    BY <2>1, <2>2, <2>3, <2>4, <2>5, TakenOut
  <2> QED
    BY <1>1, <2>6, BlockInPlace DEF e
<1>2. CASE ~ HasBoth(d)
  <2>1. WithBlock(d, v) = d \o Block(v) /\ WithoutBlock(d) = d
    BY <1>2 DEF WithBlock, WithoutBlock
  <2> QED
    BY <2>1, BlockAppended
<1> QED
  BY <1>1, <1>2

LEMMA WriteDocumentKeepsText ==
    ASSUME SkillsInv, TextInv, WriteDocument
    PROVE  TextInv'
<1>1. /\ job.step = "document" /\ IsJob(job) /\ job' = [job EXCEPT !.step = "agent", !.todo = @ \ {job.at}]
      /\ doc' = IF job.cmd = "install" THEN WithBlock(job.text, job.ver) ELSE WithoutBlock(job.text)
      /\ hurt' = (hurt \/ (HasBoth(job.text) /\ ~Marked(job.text))) /\ typed' = typed
  BY DEF WriteDocument, SkillsInv, SkillsType
<1>2. job'.step = "agent" /\ job.ver \in Versions \cup {NoVersion}
  BY <1>1 DEF IsJob
<1>3. Page = job.text /\ Page' = doc'
  BY <1>1, <1>2 DEF Page
<1>4. ASSUME ~ hurt' PROVE Page' \in Seq(Parts) /\ Holds(Page', typed) /\ OneBlock(Page')
  <2> DEFINE d == job.text
  <2>1. /\ d \in Seq(Parts) /\ Holds(d, typed) /\ OneBlock(d) /\ (Marked(d) \/ ~ HasBoth(d))
        /\ typed \in Seq(Parts)
    BY <1>1, <1>3, <1>4 DEF TextInv
  <2> HIDE DEF d
  <2>2. /\ WithBlock(d, job.ver) \in Seq(Parts) /\ Holds(WithBlock(d, job.ver), typed)
        /\ OneBlock(WithBlock(d, job.ver))
        /\ WithoutBlock(d) \in Seq(Parts) /\ Holds(WithoutBlock(d), typed) /\ OneBlock(WithoutBlock(d))
    BY <1>2, <2>1, Rewritten
  <2> QED
    BY <1>1, <1>3, <2>2 DEF d
<1>5. (Holds(Page, typed))' <=> Holds(Page', typed)
  BY <1>1 DEF Holds, Texts
<1>6. OneBlock(Page)' <=> OneBlock(Page')
  BY DEF OneBlock, Only, Texts
<1> QED
  BY <1>1, <1>4, <1>5, <1>6 DEF TextInv

LEMMA SkillsStepKeepsText ==
    ASSUME SkillsInv, TextInv, SkillsStep
    PROVE  TextInv'
<1>0. IsJob(job)
  BY DEF SkillsInv, SkillsType
<1>1. ASSUME NEW a \in Agents, CleanUp(a) \/ UninstallCopy(a) \/ UninstallAppendNothing(a)
      PROVE  TextInv'
  <2>1. job.step = "agent" /\ UNCHANGED <<doc, typed, hurt>>
    BY <1>1 DEF CleanUp, UninstallCopy, UninstallAppendNothing, Document
  <2>2. job'.step # "document"
    BY <1>0, <1>1 DEF CleanUp, UninstallCopy, UninstallAppendNothing, IsJob
  <2> QED
    BY <2>1, <2>2, TextFrame
<1>2. ASSUME NEW a \in Agents, ReadDocument(a) PROVE TextInv'
  BY <1>2, ReadDocumentKeepsText
<1>3. ASSUME NEW f \in SkillFiles, Truncate(f) \/ Fill(f) PROVE TextInv'
  <2>1. job.step # "document" /\ UNCHANGED <<doc, typed, hurt>>
    BY <1>3 DEF Truncate, Fill, Document
  <2>2. job'.step # "document"
    BY <1>0, <1>3 DEF Truncate, Fill, IsJob
  <2> QED
    BY <2>1, <2>2, TextFrame
<1>4. CASE Copied \/ InstallFails
  <2>1. job.step # "document" /\ UNCHANGED <<doc, typed, hurt>>
    BY <1>4 DEF Copied, InstallFails, Document
  <2>2. job'.step # "document"
    <3>1. CASE Copied
      BY <1>0, <3>1 DEF Copied, IsJob
    <3>2. CASE InstallFails
      BY <3>2 DEF InstallFails, NoJob
    <3> QED
      BY <1>4, <3>1, <3>2
  <2> QED
    BY <2>1, <2>2, TextFrame
<1>5. CASE WriteDocument
  BY <1>5, WriteDocumentKeepsText
<1>6. CASE SaveState \/ SaveRecord \/ SaveFails
  <2>1. job.step # "document" /\ UNCHANGED <<doc, typed, hurt>>
    BY <1>6 DEF SaveState, SaveRecord, SaveFails, AllDone, Document
  <2>2. job'.step # "document"
    <3>1. CASE SaveState
      BY <1>0, <3>1 DEF SaveState, IsJob
    <3>2. CASE SaveRecord \/ SaveFails
      BY <3>2 DEF SaveRecord, SaveFails, NoJob
    <3> QED
      BY <1>6, <3>1, <3>2
  <2> QED
    BY <2>1, <2>2, TextFrame
<1> QED
  BY <1>1, <1>2, <1>3, <1>4, <1>5, <1>6 DEF SkillsStep

LEMMA UserStepKeepsText ==
    ASSUME SkillsInv, TextInv, UserStep
    PROVE  TextInv'
<1>1. job = NoJob /\ UNCHANGED <<job, hurt>> /\ Page = doc /\ Page' = doc'
  BY DEF UserStep, UserWrites, UserDropsMarker, JobIdle, Page, NoJob
<1>2. ASSUME ~ hurt PROVE doc \in Seq(Parts) /\ Holds(doc, typed) /\ OneBlock(doc)
  BY <1>1, <1>2 DEF TextInv
<1>3. typed \in Seq(Parts) /\ \A n \in DOMAIN typed : typed[n][1] = "text"
  BY DEF TextInv
<1>4. CASE UserWrites
  <2> DEFINE x == Text(Len(typed))
  <2>1. x \in Parts /\ x[1] = "text"
    <3>1. Len(typed) \in Nat
      BY <1>3
    <3> QED
      BY <3>1, PartsDiffer DEF Parts
  <2>2. \/ doc' = Append(doc, x) /\ typed' = Append(typed, x)
        \/ doc' = <<x>> \o doc /\ typed' = <<x>> \o typed
    BY <1>4 DEF UserWrites
  <2> HIDE DEF x
  <2>3. typed' \in Seq(Parts)
    <3>1. Append(typed, x) \in Seq(Parts) /\ <<x>> \o typed \in Seq(Parts)
      BY <1>3, <2>1
    <3> QED
      BY <2>2, <3>1
  <2>4. \A n \in DOMAIN typed' : typed'[n][1] = "text"
    <3>1. CASE typed' = Append(typed, x)
      BY <1>3, <2>1, <3>1
    <3>2. CASE typed' = <<x>> \o typed
      <4>1. \A n \in DOMAIN typed' : typed'[n] = IF n = 1 THEN x ELSE typed[n - 1]
        BY <1>3, <2>1, <3>2
      <4>2. \A n \in DOMAIN typed' : n # 1 => n - 1 \in DOMAIN typed
        BY <1>3, <2>1, <3>2
      <4> QED
        BY <1>3, <2>1, <4>1, <4>2
    <3> QED
      BY <2>2, <3>1, <3>2
  <2>5. ASSUME ~ hurt PROVE doc' \in Seq(Parts) /\ Holds(doc', typed') /\ OneBlock(doc')
    <3>1. doc \in Seq(Parts) /\ Holds(doc, typed) /\ OneBlock(doc)
      BY <1>2, <2>5
    <3>2. /\ Append(doc, x) \in Seq(Parts) /\ Holds(Append(doc, x), Append(typed, x))
          /\ OneBlock(Append(doc, x))
          /\ <<x>> \o doc \in Seq(Parts) /\ Holds(<<x>> \o doc, <<x>> \o typed) /\ OneBlock(<<x>> \o doc)
      BY <1>3, <2>1, <3>1, TextAdded
    <3> QED
      BY <2>2, <3>2
  <2> QED
    BY <1>1, <2>3, <2>4, <2>5 DEF TextInv, Holds, OneBlock, Only, Texts
<1>5. ASSUME NEW mark \in {Start, End}, UserDropsMarker(mark) PROVE TextInv'
  <2> DEFINE i == FirstAt(doc, mark)
  <2>1. Marked(doc) /\ doc' = RemoveAt(doc, i) /\ typed' = typed
    BY <1>5 DEF UserDropsMarker
  <2>2. ASSUME ~ hurt PROVE doc' \in Seq(Parts) /\ Holds(doc', typed) /\ OneBlock(doc')
    <3>1. doc \in Seq(Parts) /\ Holds(doc, typed) /\ OneBlock(doc)
      BY <1>2, <2>2
    <3>2. Only(doc, mark, i) /\ i \in 1 .. Len(doc) /\ doc[i] = mark
      BY <2>1, <3>1, MarkedAt
    <3>3. doc' = SubSeq(doc, 1, i - 1) \o SubSeq(doc, i + 1, Len(doc))
      BY <2>1 DEF RemoveAt
    <3> HIDE DEF i
    <3>4. i <= i /\ \A n \in DOMAIN doc : doc[n] = mark => n \in i .. i
      BY <3>2 DEF Only
    <3>5. \A n \in Texts(doc) : n < i \/ n > i
      <4>1. \A n \in Texts(doc) : n # i /\ n \in Nat
        BY <3>1, <3>2, PartsDiffer DEF Texts
      <4> QED
        BY <3>2, <4>1
    <3> QED
      BY <1>3, <3>1, <3>2, <3>3, <3>4, <3>5, TakenOut
  <2> HIDE DEF i
  <2> QED
    BY <1>1, <1>3, <2>1, <2>2 DEF TextInv, Holds, OneBlock, Only, Texts
<1> QED
  BY <1>4, <1>5 DEF UserStep

LEMMA TextInvInit == Init => TextInv
<1> SUFFICES ASSUME Init PROVE TextInv
  OBVIOUS
<1>1. job.step # "document" /\ doc = <<Text(0)>> /\ typed = <<Text(0)>>
  BY DEF Init, SkillsInit, NoJob
<1>2. Text(0) \in Parts /\ Text(0)[1] = "text" /\ Text(0) # Start /\ Text(0) # End
  BY PartsDiffer DEF Parts
<1> DEFINE d == <<Text(0)>>
<1>3. d \in Seq(Parts) /\ DOMAIN d = {1} /\ d[1] = Text(0)
  BY <1>2
<1>4. Texts(d) = {1}
  BY <1>2, <1>3 DEF Texts
<1> HIDE DEF d
<1>5. Holds(d, d)
  <2> DEFINE at == [n \in DOMAIN d |-> n]
  <2>1. at \in [DOMAIN d -> DOMAIN d] /\ Texts(d) = {at[i] : i \in DOMAIN d}
    BY <1>3, <1>4
  <2>2. /\ \A i, j \in DOMAIN d : i < j => at[i] < at[j]
        /\ \A i \in DOMAIN d : d[at[i]] = d[i]
    OBVIOUS
  <2> HIDE DEF at
  <2> QED
    BY <2>1, <2>2 DEF Holds
<1>6. OneBlock(d)
  BY <1>2, <1>3 DEF OneBlock, Only
<1>7. Page = d /\ typed = d
  BY <1>1 DEF Page, d
<1> QED
  BY <1>2, <1>3, <1>5, <1>6, <1>7 DEF TextInv

LEMMA TextInvStep == SkillsInv /\ TextInv /\ [Next]_vars => TextInv'
<1> SUFFICES ASSUME SkillsInv, TextInv, [Next]_vars PROVE TextInv'
  OBVIOUS
<1>1. CASE UNCHANGED skillsVars
  BY <1>1 DEF skillsVars, TextInv, Page, Holds, OneBlock, Only, Texts
<1>2. ASSUME NEW v, NEW agents, StartInstall(v, agents) PROVE TextInv'
  <2>1. job.step # "document" /\ job'.step # "document" /\ UNCHANGED <<doc, typed, hurt>>
    BY <1>2 DEF StartInstall, JobIdle, NoJob, Document
  <2> QED
    BY <2>1, TextFrame
<1>3. ASSUME NEW v, NEW agents, StartUninstall(v, agents) PROVE TextInv'
  <2>1. job.step # "document" /\ job'.step # "document" /\ UNCHANGED <<doc, typed, hurt>>
    BY <1>3 DEF StartUninstall, JobIdle, NoJob, Document
  <2> QED
    BY <2>1, TextFrame
<1>4. CASE SkillsCrash
  <2>1. CASE job.step = "document"
    BY <1>4, <2>1 DEF SkillsCrash, TextInv
  <2>2. CASE job.step # "document"
    <3>1. job'.step # "document" /\ UNCHANGED <<doc, typed>> /\ hurt' = (hurt \/ FALSE)
      BY <1>4, <2>2 DEF SkillsCrash, NoJob
    <3> QED
      BY <2>2, <3>1 DEF TextInv, Page
  <2> QED
    BY <2>1, <2>2
<1>5. CASE SkillsStep
  BY <1>5, SkillsStepKeepsText
<1>6. CASE UserStep
  BY <1>6, UserStepKeepsText
<1>7. CASE InstalledNext
  <2>1. CASE Install \/ Uninstall \/ UpdateInstalledSkills
    <3>1. CASE Install
      BY <1>2, <3>1 DEF Install, Types
    <3>2. CASE Uninstall
      BY <1>3, <3>2 DEF Uninstall, Types
    <3>3. CASE UpdateInstalledSkills
      BY <1>1, <1>2, <3>3 DEF UpdateInstalledSkills
    <3> QED
      BY <2>1, <3>1, <3>2, <3>3
  <2>2. CASE Crash \/ Update \/ ChildEnds \/ (UpdateStep /\ UNCHANGED <<skillsVars, commands, crashes>>)
    BY <1>1, <1>4, <2>2 DEF Crash, Update, ChildEnds
  <2> QED
    BY <1>5, <1>6, <1>7, <2>1, <2>2 DEF InstalledNext
<1> QED
  BY <1>1, <1>7 DEF Next, vars

\* What the user wrote in an agent's document is there, in the user's order, whenever
\* no command is rewriting it, however often skills are installed and uninstalled and
\* whichever marker the user deletes in between, unless a process died in its write or
\* rewrote markers that were not one block (installAppend, uninstallAppend).
THEOREM UserTextStays == Spec => []UserTextKept
<1>1. SkillsInv /\ TextInv => UserTextKept
  BY DEF TextInv, UserTextKept, Page
<1> QED
  BY <1>1, UpdateInvInit, UpdateInvStep, SkillsInvInit, SkillsInvStep, TextInvInit, TextInvStep, PTL DEF Spec

-----------------------------------------------------------------------------
(* The configuration files.                                                *)

Contents == [Keys -> Nat]
ProcSteps == {"idle", "look", "ask", "load", "change", "fill", "temp", "rename", "remove"}
AnyCommand == Commands \cup {NoCommand.c}

ConfigType ==
    /\ disk \in [HostConfigs -> Contents]
    /\ wanted \in [HostConfigs -> Contents]
    /\ temp \in [Renamed -> [open : BOOLEAN, content : Contents]]
    /\ proc \in [Procs -> [step : ProcSteps, c : AnyCommand, copy : Contents, val : Nat,
                           handle : {"none", "temp", "path"}]]
    /\ writes \in Nat

\* What a command has in hand: which of them come to which step, and that a
\* template is written from nothing.
Course(p) ==
    /\ proc[p].step # "idle" => proc[p].c \in Commands
    /\ proc[p].step = "remove" => proc[p].c.cmd = "delete"
    /\ proc[p].step = "ask" => proc[p].c.cmd \in {"configure", "delete"}
    /\ proc[p].step \in {"look", "ask"} => proc[p].copy = Blank
    /\ proc[p].step \in {"load", "fill"} => proc[p].c.file # "template"
    /\ proc[p].step = "fill" => proc[p].c.file \in InPlace
    /\ proc[p].step \in {"temp", "rename"} => proc[p].c.file \in Renamed
    /\ proc[p].step = "temp" => proc[p].handle \in {"temp", "path"}

\* A template has no other key than itself.
OneKey == \A k \in Keys \ {"template"} : wanted["template"][k] = Absent

Writes(p) == proc[p].step \in {"change", "fill", "temp", "rename"}

\* The command p, alone at work on f: the file is as wanted unless p has it
\* truncated, and what p is about to write is what is wanted with its key changed.
Own(p, f) ==
    /\ disk[f] = wanted[f] \/ proc[p].step = "fill"
    /\ Writes(p) => Changed(p) = [wanted[f] EXCEPT ![proc[p].c.key] = proc[p].val]
    /\ proc[p].step = "temp" => proc[p].handle = "temp"
    /\ f \in Renamed /\ proc[p].step = "rename" /\ temp[f].open =>
          temp[f].content = Changed(p)

\* A file no two commands worked on at once.
Clean(f) ==
    /\ \A p, q \in Active(f) : p = q
    /\ Active(f) = {} => disk[f] = wanted[f]
    /\ \A p \in Active(f) : Own(p, f)

ConfigInv ==
    /\ ConfigType
    /\ \A p \in Procs : Course(p)
    /\ OneKey
    /\ \A f \in HostConfigs \ disturbed : Clean(f)

LEMMA CommandFacts ==
  ASSUME NEW c \in Commands
  PROVE  /\ c.file \in HostConfigs /\ c.key \in Keys
         /\ c.file = "template" <=> c.key = "template"
         /\ c.file = "template" <=> c.cmd \in {"create", "edit", "delete"}
BY DEF Commands, HostConfigs, InPlace, Renamed, Keys

LEMMA BlankIsContents == Blank \in Contents
BY DEF Blank, Contents, Absent

LEMMA ConfigInvInit == Init => ConfigInv
<1> SUFFICES ASSUME Init PROVE ConfigInv
  OBVIOUS
<1> USE DEF Init, ConfigInit
<1>1. ConfigType
  BY BlankIsContents DEF ConfigType, NoTemp, NoCommand, ProcSteps, AnyCommand, Contents, Blank, Absent, Keys
<1>2. \A p \in Procs : Course(p)
  BY DEF Course, NoCommand
<1>3. OneKey
  BY DEF OneKey, HostConfigs, InPlace, Renamed, Blank
<1>4. \A f \in HostConfigs : Clean(f)
  BY DEF Clean, Active, NoCommand
<1> QED
  BY <1>1, <1>2, <1>3, <1>4 DEF ConfigInv

\* A step elsewhere leaves a clean file clean.
LEMMA Elsewhere ==
  ASSUME NEW f \in HostConfigs, Clean(f), \A q \in Active(f) : proc'[q] = proc[q],
         Active(f)' = Active(f), disk'[f] = disk[f], wanted'[f] = wanted[f],
         f \in Renamed => temp'[f] = temp[f]
  PROVE  Clean(f)'
BY DEF Clean, Own, Changed, Writes

\* What a step of process p has to show: of its own file, if it is clean still.
LEMMA OwnFile ==
  ASSUME NEW p \in Procs, NEW f \in HostConfigs, ConfigInv, p \in Active(f),
         \A q \in Procs \ {p} :
            /\ proc'[q].step = proc[q].step /\ proc'[q].c = proc[q].c
            /\ q \notin Active(f) => proc'[q] = proc[q],
         \A g \in HostConfigs \ {f} :
            /\ disk'[g] = disk[g] /\ wanted'[g] = wanted[g]
            /\ g \in Renamed => temp'[g] = temp[g],
         proc'[p].step # "idle" => proc'[p].c = proc[p].c,
         disturbed \subseteq disturbed',
         f \notin disturbed' /\ Own(p, f) =>
            IF proc'[p].step = "idle" THEN disk'[f] = wanted'[f] ELSE Own(p, f)'
  PROVE  \A g \in HostConfigs \ disturbed' : Clean(g)'
<1> SUFFICES ASSUME NEW g \in HostConfigs \ disturbed' PROVE Clean(g)'
  OBVIOUS
<1>1. Clean(g)
  BY DEF ConfigInv
<1>2. CASE g = f
  <2>1. Active(f) = {p} /\ Own(p, f)
    BY <1>1, <1>2 DEF Clean
  <2>2. Active(f)' = IF proc'[p].step = "idle" THEN {} ELSE {p}
    BY <2>1 DEF Active
  <2> QED
    BY <1>2, <2>1, <2>2 DEF Clean
<1>3. CASE g # f
  <2>1. \A q \in Procs \ {p} : q \in Active(g) => proc'[q] = proc[q]
    BY <1>3 DEF Active
  <2>2. Active(g)' = Active(g)
    BY <1>3 DEF Active
  <2> QED
    <3>1. \A q \in Active(g) : proc'[q] = proc[q]
      BY <1>3, <2>1 DEF Active
    <3> QED
      BY <1>1, <1>3, <2>2, <3>1, Elsewhere
<1> QED
  BY <1>2, <1>3

-----------------------------------------------------------------------------
(* Each step of a command.                                                 *)

LEMMA BeginKeeps ==
  ASSUME ConfigInv, NEW p \in Procs, NEW c \in Commands, Begin(p, c)
  PROVE  ConfigInv'
<1> DEFINE new == [NoCommand EXCEPT !.step = "look", !.c = c, !.val = writes + 1]
<1>1. /\ proc[p].step = "idle" /\ proc' = [proc EXCEPT ![p] = new]
      /\ writes' = writes + 1 /\ UNCHANGED <<disk, temp, wanted>>
      /\ disturbed' = IF Active(c.file) # {} THEN disturbed \cup {c.file} ELSE disturbed
  BY DEF Begin
<1>2. /\ new \in [step : ProcSteps, c : AnyCommand, copy : Contents, val : Nat,
                  handle : {"none", "temp", "path"}]
      /\ new.step = "look" /\ new.c = c /\ new.copy = Blank
  <2> DEFINE Type == [step : ProcSteps, c : AnyCommand, copy : Contents, val : Nat,
                      handle : {"none", "temp", "path"}]
  <2>1. writes + 1 \in Nat /\ c \in AnyCommand /\ "look" \in ProcSteps
    BY DEF ConfigInv, ConfigType, AnyCommand, ProcSteps
  <2>2. NoCommand \in Type /\ NoCommand.copy = Blank
    BY BlankIsContents DEF NoCommand, AnyCommand, ProcSteps, Absent
  <2>3. \A x \in Type, v \in Nat :
          LET y == [x EXCEPT !.step = "look", !.c = c, !.val = v]
          IN  y \in Type /\ y.step = "look" /\ y.c = c /\ y.copy = x.copy
    BY <2>1
  <2> QED
    BY <2>1, <2>2, <2>3
<1> HIDE DEF new
<1>3. proc'[p] = new /\ \A q \in Procs \ {p} : proc'[q] = proc[q]
  BY <1>1 DEF ConfigInv, ConfigType
<1>4. ConfigType'
  BY <1>1, <1>2 DEF ConfigInv, ConfigType
<1>5. \A q \in Procs : Course(q)'
  BY <1>2, <1>3 DEF ConfigInv, Course
<1>6. OneKey'
  BY <1>1 DEF ConfigInv, OneKey
<1>7. ASSUME NEW f \in HostConfigs \ disturbed' PROVE Clean(f)'
  <2>1. Clean(f) /\ p \notin Active(f)
    BY <1>1 DEF ConfigInv, Active
  <2>2. CASE f = c.file
    <3>1. Active(f) = {} /\ Active(f)' = {p}
      BY <1>1, <1>2, <1>3, <2>2 DEF Active
    <3> QED
      BY <1>1, <1>2, <1>3, <2>1, <3>1 DEF Clean, Own, Writes
  <2>3. CASE f # c.file
    <3>1. Active(f)' = Active(f) /\ \A q \in Active(f) : proc'[q] = proc[q]
      BY <1>1, <1>2, <1>3, <2>3 DEF Active
    <3> QED
      BY <1>1, <2>1, <3>1, Elsewhere
  <2> QED
    BY <2>2, <2>3
<1> QED
  BY <1>4, <1>5, <1>6, <1>7 DEF ConfigInv

\* A step that moves one process on and writes nothing.
LEMMA MoveKeeps ==
  ASSUME ConfigInv, NEW p \in Procs, NEW new,
         new \in [step : ProcSteps, c : AnyCommand, copy : Contents, val : Nat,
                  handle : {"none", "temp", "path"}],
         proc[p].step # "idle", proc' = [proc EXCEPT ![p] = new],
         UNCHANGED <<disk, temp, wanted, writes>>, disturbed \subseteq disturbed',
         new.step # "idle" => new.c = proc[p].c,
         Course(p)',
         proc[p].step = "fill" => proc[p].c.file \in disturbed',
         new.step \in {"idle", "look", "ask", "load", "remove"}
           \/ (/\ new.step = "change"
               /\ proc[p].c.file \notin disturbed' =>
                     [new.copy EXCEPT ![new.c.key] = new.val]
                       = [wanted[proc[p].c.file] EXCEPT ![new.c.key] = new.val])
  PROVE  ConfigInv'
<1>1. proc'[p] = new /\ \A q \in Procs \ {p} : proc'[q] = proc[q]
  BY DEF ConfigInv, ConfigType
<1>2. ConfigType'
  BY DEF ConfigInv, ConfigType
<1>3. \A q \in Procs : Course(q)'
  BY <1>1 DEF ConfigInv, Course
<1>4. OneKey'
  BY DEF ConfigInv, OneKey
<1>5. proc[p].c \in Commands /\ proc[p].c.file \in HostConfigs /\ p \in Active(proc[p].c.file)
  BY CommandFacts DEF ConfigInv, Course, Active
<1>6. ASSUME proc[p].c.file \notin disturbed', Own(p, proc[p].c.file)
      PROVE  IF proc'[p].step = "idle" THEN disk'[proc[p].c.file] = wanted'[proc[p].c.file]
             ELSE Own(p, proc[p].c.file)'
  BY <1>1, <1>6 DEF Own, Writes, Changed
<1>7. \A g \in HostConfigs \ disturbed' : Clean(g)'
  BY <1>1, <1>5, <1>6, OwnFile
<1> QED
  BY <1>2, <1>3, <1>4, <1>7 DEF ConfigInv

LEMMA EndsKeeps ==
  ASSUME ConfigInv, NEW p \in Procs, proc[p].step # "idle", Ends(p),
         UNCHANGED <<disk, temp, wanted, writes>>, disturbed \subseteq disturbed',
         proc[p].step = "fill" => proc[p].c.file \in disturbed'
  PROVE  ConfigInv'
<1>1. NoCommand \in [step : ProcSteps, c : AnyCommand, copy : Contents, val : Nat,
                     handle : {"none", "temp", "path"}]
  BY BlankIsContents DEF NoCommand, AnyCommand, ProcSteps, Absent
<1>2. NoCommand.step = "idle"
  BY DEF NoCommand
<1>3. proc' = [proc EXCEPT ![p] = NoCommand]
  BY DEF Ends
<1>4. Course(p)'
  BY <1>2, <1>3 DEF Course, ConfigInv, ConfigType
<1> QED
  BY <1>1, <1>2, <1>3, <1>4, MoveKeeps

LEMMA GoesKeeps ==
  ASSUME ConfigInv, NEW p \in Procs, NEW s \in ProcSteps, Goes(p, s),
         UNCHANGED <<disk, temp, wanted, writes, disturbed>>,
         proc[p].step \in {"look", "ask", "load"},
         s \in {"ask", "load", "change", "remove"},
         s = "ask" => proc[p].step = "look" /\ proc[p].c.cmd \in {"configure", "delete"},
         s = "load" => proc[p].c.file # "template",
         s = "remove" => proc[p].c.cmd = "delete",
         s = "change" => proc[p].step = "look" /\ proc[p].c.file = "template"
  PROVE  ConfigInv'
<1> DEFINE new == [proc[p] EXCEPT !.step = s]
<1>1. /\ new \in [step : ProcSteps, c : AnyCommand, copy : Contents, val : Nat,
                  handle : {"none", "temp", "path"}]
      /\ new.step = s /\ new.c = proc[p].c /\ new.copy = proc[p].copy /\ new.val = proc[p].val
  BY DEF ConfigInv, ConfigType
<1>2. proc' = [proc EXCEPT ![p] = new]
  BY DEF Goes
<1> HIDE DEF new
<1>3. proc[p].c \in Commands /\ Course(p)
  BY DEF ConfigInv, Course
<1>4. Course(p)'
  BY <1>1, <1>2, <1>3 DEF Course, ConfigInv, ConfigType
<1>5. ASSUME s = "change"
      PROVE  [new.copy EXCEPT ![new.c.key] = new.val]
               = [wanted[proc[p].c.file] EXCEPT ![new.c.key] = new.val]
  <2>1. new.c.key = "template" /\ new.copy = Blank /\ proc[p].c.file = "template"
    BY <1>1, <1>3, <1>5, CommandFacts DEF Course
  <2>2. wanted["template"] \in [Keys -> Nat] /\ \A k \in Keys \ {"template"} : wanted["template"][k] = Absent
    BY DEF ConfigInv, ConfigType, OneKey, Contents, HostConfigs, Renamed
  <2> QED
    BY <2>1, <2>2 DEF Blank
<1> QED
  BY <1>1, <1>2, <1>4, <1>5, MoveKeeps

LEMMA LookKeeps == ASSUME ConfigInv, NEW p \in Procs, Look(p) PROVE ConfigInv'
<1>1. proc[p].step = "look" /\ proc[p].c \in Commands
      /\ UNCHANGED <<disk, temp, wanted, writes, disturbed>>
  BY DEF Look, ConfigInv, Course
<1>2. {"ask", "load", "change"} \subseteq ProcSteps
  BY DEF ProcSteps
<1>3. CASE proc[p].c.cmd = "configure" /\ Goes(p, "ask")
  BY <1>1, <1>2, <1>3, GoesKeeps
<1>4. CASE proc[p].c.cmd \in {"configure", "login", "set", "dockerLogin"} /\ Goes(p, "load")
  <2>1. proc[p].c.file # "template"
    BY <1>1, <1>4, CommandFacts
  <2> QED
    BY <1>1, <1>2, <1>4, <2>1, GoesKeeps
<1>5. CASE proc[p].c.cmd \in {"create", "edit"} /\ Goes(p, "change")
  <2>1. proc[p].c.file = "template"
    BY <1>1, <1>5, CommandFacts
  <2> QED
    BY <1>1, <1>2, <1>5, <2>1, GoesKeeps
<1>6. CASE proc[p].c.cmd = "delete" /\ Goes(p, "ask")
  BY <1>1, <1>2, <1>6, GoesKeeps
<1>7. CASE Ends(p)
  BY <1>1, <1>7, EndsKeeps
<1> QED
  BY <1>3, <1>4, <1>5, <1>6, <1>7 DEF Look

LEMMA AnswerKeeps == ASSUME ConfigInv, NEW p \in Procs, Answer(p) PROVE ConfigInv'
<1>1. proc[p].step = "ask" /\ proc[p].c \in Commands /\ proc[p].c.cmd \in {"configure", "delete"}
      /\ UNCHANGED <<disk, temp, wanted, writes, disturbed>>
  BY DEF Answer, ConfigInv, Course
<1>2. {"load", "remove"} \subseteq ProcSteps
  BY DEF ProcSteps
<1>3. CASE proc[p].c.cmd = "delete" /\ Goes(p, "remove")
  BY <1>1, <1>2, <1>3, GoesKeeps
<1>4. CASE proc[p].c.cmd # "delete" /\ Goes(p, "load")
  <2>1. proc[p].c.file # "template"
    BY <1>1, <1>4, CommandFacts
  <2> QED
    BY <1>1, <1>2, <1>4, <2>1, GoesKeeps
<1>5. CASE Ends(p)
  BY <1>1, <1>5, EndsKeeps
<1> QED
  BY <1>3, <1>4, <1>5 DEF Answer

LEMMA LoadKeeps == ASSUME ConfigInv, NEW p \in Procs, Load(p) PROVE ConfigInv'
<1> DEFINE f == proc[p].c.file
<1> DEFINE new == [proc[p] EXCEPT !.step = "change", !.copy = disk[f]]
<1>1. /\ proc[p].step = "load" /\ UNCHANGED <<disk, temp, wanted, writes, disturbed>>
      /\ proc' = [proc EXCEPT ![p] = new]
  BY DEF Load, Loaded, ConfigInv, ConfigType
<1>2. proc[p].c \in Commands /\ f \in HostConfigs /\ f # "template" /\ p \in Active(f)
  BY <1>1, CommandFacts DEF ConfigInv, Course, Active
<1>3. /\ new \in [step : ProcSteps, c : AnyCommand, copy : Contents, val : Nat,
                  handle : {"none", "temp", "path"}]
      /\ new.step = "change" /\ new.c = proc[p].c /\ new.copy = disk[f]
  BY <1>2 DEF ConfigInv, ConfigType, ProcSteps
<1> HIDE DEF new
<1>4. Course(p)'
  BY <1>1, <1>2, <1>3 DEF Course, ConfigInv, ConfigType
<1>5. f \notin disturbed' => disk[f] = wanted[f]
  BY <1>1, <1>2 DEF ConfigInv, Clean, Own
<1> QED
  BY <1>1, <1>3, <1>4, <1>5, MoveKeeps

\* What every step on a file in hand may use.
LEMMA InHand ==
  ASSUME ConfigInv, NEW p \in Procs, proc[p].step # "idle"
  PROVE  /\ Course(p) /\ proc[p].c \in Commands /\ proc[p].c \in AnyCommand
         /\ proc[p].c.file \in HostConfigs /\ proc[p].c.key \in Keys
         /\ p \in Active(proc[p].c.file)
         /\ Changed(p) \in Contents
BY CommandFacts DEF ConfigInv, ConfigType, Course, Active, AnyCommand, Changed, Contents

LEMMA TruncateKeeps == ASSUME ConfigInv, NEW p \in Procs, TruncateFile(p) PROVE ConfigInv'
<1> DEFINE f == proc[p].c.file
<1> DEFINE new == [proc[p] EXCEPT !.step = "fill"]
<1>1. /\ proc[p].step = "change" /\ f \in InPlace
      /\ disk' = [disk EXCEPT ![f] = Blank] /\ proc' = [proc EXCEPT ![p] = new]
      /\ UNCHANGED <<temp, writes, wanted, disturbed>>
  BY DEF TruncateFile, Goes
<1>2. /\ new \in [step : ProcSteps, c : AnyCommand, copy : Contents, val : Nat,
                  handle : {"none", "temp", "path"}]
      /\ new.step = "fill" /\ new.c = proc[p].c /\ new.copy = proc[p].copy /\ new.val = proc[p].val
  BY DEF ConfigInv, ConfigType, ProcSteps
<1> HIDE DEF new
<1>3. proc'[p] = new /\ \A q \in Procs \ {p} : proc'[q] = proc[q]
  BY <1>1 DEF ConfigInv, ConfigType
<1>4. ConfigType'
  BY <1>1, <1>2, BlankIsContents DEF ConfigInv, ConfigType
<1>5. \A q \in Procs : Course(q)'
  BY <1>1, <1>2, <1>3, InHand DEF ConfigInv, Course, InPlace
<1>6. OneKey'
  BY <1>1 DEF ConfigInv, OneKey
<1>7. \A g \in HostConfigs \ disturbed' : Clean(g)'
  <2>1. Own(p, f) => Own(p, f)'
    BY <1>1, <1>2, <1>3 DEF Own, Writes, Changed, InPlace, Renamed
  <2>2. \A g \in HostConfigs \ {f} : disk'[g] = disk[g]
    BY <1>1 DEF ConfigInv, ConfigType
  <2> QED
    BY <1>1, <1>2, <1>3, <2>1, <2>2, InHand, OwnFile
<1> QED
  BY <1>4, <1>5, <1>6, <1>7 DEF ConfigInv

\* A step after which process p is done with its file.
LEMMA DoneKeeps ==
  ASSUME ConfigInv, NEW p \in Procs, proc[p].step # "idle", proc'[p] = NoCommand,
         \A q \in Procs \ {p} :
            /\ proc'[q].step = proc[q].step /\ proc'[q].c = proc[q].c
            /\ q \notin Active(proc[p].c.file) => proc'[q] = proc[q],
         \A q \in Procs : Course(q)',
         ConfigType', OneKey', disturbed' = disturbed,
         \A g \in HostConfigs \ {proc[p].c.file} :
            /\ disk'[g] = disk[g] /\ wanted'[g] = wanted[g]
            /\ g \in Renamed => temp'[g] = temp[g],
         proc[p].c.file \notin disturbed' /\ Own(p, proc[p].c.file) =>
            disk'[proc[p].c.file] = wanted'[proc[p].c.file]
  PROVE  ConfigInv'
<1>1. proc'[p].step = "idle"
  BY DEF NoCommand
<1>2. \A g \in HostConfigs \ disturbed' : Clean(g)'
  BY <1>1, InHand, OwnFile
<1> QED
  BY <1>2 DEF ConfigInv

\* What is wanted once process p has written its key.
LEMMA WantedType ==
  ASSUME ConfigInv, NEW p \in Procs, proc[p].step # "idle",
         wanted' = [wanted EXCEPT ![proc[p].c.file][proc[p].c.key] = proc[p].val]
  PROVE  /\ wanted' \in [HostConfigs -> Contents] /\ OneKey'
         /\ wanted'[proc[p].c.file]
               = [wanted[proc[p].c.file] EXCEPT ![proc[p].c.key] = proc[p].val]
         /\ \A g \in HostConfigs \ {proc[p].c.file} : wanted'[g] = wanted[g]
<1> DEFINE f == proc[p].c.file
<1>1. proc[p].c \in Commands /\ f \in HostConfigs /\ proc[p].c.key \in Keys /\ proc[p].val \in Nat
  BY InHand DEF ConfigInv, ConfigType
<1>2. wanted \in [HostConfigs -> [Keys -> Nat]]
  BY DEF ConfigInv, ConfigType, Contents
<1>3. wanted' \in [HostConfigs -> Contents]
  BY <1>1, <1>2 DEF Contents
<1>4. wanted'[f] = [wanted[f] EXCEPT ![proc[p].c.key] = proc[p].val]
      /\ \A g \in HostConfigs \ {f} : wanted'[g] = wanted[g]
  BY <1>1, <1>2
<1>5. OneKey'
  <2>1. CASE f = "template"
    <3>1. proc[p].c.key = "template"
      BY <1>1, <2>1, CommandFacts
    <3> QED
      BY <1>1, <1>2, <1>4, <2>1, <3>1 DEF ConfigInv, OneKey
  <2>2. CASE f # "template"
    BY <1>4, <2>2 DEF ConfigInv, OneKey, HostConfigs, Renamed
  <2> QED
    BY <2>1, <2>2
<1> QED
  BY <1>3, <1>4, <1>5

LEMMA NoCommandType ==
  NoCommand \in [step : ProcSteps, c : AnyCommand, copy : Contents, val : Nat,
                 handle : {"none", "temp", "path"}]
BY BlankIsContents DEF NoCommand, AnyCommand, ProcSteps, Absent

LEMMA FillFileKeeps == ASSUME ConfigInv, NEW p \in Procs, FillFile(p) PROVE ConfigInv'
<1> DEFINE f == proc[p].c.file
<1>1. /\ proc[p].step = "fill" /\ disk' = [disk EXCEPT ![f] = Changed(p)]
      /\ wanted' = [wanted EXCEPT ![f][proc[p].c.key] = proc[p].val]
      /\ proc' = [proc EXCEPT ![p] = NoCommand]
      /\ UNCHANGED <<temp, writes, disturbed>>
  BY DEF FillFile, Ends
<1>2. /\ wanted' \in [HostConfigs -> Contents] /\ OneKey'
      /\ wanted'[f] = [wanted[f] EXCEPT ![proc[p].c.key] = proc[p].val]
      /\ \A g \in HostConfigs \ {f} : wanted'[g] = wanted[g]
  BY <1>1, WantedType
<1>3. proc'[p] = NoCommand /\ \A q \in Procs \ {p} : proc'[q] = proc[q]
  BY <1>1 DEF ConfigInv, ConfigType
<1>4. ConfigType'
  BY <1>1, <1>2, InHand, NoCommandType DEF ConfigInv, ConfigType
<1>5. \A q \in Procs : Course(q)'
  BY <1>3 DEF ConfigInv, Course, NoCommand
<1>6. f \in HostConfigs /\ disk'[f] = Changed(p) /\ \A g \in HostConfigs \ {f} : disk'[g] = disk[g]
  BY <1>1, InHand DEF ConfigInv, ConfigType
<1>7. Own(p, f) => disk'[f] = wanted'[f]
  BY <1>1, <1>2, <1>6 DEF Own, Writes
<1> QED
  BY <1>1, <1>2, <1>3, <1>4, <1>5, <1>6, <1>7, DoneKeeps

LEMMA OpenTempKeeps == ASSUME ConfigInv, NEW p \in Procs, OpenTemp(p) PROVE ConfigInv'
<1> DEFINE f == proc[p].c.file
<1> DEFINE new == [proc[p] EXCEPT !.step = "temp", !.handle = "temp"]
<1>1. /\ proc[p].step = "change" /\ f \in Renamed
      /\ temp' = [temp EXCEPT ![f] = [open |-> TRUE, content |-> Blank]]
      /\ UNCHANGED <<disk, writes, wanted, disturbed>>
  BY DEF OpenTemp
<1>2. /\ new \in [step : ProcSteps, c : AnyCommand, copy : Contents, val : Nat,
                  handle : {"none", "temp", "path"}]
      /\ new.step = "temp" /\ new.handle = "temp"
      /\ new.c = proc[p].c /\ new.copy = proc[p].copy /\ new.val = proc[p].val
      /\ proc' = [proc EXCEPT ![p] = new]
  BY DEF OpenTemp, ConfigInv, ConfigType, ProcSteps
<1> HIDE DEF new
<1>3. proc'[p] = new /\ \A q \in Procs \ {p} : proc'[q] = proc[q]
  BY <1>2 DEF ConfigInv, ConfigType
<1>4. ConfigType'
  BY <1>1, <1>2, BlankIsContents DEF ConfigInv, ConfigType
<1>5. \A q \in Procs : Course(q)'
  BY <1>1, <1>2, <1>3, InHand DEF ConfigInv, Course
<1>6. OneKey'
  BY <1>1 DEF ConfigInv, OneKey
<1>7. Own(p, f) => Own(p, f)'
  BY <1>1, <1>2, <1>3 DEF Own, Writes, Changed
<1>8. \A g \in HostConfigs \ {f} : g \in Renamed => temp'[g] = temp[g]
  BY <1>1 DEF ConfigInv, ConfigType
<1>9. \A g \in HostConfigs \ disturbed' : Clean(g)'
  BY <1>1, <1>2, <1>3, <1>7, <1>8, InHand, OwnFile
<1> QED
  BY <1>4, <1>5, <1>6, <1>9 DEF ConfigInv

LEMMA FillTempKeeps == ASSUME ConfigInv, NEW p \in Procs, FillTemp(p) PROVE ConfigInv'
<1> DEFINE f == proc[p].c.file
<1> DEFINE new == [proc[p] EXCEPT !.step = "rename"]
<1>1. /\ proc[p].step = "temp" /\ proc' = [proc EXCEPT ![p] = new]
      /\ UNCHANGED <<writes, wanted, disturbed>>
  BY DEF FillTemp, Goes
<1>2. /\ new \in [step : ProcSteps, c : AnyCommand, copy : Contents, val : Nat,
                  handle : {"none", "temp", "path"}]
      /\ new.step = "rename"
      /\ new.c = proc[p].c /\ new.copy = proc[p].copy /\ new.val = proc[p].val
  BY DEF ConfigInv, ConfigType, ProcSteps
<1> HIDE DEF new
<1>3. proc'[p] = new /\ \A q \in Procs \ {p} : proc'[q] = proc[q]
  BY <1>1 DEF ConfigInv, ConfigType
<1>4. \A q \in Procs : Course(q)'
  BY <1>1, <1>2, <1>3, InHand DEF ConfigInv, Course
<1>5. OneKey'
  BY <1>1 DEF ConfigInv, OneKey
<1>6. f \in HostConfigs /\ f \in Renamed /\ Changed(p) \in Contents
  BY <1>1, InHand DEF Course
<1>7. CASE proc[p].handle = "temp" /\ temp' = [temp EXCEPT ![f].content = Changed(p)] /\ disk' = disk
  <2>1. ConfigType'
    BY <1>1, <1>2, <1>6, <1>7 DEF ConfigInv, ConfigType
  <2>2. temp'[f].content = Changed(p) /\ \A g \in HostConfigs \ {f} : g \in Renamed => temp'[g] = temp[g]
    BY <1>6, <1>7 DEF ConfigInv, ConfigType
  <2>3. Own(p, f) => Own(p, f)'
    BY <1>1, <1>2, <1>3, <1>7, <2>2 DEF Own, Writes, Changed
  <2>4. \A g \in HostConfigs \ disturbed' : Clean(g)'
    BY <1>1, <1>2, <1>3, <1>7, <2>2, <2>3, InHand, OwnFile
  <2> QED
    BY <1>4, <1>5, <2>1, <2>4 DEF ConfigInv
<1>8. CASE proc[p].handle = "path" /\ disk' = [disk EXCEPT ![f] = Changed(p)] /\ temp' = temp
  <2>1. ConfigType'
    BY <1>1, <1>2, <1>6, <1>8 DEF ConfigInv, ConfigType
  <2>2. \A g \in HostConfigs \ {f} : disk'[g] = disk[g]
    BY <1>8 DEF ConfigInv, ConfigType
  <2>3. ~ Own(p, f)
    BY <1>1, <1>8 DEF Own
  <2>4. \A g \in HostConfigs \ disturbed' : Clean(g)'
    BY <1>1, <1>2, <1>3, <1>8, <2>2, <2>3, InHand, OwnFile
  <2> QED
    BY <1>4, <1>5, <2>1, <2>4 DEF ConfigInv
<1> QED
  BY <1>7, <1>8 DEF FillTemp

LEMMA RenameTempKeeps == ASSUME ConfigInv, NEW p \in Procs, RenameTemp(p) PROVE ConfigInv'
<1> DEFINE f == proc[p].c.file
<1>1. /\ proc[p].step = "rename" /\ temp[f].open
      /\ disk' = [disk EXCEPT ![f] = temp[f].content]
      /\ temp' = [temp EXCEPT ![f] = NoTemp]
      /\ proc' = [q \in Procs |->
                     IF q = p THEN NoCommand
                     ELSE IF q \in Active(f) /\ proc[q].handle = "temp"
                          THEN [proc[q] EXCEPT !.handle = "path"]
                          ELSE proc[q]]
      /\ wanted' = [wanted EXCEPT ![f][proc[p].c.key] = proc[p].val]
      /\ UNCHANGED <<writes, disturbed>>
  BY DEF RenameTemp
<1>2. f \in HostConfigs /\ f \in Renamed
  BY <1>1, InHand DEF Course
<1>3. /\ proc'[p] = NoCommand
      /\ \A q \in Procs \ {p} :
            /\ proc'[q] \in [step : ProcSteps, c : AnyCommand, copy : Contents, val : Nat,
                              handle : {"none", "temp", "path"}]
            /\ proc'[q].step = proc[q].step /\ proc'[q].c = proc[q].c /\ proc'[q].copy = proc[q].copy
            /\ proc'[q].handle \in {proc[q].handle, "path"}
            /\ q \notin Active(f) => proc'[q] = proc[q]
  BY <1>1 DEF ConfigInv, ConfigType
<1>4. /\ wanted' \in [HostConfigs -> Contents] /\ OneKey'
      /\ wanted'[f] = [wanted[f] EXCEPT ![proc[p].c.key] = proc[p].val]
      /\ \A g \in HostConfigs \ {f} : wanted'[g] = wanted[g]
  BY <1>1, WantedType
<1>5. NoTemp \in [open : BOOLEAN, content : Contents]
  BY BlankIsContents DEF NoTemp
<1>6. ConfigType'
  <2>1. proc' \in [Procs -> [step : ProcSteps, c : AnyCommand, copy : Contents, val : Nat,
                             handle : {"none", "temp", "path"}]]
    BY <1>1, <1>3, NoCommandType
  <2> QED
    BY <1>1, <1>2, <1>4, <1>5, <2>1 DEF ConfigInv, ConfigType
<1>7. \A q \in Procs : Course(q)'
  BY <1>3 DEF ConfigInv, Course, NoCommand
<1>8. disk'[f] = temp[f].content
      /\ \A g \in HostConfigs \ {f} : disk'[g] = disk[g] /\ (g \in Renamed => temp'[g] = temp[g])
  BY <1>1, <1>2 DEF ConfigInv, ConfigType
<1>9. Own(p, f) => disk'[f] = wanted'[f]
  BY <1>1, <1>2, <1>4, <1>8 DEF Own, Writes
<1> QED
  BY <1>1, <1>3, <1>4, <1>6, <1>7, <1>8, <1>9, DoneKeeps

LEMMA RemoveTemplateKeeps == ASSUME ConfigInv, NEW p \in Procs, RemoveTemplate(p) PROVE ConfigInv'
<1> DEFINE f == proc[p].c.file
<1>1. /\ proc[p].step = "remove" /\ disk' = [disk EXCEPT !["template"] = Blank]
      /\ wanted' = [wanted EXCEPT !["template"] = Blank]
      /\ proc' = [proc EXCEPT ![p] = NoCommand]
      /\ UNCHANGED <<temp, writes, disturbed>>
  BY DEF RemoveTemplate, Ends
<1>2. f = "template" /\ f \in HostConfigs
  BY <1>1, InHand, CommandFacts DEF Course
<1>3. proc'[p] = NoCommand /\ \A q \in Procs \ {p} : proc'[q] = proc[q]
  BY <1>1 DEF ConfigInv, ConfigType
<1>4. ConfigType'
  BY <1>1, BlankIsContents, NoCommandType DEF ConfigInv, ConfigType
<1>5. \A q \in Procs : Course(q)'
  BY <1>3 DEF ConfigInv, Course, NoCommand
<1>6. /\ disk'[f] = Blank /\ wanted'[f] = Blank
      /\ \A g \in HostConfigs \ {f} : disk'[g] = disk[g] /\ wanted'[g] = wanted[g]
  BY <1>1, <1>2 DEF ConfigInv, ConfigType
<1>7. OneKey'
  BY <1>2, <1>6 DEF OneKey, Blank
<1> QED
  BY <1>1, <1>3, <1>4, <1>5, <1>6, <1>7, DoneKeeps

LEMMA ConfigNextKeeps == ConfigInv /\ ConfigNext => ConfigInv'
<1> SUFFICES ASSUME ConfigInv, NEW p \in Procs,
                    \/ \E c \in Commands : Begin(p, c)
                    \/ Look(p) \/ Answer(p) \/ Load(p) \/ TruncateFile(p) \/ FillFile(p)
                    \/ OpenTemp(p) \/ FillTemp(p) \/ RenameTemp(p) \/ RenameMissing(p)
                    \/ RemoveTemplate(p) \/ Die(p)
             PROVE  ConfigInv'
  BY DEF ConfigNext
<1>1. CASE \E c \in Commands : Begin(p, c)
  BY <1>1, BeginKeeps
<1>2. CASE RenameMissing(p)
  BY <1>2, EndsKeeps DEF RenameMissing
<1>3. CASE Die(p)
  BY <1>3, EndsKeeps DEF Die
<1> QED
  BY <1>1, <1>2, <1>3, LookKeeps, AnswerKeeps, LoadKeeps, TruncateKeeps, FillFileKeeps,
     OpenTempKeeps, FillTempKeeps, RenameTempKeeps, RemoveTemplateKeeps

LEMMA ConfigInvStep == ConfigInv /\ [Next]_vars => ConfigInv'
<1>1. ASSUME ConfigInv, UNCHANGED configVars PROVE ConfigInv'
  <2> SUFFICES ASSUME ConfigInv,
                      disk' = disk, temp' = temp, proc' = proc, writes' = writes,
                      wanted' = wanted, disturbed' = disturbed
               PROVE  ConfigInv'
    BY <1>1 DEF configVars
  <2>1. ConfigType' /\ OneKey' /\ \A p \in Procs : Course(p)'
    BY DEF ConfigInv, ConfigType, OneKey, Course
  <2>2. \A f \in HostConfigs : Clean(f) => Clean(f)'
    <3> SUFFICES ASSUME NEW f \in HostConfigs, Clean(f) PROVE Clean(f)'
      OBVIOUS
    <3>1. Active(f)' = Active(f)
      BY DEF Active
    <3> QED
      BY <3>1, Elsewhere
  <2> QED
    BY <2>1, <2>2 DEF ConfigInv
<1> QED
  BY <1>1, ConfigNextKeeps DEF Next, vars

\* A configuration file nobody writes holds what each finished command put there
\* and everything the others left alone, unless two commands worked on it at once
\* or one died while it had it truncated (WriteSecureFile, atomicWrite, Save).
THEOREM ConfigurationKept == Spec => []OtherKeysKept
<1>1. ConfigInv => OtherKeysKept
  BY DEF ConfigInv, Clean, OtherKeysKept
<1> QED
  BY <1>1, ConfigInvInit, ConfigInvStep, PTL DEF Spec
=============================================================================
