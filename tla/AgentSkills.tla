---------------------------- MODULE AgentSkills ----------------------------
(***************************************************************************)
(* `verda skills install` and `verda skills uninstall`: the skill files    *)
(* kept in the directories of AI agents, the block kept between two        *)
(* markers in a document of the user's, and skills.json, which records     *)
(* what was installed.  None of the writes is atomic, and the process may  *)
(* die between any two of them.                                            *)
(*                                                                         *)
(* Layout (blank lines, a file's path inside its agent's directory) is     *)
(* left out; the order of texts and markers in the document is kept.       *)
(***************************************************************************)
EXTENDS Naturals, Sequences, FiniteSets, SequencesExt

CONSTANTS
    CopyAgents,     \* agents whose method is "copy"
    AppendAgents,   \* agents whose method is "append": they share one document
    Versions,       \* releases; the skills manifest is part of the binary
    SkillsOf,       \* [Versions -> sets of names]: the manifest's skills
    FileMap,        \* [Versions -> [CopyAgents -> [some names -> files]]]: its file_map
    DefaultSkills,  \* defaultSkillNames, compiled into every binary
    Torn,           \* the content of a file truncated and not yet rewritten
    MaxTexts        \* bound: texts the user writes into the document

Agents == CopyAgents \cup AppendAgents
Names == (UNION {SkillsOf[v] : v \in Versions}) \cup DefaultSkills
NoVersion == 0

\* The file a release takes a skill's name for: its own file_map decides, also
\* of a name that another release put on record.
DestName(v, a, n) == IF n \in DOMAIN FileMap[v][a] THEN FileMap[v][a][n] ELSE n
Dests(v, a, names) == {DestName(v, a, n) : n \in names}
SkillFiles == Names \cup UNION {Dests(v, a, Names) : v \in Versions, a \in CopyAgents}

ASSUME AgentSkillsAssumption ==
    /\ CopyAgents \cap AppendAgents = {}
    /\ Versions \subseteq Nat \ {NoVersion}
    /\ Torn \notin Nat

VARIABLES
    state,    \* skills.json: [readable, version, agents, skills]
    dir,      \* [CopyAgents -> [SkillFiles -> version of the content, 0: no file]]
    doc,      \* the append agents' document
    job,      \* the running command
    placed,   \* history: versions written to a directory since it was last exact
    recorded, \* history: the version of the last install that was recorded
    typed,    \* history: the texts the user wrote, in their order in doc
    hurt      \* history: the user's text was exposed to a write that may lose it
skillsVars == <<state, dir, doc, job, placed, recorded, typed, hurt>>
-----------------------------------------------------------------------------
(* The document: a sequence of texts of the user, of markers, of skills.   *)
Start == <<"start", 0>>
End == <<"end", 0>>
Block(v) == <<Start, <<"skills", v>>, End>>
Text(t) == <<"text", t>>
Texts(d) == {n \in DOMAIN d : d[n][1] = "text"}
\* The texts in d are ts, in that order.
Holds(d, ts) ==
    \E at \in [DOMAIN ts -> DOMAIN d] :
        /\ \A i, j \in DOMAIN ts : i < j => at[i] < at[j]
        /\ \A i \in DOMAIN ts : d[at[i]] = ts[i]
        /\ Texts(d) = {at[i] : i \in DOMAIN ts}

FirstAt(d, mark) == CHOOSE i \in DOMAIN d : d[i] = mark /\ \A j \in 1..(i - 1) : d[j] # mark
HasBoth(d) == {Start, End} \subseteq ToSet(d)
Before(d) == SubSeq(d, 1, FirstAt(d, Start) - 1)
After(d) == SubSeq(d, FirstAt(d, End) + 1, Len(d))

WithBlockTail(d, v) ==
    IF HasBoth(d) THEN Before(d) \o Block(v) ELSE d \o Block(v)
WithBlock(d, v) ==
    IF HasBoth(d) THEN Before(d) \o Block(v) \o After(d) ELSE d \o Block(v)
WithoutBlock(d) ==
    IF HasBoth(d) THEN Before(d) \o After(d) ELSE d

Count(d, mark) == Cardinality({i \in DOMAIN d : d[i] = mark})
Marked(d) ==
    /\ Count(d, Start) = 1 /\ Count(d, End) = 1
    /\ FirstAt(d, Start) < FirstAt(d, End)
-----------------------------------------------------------------------------
(* The files of an agent.  Of a skill on record, the file it has now goes  *)
(* unless it is written anew; if it is, the file named like the skill goes *)
(* that a release without a file_map may have left.                        *)
Stale(v, a, previous) ==
    LET now == Dests(v, a, SkillsOf[v])
    IN  (Dests(v, a, previous) \ now) \cup {n \in previous : DestName(v, a, n) \in now \ {n}}
Without(files, gone) == [f \in SkillFiles |-> IF f \in gone THEN 0 ELSE files[f]]
Exact(files, a, v) ==
    \A f \in SkillFiles : files[f] = IF f \in Dests(v, a, SkillsOf[v]) THEN v ELSE 0
Empty(files) == \A f \in SkillFiles : files[f] = 0

NoState == [readable |-> TRUE, version |-> NoVersion, agents |-> {}, skills |-> {}]
Unreadable == [NoState EXCEPT !.readable = FALSE]
InstalledAgentsOnly(s, v, agents) == [s EXCEPT !.version = v, !.agents = @ \cup agents]
Installed(s, v, agents) ==
    [s EXCEPT !.version = v, !.skills = SkillsOf[v], !.agents = @ \cup agents]
Uninstalled(s, agents) ==
    [s EXCEPT !.agents = @ \ agents,
              !.version = IF s.agents \subseteq agents THEN NoVersion ELSE @]

NoJob == [cmd |-> "none", step |-> "none", ver |-> NoVersion, agents |-> {}, todo |-> {},
          names |-> {}, at |-> "none", left |-> {}, stuck |-> {}, text |-> <<>>, was |-> NoState]
JobIdle == job = NoJob

SkillsInit ==
    /\ state = NoState
    /\ dir = [a \in CopyAgents |-> [f \in SkillFiles |-> 0]]
    /\ doc = <<Text(0)>>
    /\ job = NoJob
    /\ placed = [a \in CopyAgents |-> {}]
    /\ recorded = NoVersion
    /\ typed = <<Text(0)>>
    /\ hurt = FALSE

Files == <<dir, placed>>
Document == <<doc, typed, hurt>>
Record == <<state, recorded>>
-----------------------------------------------------------------------------
(* runInstall, once confirmed.  A skills.json that cannot be read leaves   *)
(* prevState nil: the command dies before it writes anything.              *)
StartInstall(v, agents) ==
    /\ JobIdle /\ agents # {} /\ state.readable
    /\ job' = [NoJob EXCEPT !.cmd = "install", !.step = "agent", !.ver = v,
                            !.agents = agents, !.todo = agents, !.names = state.skills]
    /\ UNCHANGED <<Files, Document, Record>>

(* installForAgent of a copy agent: the stale files go first, each if it   *)
(* can be removed; nothing is said of one that cannot.                     *)
CleanUp(a) ==
    /\ job.cmd = "install" /\ job.step = "agent" /\ a \in job.todo \cap CopyAgents
    /\ LET stale == {f \in Stale(job.ver, a, job.names) : dir[a][f] # 0}
       IN  \E gone \in SUBSET stale :
              /\ dir' = [dir EXCEPT ![a] = Without(@, gone)]
              /\ job' = [job EXCEPT !.step = "copy", !.at = a,
                                    !.left = Dests(job.ver, a, SkillsOf[job.ver]),
                                    !.stuck = IF gone = stale THEN @ ELSE @ \cup {a}]
    /\ placed' = [placed EXCEPT ![a] = @ \cup {job.ver}]
    /\ UNCHANGED <<Document, Record>>

(* installCopy: os.WriteFile truncates a file, then fills it.              *)
Truncate(f) ==
    /\ job.step = "copy" /\ f \in job.left
    /\ dir' = [dir EXCEPT ![job.at][f] = Torn]
    /\ job' = [job EXCEPT !.step = "fill"]
    /\ UNCHANGED <<placed, Document, Record>>
Fill(f) ==
    /\ job.step = "fill" /\ dir[job.at][f] = Torn /\ f \in job.left
    /\ dir' = [dir EXCEPT ![job.at][f] = job.ver]
    /\ job' = [job EXCEPT !.step = "copy", !.left = @ \ {f}]
    /\ UNCHANGED <<placed, Document, Record>>
Copied ==
    /\ job.step = "copy" /\ job.left = {}
    /\ job' = [job EXCEPT !.step = "agent", !.todo = @ \ {job.at}]
    /\ UNCHANGED <<Files, Document, Record>>

(* A directory or a file refuses: the command ends before its state is     *)
(* saved.                                                                  *)
InstallFails ==
    /\ job.cmd = "install" /\ job.step \in {"agent", "copy"} /\ job.todo # {}
    /\ job' = NoJob
    /\ UNCHANGED <<Files, Document, Record>>

(* installAppend and uninstallAppend read the document, build the new one  *)
(* in memory, and write it in place.                                       *)
ReadDocument(a) ==
    /\ job.step = "agent" /\ a \in job.todo \cap AppendAgents
    /\ job.cmd = "uninstall" => HasBoth(doc)
    /\ job' = [job EXCEPT !.step = "document", !.at = a, !.text = doc]
    /\ doc' = <<>>
    /\ UNCHANGED <<typed, hurt, Files, Record>>
WriteDocument ==
    /\ job.step = "document"
    /\ doc' = IF job.cmd = "install" THEN WithBlock(job.text, job.ver) ELSE WithoutBlock(job.text)
    /\ hurt' = (hurt \/ (HasBoth(job.text) /\ ~Marked(job.text)))
    /\ job' = [job EXCEPT !.step = "agent", !.todo = @ \ {job.at}]
    /\ UNCHANGED <<typed, Files, Record>>

(* runUninstall: an agent named on the command line need not be recorded.  *)
StartUninstall(v, agents) ==
    /\ JobIdle /\ agents # {} /\ state.readable
    /\ job' = [NoJob EXCEPT !.cmd = "uninstall", !.step = "agent", !.ver = v,
                            !.agents = agents, !.todo = agents,
                            !.names = IF state.skills = {} THEN DefaultSkills ELSE state.skills]
    /\ UNCHANGED <<Files, Document, Record>>

(* uninstallCopy: the first file that cannot be removed ends this agent's  *)
(* turn, with a warning, and it stays recorded.                            *)
UninstallCopy(a) ==
    /\ job.cmd = "uninstall" /\ job.step = "agent" /\ a \in job.todo \cap CopyAgents
    /\ LET files == {f \in Dests(job.ver, a, job.names) : dir[a][f] # 0}
       IN  \E gone \in SUBSET files :
              /\ dir' = [dir EXCEPT ![a] = Without(@, gone)]
              /\ job' = [job EXCEPT !.todo = @ \ {a},
                                    !.agents = IF gone = files THEN @ ELSE @ \ {a}]
    /\ UNCHANGED <<placed, Document, Record>>
UninstallAppendNothing(a) ==
    /\ job.cmd = "uninstall" /\ job.step = "agent" /\ a \in job.todo \cap AppendAgents
    /\ ~HasBoth(doc)
    /\ job' = [job EXCEPT !.todo = @ \ {a}]
    /\ UNCHANGED <<Files, Document, Record>>

(* saveInstallState, and the end of runUninstall.  A save that fails is    *)
(* only a warning.                                                         *)
AllDone == job.cmd # "none" /\ job.step = "agent" /\ job.todo = {}
SaveState ==
    /\ AllDone
    /\ job' = [job EXCEPT !.step = "save", !.was = state]
    /\ state' = Unreadable
    /\ UNCHANGED <<recorded, Files, Document>>
SaveRecord ==
    /\ job.step = "save"
    /\ state' = IF job.cmd = "install" THEN Installed(job.was, job.ver, job.agents)
                ELSE Uninstalled(job.was, job.agents)
    /\ recorded' = IF job.cmd = "install" THEN job.ver ELSE recorded
    /\ job' = NoJob
    /\ placed' = [a \in CopyAgents |-> IF Empty(dir[a]) THEN {}
                                       ELSE IF job.cmd = "install" /\ Exact(dir[a], a, job.ver)
                                            THEN {job.ver} ELSE placed[a]]
    /\ UNCHANGED <<dir, Document>>
SaveFails ==
    /\ AllDone
    /\ job' = NoJob
    /\ UNCHANGED <<Files, Document, Record>>

(* The process dies, at whatever step.                                     *)
SkillsCrash ==
    /\ ~JobIdle
    /\ job' = NoJob
    /\ hurt' = (hurt \/ job.step = "document")
    /\ UNCHANGED <<doc, typed, Files, Record>>

(* The user writes into the document, outside the block, or deletes one of *)
(* its markers, while no command runs.                                     *)
UserWrites ==
    /\ JobIdle /\ Len(typed) <= MaxTexts
    /\ \/ doc' = Append(doc, Text(Len(typed))) /\ typed' = Append(typed, Text(Len(typed)))
       \/ doc' = <<Text(Len(typed))>> \o doc /\ typed' = <<Text(Len(typed))>> \o typed
    /\ UNCHANGED <<job, hurt, Files, Record>>
UserDropsMarker(mark) ==
    /\ JobIdle /\ Marked(doc)
    /\ doc' = RemoveAt(doc, FirstAt(doc, mark))
    /\ UNCHANGED <<job, typed, hurt, Files, Record>>

SkillsStep ==
    \/ \E a \in Agents : CleanUp(a) \/ ReadDocument(a) \/ UninstallCopy(a) \/ UninstallAppendNothing(a)
    \/ \E f \in SkillFiles : Truncate(f) \/ Fill(f)
    \/ Copied \/ InstallFails \/ WriteDocument \/ SaveState \/ SaveRecord \/ SaveFails
UserStep == UserWrites \/ \E mark \in {Start, End} : UserDropsMarker(mark)
-----------------------------------------------------------------------------
\* Release v finds the files that the release on record made of its skills: under
\* the same names, or, where v maps a skill to a file of its own, under the skill's.
FindsRecord(v, a) ==
    recorded = NoVersion \/ \A n \in SkillsOf[recorded] :
        \/ DestName(v, a, n) = DestName(recorded, a, n)
        \/ DestName(recorded, a, n) = n /\ DestName(v, a, n) \in Dests(v, a, SkillsOf[v])
SameNames(v, a) ==
    recorded = NoVersion \/ \A n \in SkillsOf[recorded] : DestName(v, a, n) = DestName(recorded, a, n)

(* Once every agent of an installation is done, the directory of each      *)
(* holds every file of the release, whole, whatever happened before; and   *)
(* nothing else, and after an uninstallation nothing at all, if only that  *)
(* release and the one on record wrote there since it was last in order,   *)
(* the one that runs finds the files of the one on record, and no file     *)
(* refused to go (cleanupStaleFiles, installCopy, uninstallCopy).          *)
SkillsInStep ==
    AllDone => \A a \in job.agents \cap CopyAgents :
        /\ job.cmd = "install" =>
              /\ \A f \in Dests(job.ver, a, SkillsOf[job.ver]) : dir[a][f] = job.ver
              /\ placed[a] \subseteq {job.ver, recorded} /\ FindsRecord(job.ver, a) /\ a \notin job.stuck
                    => Exact(dir[a], a, job.ver)
        /\ job.cmd = "uninstall" /\ placed[a] \subseteq {recorded} /\ SameNames(job.ver, a)
              => Empty(dir[a])

(* An installation that could remove what it tried to leaves no file of    *)
(* another release, where only the one on record wrote before: it handles  *)
(* file renames across versions (the comment on cleanupStaleFiles).        *)
RenamesHandled ==
    AllDone /\ job.cmd = "install" => \A a \in (job.agents \cap CopyAgents) \ job.stuck :
        placed[a] \subseteq {job.ver, recorded} => Exact(dir[a], a, job.ver)

(* It leaves none either where another release wrote earlier: previously   *)
(* installed files that are not in the manifest go (the same comment).     *)
PreviousFilesGone ==
    AllDone /\ job.cmd = "install" => \A a \in (job.agents \cap CopyAgents) \ job.stuck :
        Exact(dir[a], a, job.ver)

(* skills.json tells which version is installed and for which agents (the  *)
(* comment on State): what an agent on record has, if anything, it was     *)
(* given by the version on record.                                         *)
VersionOfEach ==
    JobIdle /\ state.readable => \A a \in state.agents \cap CopyAgents :
        Empty(dir[a]) \/ state.version \in placed[a]

(* The texts the user wrote are in the document, in order, whenever no     *)
(* command holds them in memory, unless a process died in the middle of    *)
(* its write or rewrote a document whose markers were not one block        *)
(* (installAppend and uninstallAppend).                                    *)
UserTextKept == (job.step # "document" /\ ~hurt) => Holds(doc, typed)
=============================================================================
