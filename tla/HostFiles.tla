----------------------------- MODULE HostFiles -----------------------------
(***************************************************************************)
(* What verda keeps on the user's machine besides transfers: its own       *)
(* binary and the agent skills, which an update changes together           *)
(* (SelfUpdate, AgentSkills), and the configuration files (ConfigFiles).   *)
(* The two groups share no file, so a behaviour is about one of them.      *)
(***************************************************************************)
EXTENDS AgentSkills, SelfUpdate, ConfigFiles

CONSTANTS
    MaxCommands,    \* bound: update, install and uninstall commands of the user
    MaxCrashes      \* bound: deaths of one of them

\* Each release carries its skills manifest.
ASSUME HostFilesAssumption == Releases \subseteq Versions

VARIABLES group, commands, crashes
hostVars == <<group, commands, crashes>>
vars == <<skillsVars, updateVars, configVars, hostVars>>

Init ==
    /\ SkillsInit /\ UpdateInit /\ ConfigInit
    /\ group \in {"installed", "configured"}
    /\ group = "configured" => host = [windows |-> FALSE, packaged |-> FALSE]
    /\ commands = 0 /\ crashes = 0

Quiet == JobIdle /\ upd.step = "idle"
Types(cmd) ==
    /\ cmd /\ Quiet /\ commands < MaxCommands
    /\ commands' = commands + 1
    /\ UNCHANGED crashes

(* The commands, run by any binary that runs.                              *)
Update ==
    /\ Types(\E exe \in Paths, target \in Releases, skip \in BOOLEAN : StartUpdate(exe, target, skip))
    /\ UNCHANGED skillsVars
Install ==
    /\ Types(\E exe \in Paths, agents \in SUBSET Agents :
                Runs(exe) /\ StartInstall(bin[exe].ver, agents))
    /\ UNCHANGED updateVars
Uninstall ==
    /\ Types(\E exe \in Paths, agents \in SUBSET Agents :
                Runs(exe) /\ StartUninstall(bin[exe].ver, agents))
    /\ UNCHANGED updateVars

(* updateInstalledSkills: the new binary installs its skills for the       *)
(* agents on record; any trouble is only a warning.                        *)
UpdateInstalledSkills ==
    /\ upd.step = "skills"
    /\ IF state.version # NoVersion /\ state.agents # {} /\ Runs("home")
       THEN /\ StartInstall(bin["home"].ver, state.agents)
            /\ upd' = [upd EXCEPT !.step = "child"]
       ELSE /\ upd' = [upd EXCEPT !.step = "migrate"]
            /\ UNCHANGED skillsVars
    /\ UNCHANGED <<bin, host, trusting, commands, crashes>>
ChildEnds ==
    /\ upd.step = "child" /\ JobIdle
    /\ upd' = [upd EXCEPT !.step = "migrate"]
    /\ UNCHANGED <<bin, host, trusting, skillsVars, commands, crashes>>

(* A crash or a Ctrl+C takes the update and its child together.            *)
Crash ==
    /\ ~Quiet /\ crashes < MaxCrashes
    /\ crashes' = crashes + 1
    /\ upd' = NoUpdate
    /\ IF JobIdle THEN UNCHANGED skillsVars ELSE SkillsCrash
    /\ UNCHANGED <<bin, host, trusting, commands>>

InstalledNext ==
    \/ Update \/ Install \/ Uninstall \/ UpdateInstalledSkills \/ ChildEnds \/ Crash
    \/ UpdateStep /\ UNCHANGED <<skillsVars, commands, crashes>>
    \/ SkillsStep /\ UNCHANGED <<updateVars, commands, crashes>>
    \/ Quiet /\ UserStep /\ UNCHANGED <<updateVars, commands, crashes>>

Next ==
    /\ UNCHANGED group
    /\ \/ group = "installed" /\ InstalledNext /\ UNCHANGED configVars
       \/ group = "configured" /\ ConfigNext /\ UNCHANGED <<skillsVars, updateVars, commands, crashes>>

Spec == Init /\ [][Next]_vars
=============================================================================
