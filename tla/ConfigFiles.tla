---------------------------- MODULE ConfigFiles ----------------------------
(***************************************************************************)
(* The files under ~/.verda and ~/.docker that commands rewrite to change  *)
(* one part of them: the credentials (auth login, object-storage           *)
(* configure, registry configure), config.yaml (auth use, settings theme), *)
(* Docker's config.json (registry configure-docker) and a template         *)
(* (template create, edit, delete).  Each is loaded whole, changed in      *)
(* memory and written whole: the first two in place, the others through a  *)
(* temporary file of a fixed name and a rename.  Several processes may do  *)
(* so at once and any may die.                                             *)
(***************************************************************************)
EXTENDS Naturals, FiniteSets

CONSTANTS
    Procs,          \* processes of the user
    MaxWrites       \* bound: commands that get as far as their write

InPlace == {"credentials", "config"}
Renamed == {"docker", "template"}
HostConfigs == InPlace \cup Renamed
Keys == {"api", "s3", "registry", "profile", "theme", "vccr", "other", "template"}
Absent == 0

(* One command per part: the file it rewrites, the key it sets.            *)
Commands ==
    {[file |-> "credentials", key |-> k, cmd |-> "login"] : k \in {"api", "s3"}}
    \cup {[file |-> "credentials", key |-> "registry", cmd |-> "configure"]}
    \cup {[file |-> "config", key |-> k, cmd |-> "set"] : k \in {"profile", "theme"}}
    \cup {[file |-> "docker", key |-> "vccr", cmd |-> "dockerLogin"]}
    \cup {[file |-> "template", key |-> "template", cmd |-> c] : c \in {"create", "edit", "delete"}}

VARIABLES
    disk,       \* [HostConfigs -> [Keys -> value]]; a file that is missing has no key
    temp,       \* [Renamed -> "none", or the content of the temporary file]
    proc,       \* [Procs -> [step, c, copy, val, handle]]
    writes,     \* commands begun, and the value the next one writes
    wanted,     \* history: what the commands that ended well wanted in the files
    disturbed   \* history: files written by two at once, or cut off by a crash
configVars == <<disk, temp, proc, writes, wanted, disturbed>>
-----------------------------------------------------------------------------
Blank == [k \in Keys |-> Absent]
NoTemp == [open |-> FALSE, content |-> Blank]
NoCommand == [step |-> "idle", c |-> [file |-> "none", key |-> "none", cmd |-> "none"],
              copy |-> Blank, val |-> Absent, handle |-> "none"]

ConfigInit ==
    /\ disk = [f \in HostConfigs |-> IF f = "docker" THEN [Blank EXCEPT !["other"] = 1] ELSE Blank]
    /\ temp = [f \in Renamed |-> NoTemp]
    /\ proc = [p \in Procs |-> NoCommand]
    /\ writes = 1
    /\ wanted = disk
    /\ disturbed = {}

Active(f) == {p \in Procs : proc[p].step # "idle" /\ proc[p].c.file = f}
Goes(p, step) == proc' = [proc EXCEPT ![p].step = step]
Ends(p) == proc' = [proc EXCEPT ![p] = NoCommand]

(* A command starts: two on one file disturb each other.                   *)
Begin(p, c) ==
    /\ proc[p].step = "idle" /\ writes <= MaxWrites
    /\ proc' = [proc EXCEPT ![p] = [NoCommand EXCEPT !.step = "look", !.c = c, !.val = writes + 1]]
    /\ writes' = writes + 1
    /\ disturbed' = IF Active(c.file) # {} THEN disturbed \cup {c.file} ELSE disturbed
    /\ UNCHANGED <<disk, temp, wanted>>

(* What is looked at before the user is asked, or has to type anything:    *)
(* registry configure whether the profile has credentials; template create *)
(* whether the name is taken (it asks for another); edit and delete load   *)
(* the template, which must exist; edit keeps what it loaded.              *)
Look(p) ==
    LET c == proc[p].c  taken == disk[c.file][c.key] # Absent IN
    /\ proc[p].step = "look"
    /\ \/ c.cmd = "configure" /\ Goes(p, IF taken THEN "ask" ELSE "load")
       \/ c.cmd = "create" /\ ~taken /\ Goes(p, "change")
       \/ c.cmd = "edit" /\ taken /\ Goes(p, "change")
       \/ c.cmd = "delete" /\ taken /\ Goes(p, "ask")
       \/ c.cmd \in {"login", "set", "dockerLogin"} /\ Goes(p, "load")
       \/ c.cmd = "create" /\ taken /\ Ends(p)
       \/ c.cmd \in {"edit", "delete"} /\ ~taken /\ Ends(p)
    /\ UNCHANGED <<disk, temp, writes, wanted, disturbed>>

(* confirmOverwriteIfConfigured and the confirmation of template delete.   *)
Answer(p) ==
    /\ proc[p].step = "ask"
    /\ \/ Ends(p)
       \/ Goes(p, IF proc[p].c.cmd = "delete" THEN "remove" ELSE "load")
    /\ UNCHANGED <<disk, temp, writes, wanted, disturbed>>

(* The whole file is loaded; a template is only ever written whole.        *)
LoadedNothing(f) == Blank
Loaded(f) == disk[f]
Load(p) ==
    /\ proc[p].step = "load"
    /\ proc' = [proc EXCEPT ![p].step = "change", ![p].copy = Loaded(proc[p].c.file)]
    /\ UNCHANGED <<disk, temp, writes, wanted, disturbed>>

Changed(p) == [proc[p].copy EXCEPT ![proc[p].c.key] = proc[p].val]

(* WriteSecureFile and ini's SaveTo truncate the file, then fill it.       *)
TruncateFile(p) ==
    /\ proc[p].step = "change" /\ proc[p].c.file \in InPlace
    /\ disk' = [disk EXCEPT ![proc[p].c.file] = Blank]
    /\ Goes(p, "fill")
    /\ UNCHANGED <<temp, writes, wanted, disturbed>>
FillFile(p) ==
    /\ proc[p].step = "fill"
    /\ disk' = [disk EXCEPT ![proc[p].c.file] = Changed(p)]
    /\ wanted' = [wanted EXCEPT ![proc[p].c.file][proc[p].c.key] = proc[p].val]
    /\ Ends(p)
    /\ UNCHANGED <<temp, writes, disturbed>>

(* atomicWrite and Save of a template open the one temporary file of the   *)
(* path, fill it and rename it.  A handle follows its file when another    *)
(* process renames that file first.                                        *)
OpenTemp(p) ==
    LET f == proc[p].c.file IN
    /\ proc[p].step = "change" /\ f \in Renamed
    /\ temp' = [temp EXCEPT ![f] = [open |-> TRUE, content |-> Blank]]
    /\ proc' = [proc EXCEPT ![p].step = "temp", ![p].handle = "temp"]
    /\ UNCHANGED <<disk, writes, wanted, disturbed>>
FillTemp(p) ==
    LET f == proc[p].c.file IN
    /\ proc[p].step = "temp"
    /\ \/ /\ proc[p].handle = "temp"
          /\ temp' = [temp EXCEPT ![f].content = Changed(p)]
          /\ UNCHANGED disk
       \/ /\ proc[p].handle = "path"
          /\ disk' = [disk EXCEPT ![f] = Changed(p)]
          /\ UNCHANGED temp
    /\ Goes(p, "rename")
    /\ UNCHANGED <<writes, wanted, disturbed>>
RenameTemp(p) ==
    LET f == proc[p].c.file IN
    /\ proc[p].step = "rename" /\ temp[f].open
    /\ disk' = [disk EXCEPT ![f] = temp[f].content]
    /\ temp' = [temp EXCEPT ![f] = NoTemp]
    /\ proc' = [q \in Procs |->
                   IF q = p THEN NoCommand
                   ELSE IF q \in Active(f) /\ proc[q].handle = "temp" THEN [proc[q] EXCEPT !.handle = "path"]
                   ELSE proc[q]]
    /\ wanted' = [wanted EXCEPT ![f][proc[p].c.key] = proc[p].val]
    /\ UNCHANGED <<writes, disturbed>>
RenameMissing(p) ==
    /\ proc[p].step = "rename" /\ ~temp[proc[p].c.file].open
    /\ Ends(p)
    /\ UNCHANGED <<disk, temp, writes, wanted, disturbed>>

(* template delete; the template may be gone by now.                       *)
RemoveTemplate(p) ==
    /\ proc[p].step = "remove"
    /\ disk' = [disk EXCEPT !["template"] = Blank]
    /\ wanted' = [wanted EXCEPT !["template"] = Blank]
    /\ Ends(p)
    /\ UNCHANGED <<temp, writes, disturbed>>

(* The process dies: a file it had truncated in place is lost.  A          *)
(* temporary file stays behind and the next writer truncates it.           *)
Die(p) ==
    /\ proc[p].step # "idle"
    /\ disturbed' = IF proc[p].step = "fill" THEN disturbed \cup {proc[p].c.file} ELSE disturbed
    /\ Ends(p)
    /\ UNCHANGED <<disk, temp, writes, wanted>>

ConfigNext ==
    \E p \in Procs :
        \/ \E c \in Commands : Begin(p, c)
        \/ Look(p) \/ Answer(p) \/ Load(p) \/ TruncateFile(p) \/ FillFile(p)
        \/ OpenTemp(p) \/ FillTemp(p) \/ RenameTemp(p) \/ RenameMissing(p)
        \/ RemoveTemplate(p) \/ Die(p)
-----------------------------------------------------------------------------
(* A file nobody writes holds what each finished command put there and     *)
(* everything the others left alone, unless two commands worked on it at   *)
(* once or one died while it had it truncated.                             *)
OtherKeysKept ==
    \A f \in HostConfigs \ disturbed : Active(f) = {} => disk[f] = wanted[f]
=============================================================================
