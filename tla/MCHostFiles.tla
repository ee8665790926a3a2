---------------------------- MODULE MCHostFiles ----------------------------
(* Two releases, the second of which renames a skill.                      *)
EXTENDS HostFiles

SkillNames == <<{"cloud", "reference"}, {"cloud", "guide"}>>
Mapped(n) == CASE n = "cloud" -> "cloud/SKILL" [] n = "guide" -> "guide/SKILL" [] OTHER -> "reference/SKILL"
NoMap == [n \in {} |-> n]

(* The second brings a file_map; each has one, for its own skills.         *)
FileMaps == <<[a \in CopyAgents |-> NoMap], [a \in CopyAgents |-> [n \in SkillNames[2] |-> Mapped(n)]]>>
OwnMaps == [v \in Versions |-> [a \in CopyAgents |-> [n \in SkillNames[v] |-> Mapped(n)]]]
=============================================================================
