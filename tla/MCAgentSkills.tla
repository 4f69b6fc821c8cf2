---------------------------- MODULE MCAgentSkills ----------------------------
(***************************************************************************)
(* Small instances of AgentSkills.  Two versions of the bundle that differ *)
(* in one line of two, so that an edit may or may not overlap the update.  *)
(***************************************************************************)
EXTENDS AgentSkills, TLC

CONSTANTS note   \* an extra entry
CONSTANTS p1, p2                     \* processes
MCLines  == {1, 2}
OneLine  == {1}
MCTokens == {"old", "new", "mine"}
MCVersions == {"v1", "v2"}
MCBundled ==
  [v \in MCVersions |-> [l \in Lines |-> IF v = "v2" /\ l = 1 THEN "new" ELSE "old"]]

MCExtras == {note}
OneNote == {[e \in MCExtras |-> "file"]}
NoteOrDirectory == {[e \in MCExtras |-> k] : k \in {"file", "empty"}}

Edited == [l \in Lines |-> IF l = Cardinality(Lines) THEN "mine" ELSE "old"]

(* An empty directory, one with a directory in place of a file, with a     *)
(* symbolic link, and one with an edited file.                             *)
MCInitTargets ==
  {[f \in Files |-> Missing], [f \in Files |-> IF f = 1 THEN Directory ELSE Missing],
   [f \in Files |-> IF f = 1 THEN Regular(Edited) ELSE NonRegular]}
OneEdited == {[f \in Files |-> Regular(Edited)]}
OneMissing == {[f \in Files |-> Missing]}
==============================================================================
