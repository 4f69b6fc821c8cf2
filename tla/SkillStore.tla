------------------------------- MODULE SkillStore -------------------------------
(***************************************************************************)
(* What a directory of skill files promises, whoever writes it and         *)
(* whatever dies while writing: a managed path holds whole contents, and   *)
(* the ancestor kept for it is a content that was really installed there.  *)
(* AgentSkills implements it: its temporary files, reports and prompts are *)
(* not to be seen here.                                                    *)
(***************************************************************************)
CONSTANTS
  Paths,      \* the managed files
  Contents,   \* what a file can hold
  Initially,  \* the states of the paths at first
  Absent, Occupied(_),   \* no file, and a file that holds a content
  Blocked,    \* what stands where no file can be put
  Nothing, Remembered(_) \* no ancestor, and a content kept as the ancestor

VARIABLES
  file,      \* what is at a path
  kept,      \* its ancestor
  history    \* the contents that were installed at it

store == <<file, kept, history>>

Init ==
  /\ file \in Initially
  /\ kept = [f \in Paths |-> Nothing]
  /\ history = [f \in Paths |-> {}]

(* A content is put at a path in one step.                                 *)
Put(f, c) ==
  /\ file[f] # Blocked
  /\ file' = [file EXCEPT ![f] = Occupied(c)]
  /\ history' = [history EXCEPT ![f] = @ \cup {c}]
  /\ UNCHANGED kept

(* A content that was put there becomes the ancestor, at once or later, or *)
(* never.                                                                  *)
Remember(f, c) ==
  /\ c \in history[f]
  /\ kept' = [kept EXCEPT ![f] = Remembered(c)]
  /\ UNCHANGED <<file, history>>

(* The user removes a file, blocks its path or writes it.                  *)
Change(f) ==
  /\ \/ file' = [file EXCEPT ![f] = Absent]
     \/ file' = [file EXCEPT ![f] = Blocked]
     \/ \E c \in Contents : file' = [file EXCEPT ![f] = Occupied(c)]
  /\ UNCHANGED <<kept, history>>

Next == \E f \in Paths : Change(f) \/ \E c \in Contents : Put(f, c) \/ Remember(f, c)

Spec == Init /\ [][Next]_store
================================================================================
